--------------------------- MODULE MCApiRequests ---------------------------
EXTENDS ApiRequests, TLC

CONSTANTS q1, save, edit

MCAffected == (save :> {q1}) @@ (edit :> {q1})
=============================================================================
