--------------------------- MODULE MCClientSession ---------------------------
EXTENDS ClientSession

\* One token refresh, and nothing that goes wrong.
MCTokenOnly == {[token |-> 1, drop |-> 0, close |-> 0, failure |-> 0, select |-> 0, create |-> 0, removal |-> 0]}
=============================================================================
