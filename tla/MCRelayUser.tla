---------------------------- MODULE MCRelayUser -----------------------------
(* A small instance of RelayUser for TLC.                                   *)
EXTENDS RelayUser

CONSTANT manager

\* The standard rules of Communication: managers do everything, everybody reads
\* and deletes what is their own.
MCStandard == { [role |-> manager, rights |-> Rights, owner |-> FALSE],
                [role |-> All, rights |-> {"read", "delete"}, owner |-> TRUE] }

MCRights == {"read", "write", "delete"}

MCCallers == {"Guest", "Administrator"}
=============================================================================
