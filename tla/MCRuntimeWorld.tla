---------------------------- MODULE MCRuntimeWorld ----------------------------
(* A small instance of RuntimeWorld: the root scope and one child of it.   *)
EXTENDS RuntimeWorld

MCWorldScopes == {"root", "child"}
MCWorldAncestors == [n \in MCWorldScopes |-> {"root", n}]
===============================================================================
