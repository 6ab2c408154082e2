---------------------------- MODULE MCXmppPuppet ----------------------------
(* Instances of XmppPuppet for TLC: the nick with the suffix is a pair.    *)
EXTENDS XmppPuppet

WithSuffix(n) == <<n, "[m]">>
=============================================================================
