---------------------------- MODULE MCFactStore ----------------------------
(* Small instances of FactStore, MemoryFacts and SessionFacts for TLC.     *)
EXTENDS SessionFacts, TLC

MCNames == {"n"}
MCOneKey == {"k"}
MCValues == {"v"}

\* Facts with a key of two parts, and the ways to ask for them.
MCSessionKeys == {<<1, 1>>, <<1, 2>>, <<2, 1>>}
MCPrefixes == {<<>>, <<1>>}

\* An index in front of another: a fact deleted, one added, one that stays.
Facts_(m) == [n \in MCNames |-> m]
Some == Facts_((<<1, 1>> :> "v") @@ (<<2, 1>> :> "v"))
Others == Facts_((<<1, 1>> :> Deleted) @@ (<<1, 2>> :> "v"))
MCBases == {<<Others, Some>>}
=============================================================================
