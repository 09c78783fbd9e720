------------------------------- MODULE MCCli -------------------------------
(* Small instances of Cli: pairs of commands that meet at the local tree, at
   the hub or at a file. *)
EXTENDS Cli, TLC

CONSTANTS x, y, z, i1, i2

MCSize == x :> 1 @@ y :> 2 @@ z :> 3

OneTree == "p" :> x
Pair  == "p" :> x @@ "q" :> y
Twice == "p" :> y @@ "q" :> y       \* more than MaxTotalBytes
Large == "p" :> z                   \* more than MaxFileBytes
Three == "p" :> x @@ "q" :> x @@ "r" :> x       \* more than MaxFiles

Refused == {NoFiles, Twice, Large, Three, "p" :> Link}
MCCommits    == "c1" :> OneTree @@ "c2" :> ("p" :> y) @@ "c3" :> Twice

Key(scheme)  == [scheme |-> scheme, keyid |-> "id1", key |-> "k1"]
Hmac         == Key("hmac-sha256")
Cosign       == Key("cosign")

Request(cmd, scheme, pin) ==
    [cmd |-> cmd, scheme |-> scheme, pin |-> pin, signer |-> Hmac,
     failOn |-> "none", writes |-> <<>>, reads |-> "att"]

Local(cmd) == Request(cmd, "local", NoTree)
Hub(cmd)   == Request(cmd, "huggingface", NoTree)
By(r, signer)     == [r EXCEPT !.signer = signer]
Writing(r, names) == [r EXCEPT !.writes = names]
Under(r, failOn)  == [r EXCEPT !.failOn = failOn]

Ingest == Under(Writing(Local("ingest"), <<"att">>), "reject")

\* an envelope that nobody's key signed
Forged(signer) == SignAttestation(
    [digest |-> OneTree, gates |-> {}, decision |-> "approve"], [signer EXCEPT !.key = NoKey])

Start(a, b, sources, files) ==
    [request : {i1 :> a @@ i2 :> b}, source : sources, head : {"c1"},
     file : {"att" :> c @@ "bundle" :> Missing : c \in files}]

MCStarts ==
    Start(Ingest, Local("verify"), {OneTree, Pair}, {Missing, Forged(Hmac)})
    \cup Start(By(Writing(Local("ingest"), <<"att", "bundle">>), Cosign),
               By(Local("verify"), Cosign), {OneTree}, {Missing, Forged(Cosign)})
    \cup Start(Writing(Hub("evidence"), <<"att">>), Hub("verify"),
               {OneTree}, {Missing, Forged(Hmac)})
    \cup Start(Ingest, Writing(Hub("evidence"), <<"att">>), {OneTree}, {Missing})
    \cup Start(Under(Hub("scan"), "review_required"), Request("manifest", "local", Pair),
               {Pair}, {Missing})
    \cup Start(Under(Local("scan"), "reject"), Local("policy"), Refused, {Missing})
=============================================================================
