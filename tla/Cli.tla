-------------------------------- MODULE Cli --------------------------------
(***************************************************************************)
(* The decision-only commands of cli/main.py: scan, policy test, manifest,  *)
(* ingest, evidence and verify, several invocations at once.  Each runs in  *)
(* a process and a workspace of its own; an --out or --bundle file that one *)
(* writes another may be reading.  Extends the fetch it makes its first     *)
(* step, and the evidence it signs and verifies.  What the gates decide is  *)
(* Gateway's; here they decide anything.                                   *)
(***************************************************************************)
EXTENDS Fetch, Evidence

CONSTANTS
    Files,              \* --out, --bundle and --attestation paths
    Missing, Empty, Garbled,    \* no file; no bytes; bytes of two writers
    CliFaults           \* of CliFaultKinds

CliFaultKinds == {"ref", "policyFile", "key", "mkdtemp", "policy", "cosign", "scratch",
                  "rehash", "stdout", "out"}

Commands == {"scan", "policy", "manifest", "ingest", "evidence", "verify"}
Signing  == {"ingest", "evidence"}
Phases   == {"read", "args", "workspace", "fetch", "scan", "sign", "verify", "print",
             "cleanup", "open", "write", "ended"}
Running  == -1      \* no exit code yet
Traceback == 1      \* what the interpreter exits with

DecisionRank == [approve |-> 0, review_required |-> 1, reject |-> 2]

Signatures == [scheme : STRING, keyid : STRING, key : STRING]
Envelopes  == [payload : [form : PayloadForms, subject : Trees,
                          att : [digest : Trees, gates : {{}}, decision : Decisions]],
               sigs : Seq(Signatures)]
Requests   == [cmd : Commands, scheme : STRING, pin : Trees \cup {NoTree}, signer : Signatures,
               failOn : Decisions \cup {"none"}, writes : Seq(Files), reads : Files]

ASSUME CliAssumption ==
    /\ CliFaults \subseteq CliFaultKinds
    /\ \A s \in Starts : s.file \in [Files -> Envelopes \cup {Missing, Empty, Garbled}]
    /\ \A s \in Starts, i \in Invocations :
          /\ s.request[i] \in Requests
          /\ s.request[i].writes # <<>> => s.request[i].cmd \in Signing

(* No file holds a signature made with the key of a command before it starts. *)
ASSUME ForgeryAssumption ==
    \A s \in Starts, n \in Files, i \in Invocations :
        s.file[n] \in {Missing, Empty, Garbled} \/ ~ SignatureHolds(s.file[n], s.request[i].signer)

(* A start also has file, what the files hold; a request also has cmd, signer
   ([scheme, keyid, key]), failOn, writes (the files it writes, in order) and
   reads (the one it verifies). *)
VARIABLES
    phase,      \* phase[i]: the next step of command i
    code,       \* code[i]: the exit code it is about to end with
    decided,    \* decided[i]: the verdict's decision, or the one verify read
    seen,       \* seen[i]: history, the tree the gates read
    env,        \* env[i]: the envelope signed, or read from the file
    out,        \* out[i]: the files still to write
    file,       \* file[n]
    wrote       \* history: <<i, n>>, i's write to n ended well

locals == <<phase, code, decided, seen, env, out>>
cvars  == <<fvars, locals, file, wrote>>

CInit ==
    /\ FInit
    /\ phase = [i \in Invocations |-> IF request[i].cmd = "verify" THEN "read" ELSE "args"]
    /\ code    = [i \in Invocations |-> Running]
    /\ decided = [i \in Invocations |-> "none"]
    /\ seen    = [i \in Invocations |-> NoTree]
    /\ env     = [i \in Invocations |-> Missing]
    /\ out     = [i \in Invocations |-> request[i].writes]
    /\ \E s \in Starts :
          request = s.request /\ source = s.source /\ head = s.head /\ file = s.file
    /\ wrote = {}

Cmd(i)          == request[i].cmd
Go(i, from, to) == phase[i] = from /\ phase' = [phase EXCEPT ![i] = to]
Code(i, c)      == code' = [code EXCEPT ![i] = c]
Leave(i, from, to, c) == Go(i, from, to) /\ Code(i, c)

Kept == <<fvars, decided, seen, env, out, file, wrote>>
-----------------------------------------------------------------------------
(* verify reads the attestation first: unreadable, not JSON or not an object is
   exit 2. *)
ReadAttestation(i) ==
    /\ LET n == request[i].reads IN
       IF file[n] \in {Missing, Empty, Garbled}
       THEN Leave(i, "read", "ended", 2) /\ UNCHANGED env
       ELSE Go(i, "read", "args") /\ env' = [env EXCEPT ![i] = file[n]] /\ UNCHANGED code
    /\ UNCHANGED <<fvars, decided, seen, out, file, wrote>>

(* _resolve_ref: an unknown scheme, a hub reference without a repo id. *)
BadReference(i) == "ref" \in CliFaults

(* load_policy: no such file, neither JSON nor YAML, no mapping, a bad rule. *)
BadPolicy(i) == "policyFile" \in CliFaults /\ Cmd(i) \notin {"manifest", "verify"}

(* _build_signer, _build_verifier: no key, an unreadable or an unusable one. *)
BadKey(i) == "key" \in CliFaults /\ Cmd(i) \in Signing \cup {"verify"}

(* What a command asks for, before it fetches anything. *)
Arguments(i) ==
    /\ \/ Go(i, "args", "workspace") /\ UNCHANGED code
       \/ (BadReference(i) \/ BadPolicy(i) \/ BadKey(i)) /\ Leave(i, "args", "ended", 2)
    /\ UNCHANGED Kept

(* tempfile.mkdtemp, outside every handler. *)
Workspace(i) ==
    /\ \/ /\ Go(i, "workspace", "fetch")
          /\ job' = [job EXCEPT ![i].at = "locate"]
          /\ UNCHANGED code
       \/ /\ "mkdtemp" \in CliFaults
          /\ Leave(i, "workspace", "ended", Traceback)
          /\ UNCHANGED job
    /\ UNCHANGED <<World, area, decided, seen, env, out, file, wrote>>

Fetching(i) ==
    /\ phase[i] = "fetch"
    /\ FetchStep(i)
    /\ UNCHANGED <<locals, file, wrote>>

(* Mutant: what a fetch raises is never looked at, and it is tried again. *)
FetchedRetrying(i) ==
    /\ Go(i, "fetch", "workspace")
    /\ job[i].at = "raised"
    /\ job' = [job EXCEPT ![i] = NewJob]
    /\ UNCHANGED <<World, area, code, decided, seen, env, out, file, wrote>>

(* _FETCH_ERRORS are exit 2; an OSError is a traceback. *)
Fetched(i) ==
    /\ phase[i] = "fetch"
    /\ \/ /\ job[i].at = "fetched"
          /\ Go(i, "fetch", CASE Cmd(i) = "manifest" -> "print"
                              [] Cmd(i) = "verify"   -> "verify"
                              [] OTHER               -> "scan")
          /\ UNCHANGED code
       \/ /\ job[i].at = "raised"
          /\ Leave(i, "fetch", "cleanup", IF job[i].error = "OSError" THEN Traceback ELSE 2)
    /\ UNCHANGED Kept

OnDisk(i) == Part(area[Dir(i)], job[i].staged)

(* run_pipeline over the files in quarantine, and for "policy test"
   matched_rules; an eval-time PolicyError is exit 2. *)
Scan(i) ==
    /\ \/ /\ Go(i, "scan", IF Cmd(i) \in Signing THEN "sign" ELSE "print")
          /\ \E d \in Decisions : decided' = [decided EXCEPT ![i] = d]
          /\ seen' = [seen EXCEPT ![i] = OnDisk(i)]
          /\ UNCHANGED code
       \/ /\ "policy" \in CliFaults
          /\ Leave(i, "scan", "cleanup", 2)
          /\ UNCHANGED <<decided, seen>>
    /\ UNCHANGED <<fvars, env, out, file, wrote>>

(* build_attestation and sign_statement.  cosign may not run, time out, fail or
   answer garbage, all a SigningError; _scratch leaves its OSError alone. *)
Sign(i) ==
    /\ \/ /\ Go(i, "sign", "cleanup")
          /\ env' = [env EXCEPT ![i] = SignAttestation(
                [digest |-> job[i].digest, gates |-> {}, decision |-> decided[i]],
                request[i].signer)]
          /\ UNCHANGED code
       \/ /\ request[i].signer.scheme = "cosign"
          /\ \/ "cosign"  \in CliFaults /\ Leave(i, "sign", "cleanup", 2)
             \/ "scratch" \in CliFaults /\ Leave(i, "sign", "cleanup", Traceback)
          /\ UNCHANGED env
    /\ UNCHANGED <<fvars, decided, seen, out, file, wrote>>

(* _cmd_verify catches only a ValueError of verify_attestation. *)
VerifyCode(i, v) ==
    IF v.raises THEN IF SubjectCrashes(env[i], request[i].signer) THEN Traceback ELSE 2
    ELSE IF v.ok THEN 0 ELSE 3

(* verify_attestation and what becomes of its result.  A cosign that
   cannot be run raises, one that runs and fails is a signature that does not
   hold; a file that cannot be re-read is a failed check. *)
Verify(i) ==
    /\ phase[i] = "verify"
    /\ \E live \in {{OnDisk(i)}} \cup (IF "rehash" \in CliFaults THEN {{}} ELSE {}) :
       LET v == VerifyAttestation(env[i], request[i].signer, AnyKeyid, live) IN
       \/ /\ Leave(i, "verify", "cleanup", VerifyCode(i, v))
          /\ decided' = [decided EXCEPT ![i] =
                IF ~ v.raises /\ v.checks.signature THEN env[i].payload.att.decision ELSE "none"]
       \/ /\ request[i].signer.scheme = "cosign"
          /\ WellFormed(env[i]) /\ Matching(env[i], request[i].signer) # {}
          /\ \/ "cosign" \in CliFaults /\ Leave(i, "verify", "cleanup", 3)
             \/ /\ CliFaults \cap {"cosign", "scratch"} # {}
                /\ Leave(i, "verify", "cleanup", Traceback)
          /\ UNCHANGED decided
    /\ UNCHANGED <<fvars, seen, env, out, file, wrote>>

ExitCode(d, failOn) ==
    IF failOn # "none" /\ DecisionRank[d] >= DecisionRank[failOn] THEN 1 ELSE 0

(* The code of a command that has done everything it was asked for. *)
Earned(i) == CASE Cmd(i) = "verify"             -> code[i]
               [] Cmd(i) \in {"scan", "ingest"} -> ExitCode(decided[i], request[i].failOn)
               [] OTHER                         -> 0

(* The report of scan, policy and manifest, inside the try; verify's, after it.
   A closed stdout is an OSError nobody catches. *)
Report(i) ==
    /\ LET to == IF Cmd(i) = "verify" THEN "ended" ELSE "cleanup" IN
       \/ Leave(i, "print", to, Earned(i))
       \/ "stdout" \in CliFaults /\ Leave(i, "print", to, Traceback)
    /\ UNCHANGED Kept

(* The finally: rmtree(ignore_errors=True), then what follows the try. *)
Cleanup(i) ==
    /\ Go(i, "cleanup", CASE Cmd(i) \in Signing /\ code[i] = Running  -> "open"
                          [] Cmd(i) = "verify" /\ code[i] \in {0, 3}  -> "print"
                          [] OTHER                                    -> "ended")
    /\ area' = [area EXCEPT ![Dir(i)] = NoFiles]
    /\ job'  = [job EXCEPT ![i] = [NewJob EXCEPT !.at = "removed", !.digest = job[i].digest]]
    /\ UNCHANGED <<World, code, decided, seen, env, out, file, wrote>>

(* ingest's --out and --bundle, evidence's --out: open(path, "wb") empties the
   file; without one more to write, the exit code. *)
OpenOut(i) ==
    /\ \/ /\ out[i] # <<>>
          /\ Go(i, "open", "write")
          /\ file' = [file EXCEPT ![Head(out[i])] = Empty]
          /\ UNCHANGED code
       \/ /\ "out" \in CliFaults
          /\ Leave(i, "open", "ended", 2)
          /\ UNCHANGED file
       \/ /\ out[i] = <<>>
          /\ Leave(i, "open", "ended", Earned(i))
          /\ UNCHANGED file
    /\ UNCHANGED <<fvars, decided, seen, env, out, wrote>>

(* Mutant: a failed write is not looked at. *)
WriteOutUnchecked(i) ==
    /\ Go(i, "write", "open")
    /\ \/ /\ file' = [file EXCEPT ![Head(out[i])] = env[i]]
          /\ wrote' = wrote \cup {<<i, Head(out[i])>>}
       \/ "out" \in CliFaults /\ UNCHANGED <<file, wrote>>
    /\ out' = [out EXCEPT ![i] = Tail(@)]
    /\ UNCHANGED <<fvars, code, decided, seen, env>>

(* The write at close(), from offset 0: over what another writer has put there
   meanwhile, whose end stays if it was longer. *)
WriteOut(i) ==
    /\ LET n == Head(out[i]) IN
       \/ /\ Go(i, "write", "open")
          /\ file' \in {[file EXCEPT ![n] = c] :
                           c \in {env[i]} \cup (IF file[n] = Empty THEN {} ELSE {Garbled})}
          /\ wrote' = wrote \cup {<<i, n>>}
          /\ out' = [out EXCEPT ![i] = Tail(@)]
          /\ UNCHANGED code
       \/ /\ "out" \in CliFaults
          /\ Leave(i, "write", "ended", 2)
          /\ UNCHANGED <<out, file, wrote>>
    /\ UNCHANGED <<fvars, decided, seen, env>>

CliStep(i) ==
    \/ ReadAttestation(i) \/ Arguments(i) \/ Workspace(i) \/ Fetching(i) \/ Fetched(i)
    \/ Scan(i) \/ Sign(i) \/ Verify(i) \/ Report(i) \/ Cleanup(i) \/ OpenOut(i) \/ WriteOut(i)

Around == (EditLocal \/ PushToHub) /\ UNCHANGED <<locals, file, wrote>>

CEnded == (\A i \in Invocations : phase[i] = "ended") /\ UNCHANGED cvars

CNext == (\E i \in Invocations : CliStep(i)) \/ Around \/ CEnded

CSpec == CInit /\ [][CNext]_cvars

(* Processes are scheduled; the hub, the sandbox and cosign answer or time out. *)
CFairSpec == CSpec /\ \A i \in Invocations : WF_cvars(CliStep(i))
-----------------------------------------------------------------------------
CliTypeOK ==
    /\ FTypeOK
    /\ phase   \in [Invocations -> Phases]
    /\ code    \in [Invocations -> Running .. 3]
    /\ decided \in [Invocations -> Decisions \cup {"none"}]
    /\ seen    \in [Invocations -> Trees \cup {NoTree}]
    /\ env     \in [Invocations -> Envelopes \cup {Missing}]
    /\ out     \in [Invocations -> Seq(Files)]
    /\ file    \in [Files -> Envelopes \cup {Missing, Empty, Garbled}]
    /\ wrote   \in SUBSET (Invocations \X Files)

Exited(i, c) == phase[i] = "ended" /\ code[i] = c

(* Exit 0 is earned by every command: the artifact was fetched at its pin; its
   gates, where the command has any, read exactly the bytes hashed, and decided
   below --fail-on; every file asked for was written to its end (main.py:288-292,
   409-439, 513-564). *)
ZeroIsEarned ==
    \A i \in Invocations : Exited(i, 0) =>
        /\ job[i].digest # NoTree /\ request[i].pin \in {NoTree, job[i].digest}
        /\ Cmd(i) \notin {"manifest", "verify"} => seen[i] = job[i].digest
        /\ (Cmd(i) \in {"scan", "ingest"} /\ request[i].failOn # "none") =>
               DecisionRank[decided[i]] < DecisionRank[request[i].failOn]
        /\ \A n \in Range(request[i].writes) : <<i, n>> \in wrote

(* What verify accepts was vetted: some invocation's gates read exactly the bytes
   that verify fetched and decided what verify reports, although the local tree
   is edited between the two, the attestation file is rewritten under the reader
   and forged ones lie around (verify.py:1-18, main.py:567-621). *)
AcceptedWasScanned ==
    \A i \in Invocations : (Cmd(i) = "verify" /\ Exited(i, 0)) =>
        \E j \in Invocations :
            Cmd(j) \in Signing /\ seen[j] = job[i].digest /\ decided[j] = decided[i]

(* Every command ends, whatever fails in it or around it: each step fails at
   once, and the processes it waits for have a timeout (main.py:409-621,
   cosign.py:33-57, docker.py:83-105). *)
InvocationsEnd ==
    \A i \in Invocations : <>(phase[i] = "ended")
=============================================================================
