------------------------------ MODULE Sandbox ------------------------------
(***************************************************************************)
(* The behavioural sandboxes of sandbox/: what one detonation can come to  *)
(* and the observation the host makes of it.  The container runtime, the    *)
(* network and the loaded code are the environment.                         *)
(***************************************************************************)
EXTENDS Verdict

Sandboxes == {"noop", "docker", "gvisor", "deferred"}   \* confinement levels; deferred: spec_emit

(* How a "docker run" ends, and what the harness printed: ended is the client's
   view, document what is found between the run's own sentinels. *)
Detonation == [ended    : {"noCli", "noDaemon", "timeout", "exited"},
               document : {"none", "malformed", "observed"},
               loaded   : BOOLEAN,    \* some file is listed as loaded
               errors   : BOOLEAN,    \* some error is listed
               egress   : BOOLEAN,    \* a connection was attempted ...
               breached : BOOLEAN,    \* ... and succeeded
               lookup   : BOOLEAN]    \* a name was resolved

Silent == [ended |-> "exited", document |-> "none", loaded |-> FALSE, errors |-> FALSE,
           egress |-> FALSE, breached |-> FALSE, lookup |-> FALSE]

(* What the container finds at its mount point: the artifact, a directory it may
   not read, or an empty one. *)
Mounts == {"files", "unreadable", "empty"}

(* The harness over a mount and an artifact that calls out on load or does not:
   a walk error and a file that raises are listed as errors, any other file as
   loaded. *)
Harness(mount, callsOut) ==
    {d \in Detonation :
        /\ d.ended = "exited" /\ d.document = "observed"
        /\ d.loaded => mount = "files"
        /\ (d.loaded \/ d.errors) <=> (mount # "empty")
        /\ d.egress \/ d.lookup => mount = "files" /\ callsOut
        /\ d.breached => d.egress}

(* Every end of a run: the code may also exit, hang or print over the output. *)
Detonations(mount, callsOut) ==
    Harness(mount, callsOut)
        \cup {[Silent EXCEPT !.ended = e] : e \in {"noCli", "noDaemon", "timeout", "exited"}}
        \cup {[Silent EXCEPT !.document = "malformed"]}

-----------------------------------------------------------------------------
Observation(status, rigor, findings) ==
    [status |-> status, rigor |-> rigor, findings |-> findings]
Finding(code, severity) == [code |-> code, severity |-> severity]

Inconclusive(code) == Observation("error", "none", {Finding(code, "medium")})

(* Mutant: a run that shows nothing is believed. *)
ObserveDocumentTrusting(d, hasFiles) ==
    Observation(IF d.egress THEN "fail" ELSE "pass", "behavioral",
                IF d.egress THEN {Finding("behavioral_network_egress", "high")} ELSE {})

(* _observation_from_stdout *)
ObserveDocument(d, hasFiles) ==
    IF d.document = "none" THEN Inconclusive("behavioral_no_observation")
    ELSE IF d.document = "malformed" THEN Inconclusive("behavioral_malformed_observation")
    ELSE IF hasFiles /\ ~(d.loaded \/ d.errors \/ d.egress \/ d.lookup)
         THEN Inconclusive("behavioral_artifact_unreadable")
    ELSE IF d.egress
         THEN Observation("fail", "behavioral",
                  {Finding("behavioral_network_egress", "high")} \cup
                  IF d.breached THEN {Finding("behavioral_egress_not_confined", "critical")} ELSE {})
         ELSE Observation("pass", "behavioral",
                  IF d.lookup THEN {Finding("behavioral_dns_lookup", "low")} ELSE {})

(* Mutant: a status of its own for a timeout. *)
ObserveRunTimedOut(d, hasFiles) ==
    IF d.ended \in {"noCli", "noDaemon"} THEN Inconclusive("sandbox_unavailable")
    ELSE IF d.ended = "timeout"
         THEN Observation("timeout", "behavioral", {Finding("behavioral_timeout", "high")})
         ELSE ObserveDocument(d, hasFiles)

(* DockerSandbox._run *)
ObserveRun(d, hasFiles) ==
    IF d.ended \in {"noCli", "noDaemon"} THEN Inconclusive("sandbox_unavailable")
    ELSE IF d.ended = "timeout"
         THEN Observation("warn", "behavioral", {Finding("behavioral_timeout", "high")})
         ELSE ObserveDocument(d, hasFiles)

(* detonate() of the configured sandbox.  The no-op and the deferred one run
   nothing and say so. *)
Observe(sandbox, d, hasFiles) ==
    IF sandbox = "noop"
    THEN Observation("skipped", "none", {Finding("behavioral_analysis_skipped", "high")})
    ELSE IF sandbox = "deferred"
    THEN Observation("skipped", "none", {Finding("behavioral_spec_emitted", "medium")})
    ELSE ObserveRun(d, hasFiles)

(* What the attestation records: a deferred run is of a docker sandbox. *)
Confinement(sandbox) == IF sandbox = "deferred" THEN "docker" ELSE sandbox
=============================================================================
