------------------------------ MODULE Evidence ------------------------------
(***************************************************************************)
(* What evidence/ computes: building and signing an attestation, and the   *)
(* re-verification of a DSSE envelope against live bytes.                   *)
(*                                                                         *)
(* An envelope is [payload, sigs].  A signature is [scheme, keyid, key]:    *)
(* key is the key whose signature over exactly this payload the bytes are, *)
(* NoKey when they are no valid signature of it (forged, of other bytes,   *)
(* not base64).  A payload is [form, subject, att]: form says what the     *)
(* bytes decode to, subject is the digest in statement.subject[0] and att   *)
(* the predicate.  A digest is the tree it is the hash of.                 *)
(***************************************************************************)
EXTENDS Verdict, Sequences

(* "vetting": a MIG vetting statement.  "badSubject": one whose first subject,
   or its digest, is no JSON object.  "other": a JSON object that is not one, or
   whose predicate does not decode. *)
PayloadForms == {"vetting", "badSubject", "other", "notObject", "notJson", "notBase64"}

NoKey      == "no key"
AnyKeyid   == "any keyid"      \* expected_keyid is None

-----------------------------------------------------------------------------
(* Building and signing *)

(* Executed gates must name their scanner and its version. *)
AttributionProblems(results) ==
    {r \in Executed(results) : ~(r.named /\ r.versioned)}

CanAttest(artifact, verdict) ==
    /\ artifact.digest # NoDigest
    /\ verdict.ref = artifact.ref
    /\ AttributionProblems(verdict.results) = {}

BuildAttestation(artifact, verdict, policy, confinement) ==
    [digest      |-> artifact.digest,
     type        |-> artifact.type,
     decision    |-> verdict.decision,
     gates       |-> verdict.results,
     rigor       |-> RigorSummary(verdict.results),
     confinement |-> confinement,
     policy      |-> policy]

SignAttestation(att, signer) ==
    [payload |-> [form |-> "vetting", subject |-> att.digest, att |-> att],
     sigs    |-> <<[scheme |-> signer.scheme, keyid |-> signer.keyid, key |-> signer.key]>>]

-----------------------------------------------------------------------------
(* Verifying *)

WellFormed(env) == env.sigs # <<>>      \* dsse_envelope_from_dict, or ValueError

(* Only signatures of the operator's scheme count. *)
Matching(env, verifier) == {i \in DOMAIN env.sigs : env.sigs[i].scheme = verifier.scheme}

SignatureHolds(env, verifier) ==
    \E i \in Matching(env, verifier) : env.sigs[i].key = verifier.key

(* The first matching signature's keyid, verified or not. *)
ReportedKeyid(env, verifier) ==
    LET m == Matching(env, verifier)
        first == IF m = {} THEN 1 ELSE CHOOSE i \in m : \A j \in m : i <= j
    IN  env.sigs[first].keyid

(* verify_envelope: the statement, a VerificationError, or the ValueError of
   json.loads on a payload whose signature has already been accepted. *)
VerifyEnvelope(env, verifier) ==
    IF env.payload.form = "notBase64" \/ ~SignatureHolds(env, verifier)
    THEN "VerificationError"
    ELSE CASE env.payload.form = "notJson"   -> "ValueError"
           [] env.payload.form = "notObject" -> "VerificationError"
           [] OTHER                          -> "statement"

(* subject_digest calls .get on what is no object: an AttributeError, which the
   guard of verify_attestation does not name. *)
SubjectCrashes(env, verifier) ==
    env.payload.form = "badSubject" /\ VerifyEnvelope(env, verifier) = "statement"

(* Where the live digest is not compared: the statement does not decode, or
   the predicate names another digest than the signed subject. *)
StatementUsable(payload) ==
    payload.form = "vetting" /\ payload.att.digest = payload.subject

(* Mutant: the statement is taken for the bytes it was once about. *)
ChecksWithoutRebind(env, verifier, expected, live) ==
    LET signed == VerifyEnvelope(env, verifier) = "statement"
        p == env.payload
    IN  [signature     |-> signed,
         digest_rebind |-> signed /\ StatementUsable(p),
         attribution   |-> /\ signed
                           /\ p.form = "vetting"
                           /\ AttributionProblems(p.att.gates) = {},
         keyid         |-> expected = AnyKeyid]

(* The four checks of verify_attestation. *)
Checks(env, verifier, expected, live) ==
    LET signed == VerifyEnvelope(env, verifier) = "statement"
        p == env.payload
    IN  [signature     |-> signed,
         digest_rebind |-> signed /\ StatementUsable(p) /\ live = {p.subject},
         attribution   |-> /\ signed
                           /\ p.form = "vetting"
                           /\ AttributionProblems(p.att.gates) = {},
         keyid         |-> \/ expected = AnyKeyid
                           \/ \E i \in Matching(env, verifier) :
                                 env.sigs[i].keyid = expected]

(* verify_attestation.  live is the set of the artifact's digest, empty when one
   of its files cannot be read.  raises: a ValueError or an AttributeError leaves
   it. *)
VerifyAttestation(env, verifier, expected, live) ==
    IF \/ ~WellFormed(env) \/ VerifyEnvelope(env, verifier) = "ValueError"
       \/ SubjectCrashes(env, verifier)
    THEN [raises |-> TRUE]
    ELSE LET checks == Checks(env, verifier, expected, live)
         IN  [raises |-> FALSE,
              checks |-> checks,
              ok     |-> \A c \in DOMAIN checks : checks[c],
              scheme |-> verifier.scheme,
              keyid  |-> ReportedKeyid(env, verifier)]
=============================================================================
