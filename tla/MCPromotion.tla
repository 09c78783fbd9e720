---------------------------- MODULE MCPromotion ----------------------------
(* Small instances of Promotion.  Each envelope is wrong in one way at most. *)
EXTENDS Promotion, TLC

CONSTANTS e1, e2, weights, cache, b1, b2

D1 == weights :> b1
D2 == weights :> b2

Operator  == [scheme |-> "ed25519", key |-> "k1"]
Plain     == [keyids |-> {}, asymmetric |-> FALSE, opa |-> FALSE]
AskingOpa == [keyids |-> {"id1"}, asymmetric |-> TRUE, opa |-> TRUE]

Sig(scheme, keyid, key) == [scheme |-> scheme, keyid |-> keyid, key |-> key]
Good == <<Sig("ed25519", "id1", "k1")>>

GateResult(status, rigor, named) ==
    [gate |-> "g", status |-> status, rigor |-> rigor, findings |-> {},
     named |-> named, versioned |-> TRUE]

Att(d, type, decision, confinement, r) ==
    [digest |-> d, type |-> type, decision |-> decision, gates |-> {r},
     rigor |-> RigorSummary({r}), confinement |-> confinement,
     policy |-> [id |-> TRUE, version |-> TRUE]]

Model(d) == Att(d, "model", "approve", "noop", GateResult("pass", "static", TRUE))
Says(d, att) == [form |-> "vetting", subject |-> d, att |-> att]
Envelope(payload, sigs) == [payload |-> payload, sigs |-> sigs]

\* e1 and e2 are promotable attestations of one artifact
Sound == e1 :> Envelope(Says(D1, Model(D1)), Good)
         @@ e2 :> Envelope(Says(D1, Model(D1)), Good \o <<Sig("hmac-sha256", "id2", NoKey)>>)

Faulty ==
       "rejected"   :> Envelope(Says(D1, [Model(D1) EXCEPT !.decision = "reject"]), Good)
    @@ "unsandboxed" :> Envelope(Says(D1,
            Att(D1, "notebook", "approve", "noop", GateResult("pass", "static", TRUE))), Good)
    @@ "sandboxed"  :> Envelope(Says(D2,
            Att(D2, "notebook", "approve", "docker", GateResult("warn", "behavioral", TRUE))), Good)
    @@ "unnamed"    :> Envelope(Says(D1,
            Att(D1, "model", "approve", "noop", GateResult("pass", "static", FALSE))), Good)
    @@ "relabelled" :> Envelope(Says(D1, Model(D2)), Good)
    @@ "otherKey"   :> Envelope(Says(D1, Model(D1)), <<Sig("ed25519", "id1", "k2")>>)
    @@ "otherKeyid" :> Envelope(Says(D1, Model(D1)), <<Sig("ed25519", "id2", "k1")>>)
    @@ "otherScheme" :> Envelope(Says(D1, Model(D1)), <<Sig("hmac-sha256", "id1", "k1")>>)
    @@ "garbled"    :> Envelope([Says(D1, Model(D1)) EXCEPT !.form = "notJson"], Good)
    @@ "array"      :> Envelope([Says(D1, Model(D1)) EXCEPT !.form = "notObject"], Good)
    @@ "foreign"    :> Envelope([Says(D1, Model(D1)) EXCEPT !.form = "other"], Good)
    @@ "noSubject"  :> Envelope([Says(D1, Model(D1)) EXCEPT !.form = "badSubject"], Good)
    @@ "unsigned"   :> Envelope(Says(D1, Model(D1)), <<>>)

AllContent == Sound @@ Faulty
SoundOnly  == Sound

Rejected == "rejected" :> Faulty["rejected"]
MixedContent == e1 :> Sound[e1] @@ Rejected

SubjectsOf(content) == [e \in DOMAIN content |-> content[e].payload.subject]
AllSubjects   == SubjectsOf(AllContent)
MixedSubjects == SubjectsOf(MixedContent)
MixedEnvelopes == DOMAIN MixedContent
SoundSubjects == SubjectsOf(SoundOnly)
AllEnvelopes  == DOMAIN AllContent

Symmetry == Permutations(Attempts)
=============================================================================
