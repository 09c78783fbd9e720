------------------------------ MODULE CliProofs ------------------------------
(***************************************************************************)
(* Theorems about Cli, for any invocations, trees, commits, files, limits   *)
(* and faults, by an inductive invariant in two halves: what each command   *)
(* knows of its own fetch and phase, and where the envelopes come from.     *)
(***************************************************************************)
EXTENDS Cli, SequenceTheorems, TLAPS

-----------------------------------------------------------------------------
(* trees *)

LEMMA TreeIs ==
    ASSUME NEW t
    PROVE  t \in Trees <=> /\ t = [p \in DOMAIN t |-> t[p]]
                           /\ DOMAIN t \subseteq Paths \cup {Cache}
                           /\ \A p \in DOMAIN t : t[p] \in Contents
  <1>1. ASSUME t \in Trees
        PROVE  /\ t = [p \in DOMAIN t |-> t[p]]
               /\ DOMAIN t \subseteq Paths \cup {Cache}
               /\ \A p \in DOMAIN t : t[p] \in Contents
    <2>1. PICK F \in SUBSET (Paths \cup {Cache}) : t \in [F -> Contents]  BY <1>1 DEF Trees
    <2> QED  BY <2>1
  <1>2. ASSUME t = [p \in DOMAIN t |-> t[p]], DOMAIN t \subseteq Paths \cup {Cache},
               \A p \in DOMAIN t : t[p] \in Contents
        PROVE  t \in Trees
    <2>1. t \in [DOMAIN t -> Contents]  BY <1>2
    <2> QED  BY <1>2, <2>1 DEF Trees
  <1> QED  BY <1>1, <1>2

LEMMA NoFilesIs == NoFiles \in Trees /\ DOMAIN NoFiles = {}
  <1>1. DOMAIN NoFiles = {} /\ NoFiles = [p \in DOMAIN NoFiles |-> NoFiles[p]]  BY DEF NoFiles
  <1> QED  BY <1>1, TreeIs

LEMMA PartIs ==
    ASSUME NEW t \in Trees, NEW F \in SUBSET DOMAIN t
    PROVE  /\ Part(t, F) \in Trees /\ DOMAIN Part(t, F) = F
           /\ \A p \in F : Part(t, F)[p] = t[p]
  <1>1. /\ DOMAIN Part(t, F) = F
        /\ \A p \in F : Part(t, F)[p] = t[p]
        /\ Part(t, F) = [p \in DOMAIN Part(t, F) |-> Part(t, F)[p]]  BY DEF Part
  <1>2. DOMAIN t \subseteq Paths \cup {Cache} /\ \A p \in DOMAIN t : t[p] \in Contents
    BY TreeIs
  <1>3. Part(t, F) \in Trees  BY <1>1, <1>2, TreeIs
  <1> QED  BY <1>1, <1>3

LEMMA OverIs ==
    ASSUME NEW t \in Trees, NEW u \in Trees
    PROVE  /\ Over(t, u) \in Trees /\ DOMAIN Over(t, u) = DOMAIN t \cup DOMAIN u
           /\ \A p \in DOMAIN t : Over(t, u)[p] = t[p]
           /\ \A p \in DOMAIN u \ DOMAIN t : Over(t, u)[p] = u[p]
  <1>1. /\ DOMAIN Over(t, u) = DOMAIN t \cup DOMAIN u
        /\ \A p \in DOMAIN t : Over(t, u)[p] = t[p]
        /\ \A p \in DOMAIN u \ DOMAIN t : Over(t, u)[p] = u[p]
        /\ Over(t, u) = [p \in DOMAIN Over(t, u) |-> Over(t, u)[p]]  BY DEF Over
  <1>2. /\ DOMAIN t \subseteq Paths \cup {Cache} /\ \A p \in DOMAIN t : t[p] \in Contents
        /\ DOMAIN u \subseteq Paths \cup {Cache} /\ \A p \in DOMAIN u : u[p] \in Contents
    BY TreeIs
  <1>3. \A p \in DOMAIN Over(t, u) : Over(t, u)[p] \in Contents  BY <1>1, <1>2
  <1>4. Over(t, u) \in Trees  BY <1>1, <1>2, <1>3, TreeIs
  <1> QED  BY <1>1, <1>4

LEMMA PutIs ==
    ASSUME NEW t \in Trees, NEW p \in Paths \cup {Cache}, NEW c \in Contents
    PROVE  /\ Put(t, p, c) \in Trees /\ DOMAIN Put(t, p, c) = DOMAIN t \cup {p}
           /\ \A q \in DOMAIN t \ {p} : Put(t, p, c)[q] = t[q]
  <1> DEFINE one == [q \in {p} |-> c]
  <1>1. one \in Trees /\ DOMAIN one = {p}  BY TreeIs
  <1>2. Put(t, p, c) = Over(one, t)  BY DEF Put
  <1> HIDE DEF one
  <1> QED  BY <1>1, <1>2, OverIs

(* A commit is a tree without a .cache. *)
LEMMA CommitIs ==
    ASSUME NEW c \in DOMAIN Commits
    PROVE  Commits[c] \in Trees /\ DOMAIN Commits[c] \subseteq Paths
  <1>1. Commits[c] \in Trees /\ Cache \notin DOMAIN Commits[c]  BY TreesAssumption
  <1> QED  BY <1>1, TreeIs

LEMMA LandingIs ==
    ASSUME NEW tree \in Trees, NEW t \in Landings(tree)
    PROVE  t \in Trees /\ \A p \in (DOMAIN tree \cap DOMAIN t) \ {Cache} : t[p] = tree[p]
  <1> DEFINE files == {Part(tree, F) : F \in
                        IF "drop" \in FetchFaults THEN SUBSET DOMAIN tree ELSE {DOMAIN tree}}
  <1> DEFINE strays == IF "stray" \in FetchFaults
                       THEN {Put(u, p, AnyContent) : u \in files, p \in Paths \ DOMAIN tree}
                       ELSE {}
  <1> DEFINE Like(u) == u \in Trees /\ \A p \in DOMAIN tree \cap DOMAIN u : u[p] = tree[p]
  <1>1. AnyContent \in Contents  BY TreesAssumption DEF AnyContent
  <1>2. \A u \in files : Like(u)
    <2> SUFFICES ASSUME NEW u \in files PROVE Like(u)  OBVIOUS
    <2>1. PICK F \in SUBSET DOMAIN tree : u = Part(tree, F)  OBVIOUS
    <2> QED  BY <2>1, PartIs
  <1> HIDE DEF files
  <1>3. \A u \in strays : Like(u)
    <2> SUFFICES ASSUME NEW v \in files, NEW p \in Paths \ DOMAIN tree
                 PROVE  Like(Put(v, p, AnyContent))
      OBVIOUS
    <2>1. Like(v)  BY <1>2
    <2>2. /\ Put(v, p, AnyContent) \in Trees
          /\ DOMAIN Put(v, p, AnyContent) = DOMAIN v \cup {p}
          /\ \A q \in DOMAIN v \ {p} : Put(v, p, AnyContent)[q] = v[q]
      BY <1>1, <2>1, PutIs
    <2> HIDE DEF strays
    <2> QED  BY <2>1, <2>2
  <1>0. t \in {Put(u, Cache, AnyContent) : u \in files \cup strays}
    BY DEF Landings, files, strays
  <1> HIDE DEF strays
  <1>4. PICK u \in files \cup strays : t = Put(u, Cache, AnyContent)  BY <1>0
  <1>5. Like(u)  BY <1>2, <1>3
  <1>6. /\ t \in Trees /\ DOMAIN t = DOMAIN u \cup {Cache}
        /\ \A q \in DOMAIN u \ {Cache} : t[q] = u[q]
    BY <1>1, <1>4, <1>5, PutIs
  <1> QED  BY <1>5, <1>6

-----------------------------------------------------------------------------
(* what a fetch knows: of its job s, its area a and its request r *)

JobOK(s, a, r) ==
    /\ s.at \in {"idle", "locate", "download"} => DOMAIN a = {}
    /\ s.at \in {"locate", "measure", "copy"} /\ r.scheme = "local" => s.sha = NoTree
    /\ s.at = "locate" => s.staged = {} /\ s.sha = NoTree
    /\ s.at \in {"measure", "copy"} => r.scheme = "local" /\ s.staged = DOMAIN a
    /\ s.at = "copy" => s.now \in Paths
    /\ s.at \in {"download", "check"} => s.sha \in DOMAIN Commits
    /\ s.at = "check" =>
          \A p \in DOMAIN Commits[s.sha] \cap DOMAIN a : a[p] = Commits[s.sha][p]
    /\ s.at \in {"hash", "fetched"} =>
          /\ s.staged = DOMAIN a \ {Cache}
          /\ s.sha # NoTree =>
                /\ DOMAIN Commits[s.sha] \subseteq s.staged
                /\ \A p \in DOMAIN Commits[s.sha] : a[p] = Commits[s.sha][p]
    /\ s.at = "fetched" => s.digest = Part(a, s.staged) /\ r.pin \in {NoTree, s.digest}

(* What is measured and not yet copied is no link, and no edit makes it one. *)
NowOK(s) == s.at = "copy" => (s.now \in DOMAIN source => source[s.now] # Link)

LEMMA SourceIs ==
    ASSUME NEW t \in LocalTrees
    PROVE  /\ DOMAIN t \subseteq Paths
           /\ \A p \in DOMAIN t : t[p] # Link => t[p] \in Contents
  <1>1. PICK F \in SUBSET Paths : t \in [F -> Contents \cup {Link}]  BY DEF LocalTrees
  <1> QED  BY <1>1

(* What one step of a fetch does to the rest. *)
Stepped(i, s, a) ==
    /\ s \in Jobs /\ a \in Trees
    /\ job' = [job EXCEPT ![i] = s] /\ area' = [area EXCEPT ![i] = a]
    /\ UNCHANGED World
    /\ JobOK(s, a, request[i]) /\ NowOK(s)

LEMMA RaiseIs ==
    ASSUME FTypeOK, NEW i \in Invocations, NEW e \in Errors, Raise(i, e),
           UNCHANGED <<World, area>>
    PROVE  Stepped(i, job'[i], area'[i])
  <1>1. job[i] \in Jobs /\ area[i] \in Trees  BY DEF FTypeOK, Dir
  <1>2. job' = [job EXCEPT ![i] = [job[i] EXCEPT !.at = "raised", !.error = e]]
    BY DEF FTypeOK, Raise
  <1>3. /\ job'[i] = [job[i] EXCEPT !.at = "raised", !.error = e]
        /\ job' = [job EXCEPT ![i] = job'[i]]
    BY <1>2 DEF FTypeOK
  <1>4. job'[i] \in Jobs /\ job'[i].at = "raised"  BY <1>1, <1>3 DEF Jobs, Stages
  <1>5. area' = [area EXCEPT ![i] = area'[i]] /\ area'[i] \in Trees
    BY <1>1 DEF FTypeOK, Dir
  <1>6. JobOK(job'[i], area'[i], request[i]) /\ NowOK(job'[i])  BY <1>4 DEF JobOK, NowOK
  <1> QED  BY <1>3, <1>4, <1>5, <1>6 DEF Stepped

LEMMA LocateLocalOK ==
    ASSUME FTypeOK, NEW i \in Invocations, JobOK(job[i], area[i], request[i]), LocateLocal(i)
    PROVE  Stepped(i, job'[i], area'[i])
  <1>0. job[i].at = "locate" /\ request[i].scheme = "local" /\ UNCHANGED <<World, area>>
    BY DEF LocateLocal, Reading
  <1>1. CASE \E e \in Errors : Raise(i, e)  BY <1>0, <1>1, RaiseIs
  <1>2. CASE job' = [job EXCEPT ![i].at = "measure", ![i].todo = DOMAIN source]
    <2>1. job[i] \in Jobs /\ area[i] \in Trees  BY DEF FTypeOK, Dir
    <2>2. DOMAIN source \subseteq Paths  BY SourceIs DEF FTypeOK
    <2>3. /\ job'[i] = [job[i] EXCEPT !.at = "measure", !.todo = DOMAIN source]
          /\ job' = [job EXCEPT ![i] = job'[i]]
      BY <1>2 DEF FTypeOK
    <2>4. job'[i] \in Jobs  BY <2>1, <2>2, <2>3 DEF Jobs, Stages
    <2>5. area' = [area EXCEPT ![i] = area'[i]] /\ area'[i] = area[i]
      BY <1>0 DEF FTypeOK, Dir
    <2>6. job'[i].at = "measure" /\ job'[i].staged = job[i].staged /\ job'[i].sha = job[i].sha
      BY <2>1, <2>3 DEF Jobs
    <2>7. JobOK(job'[i], area'[i], request[i]) /\ NowOK(job'[i])
      BY <1>0, <2>5, <2>6 DEF JobOK, NowOK
    <2> QED  BY <1>0, <2>1, <2>3, <2>4, <2>5, <2>7 DEF Stepped
  <1> QED  BY <1>1, <1>2 DEF LocateLocal, MayFail, Errors

LEMMA MeasureOK ==
    ASSUME FTypeOK, NEW i \in Invocations, JobOK(job[i], area[i], request[i]), Measure(i)
    PROVE  Stepped(i, job'[i], area'[i])
  <1>0. job[i].at = "measure" /\ request[i].scheme = "local" /\ UNCHANGED <<World, area>>
    BY DEF Measure, Reading
  <1>1. CASE \E e \in Errors : Raise(i, e)  BY <1>0, <1>1, RaiseIs
  <1>2. ASSUME NEW p \in job[i].todo, ~ IsLink(p), p \in DOMAIN source,
               job' = [job EXCEPT ![i].at = "copy", ![i].now = p,
                                  ![i].size = Size[source[p]],
                                  ![i].todo = @ \ {p},
                                  ![i].total = @ + Size[source[p]]]
        PROVE  Stepped(i, job'[i], area'[i])
    <2>1. job[i] \in Jobs /\ area[i] \in Trees  BY DEF FTypeOK, Dir
    <2>2. p \in Paths /\ source[p] # Link /\ source[p] \in Contents
      BY <1>2, <2>1, SourceIs DEF FTypeOK, IsLink, Jobs
    <2>3. /\ job'[i] = [job[i] EXCEPT !.at = "copy", !.now = p, !.size = Size[source[p]],
                                      !.todo = @ \ {p}, !.total = @ + Size[source[p]]]
          /\ job' = [job EXCEPT ![i] = job'[i]]
      BY <1>2 DEF FTypeOK
    <2>4. Size[source[p]] \in Nat  BY <2>2, LimitsAssumption
    <2>a. job[i].todo \ {p} \in SUBSET Paths /\ job[i].total + Size[source[p]] \in Nat
      BY <2>1, <2>4 DEF Jobs
    <2>5. job'[i] \in Jobs  BY <2>1, <2>2, <2>3, <2>4, <2>a DEF Jobs, Stages
    <2>6. area' = [area EXCEPT ![i] = area'[i]] /\ area'[i] = area[i]
      BY <1>0 DEF FTypeOK, Dir
    <2>7. /\ job'[i].at = "copy" /\ job'[i].now = p
          /\ job'[i].staged = job[i].staged /\ job'[i].sha = job[i].sha
      BY <2>1, <2>3 DEF Jobs
    <2>8. JobOK(job'[i], area'[i], request[i]) /\ NowOK(job'[i])
      BY <1>0, <2>2, <2>6, <2>7 DEF JobOK, NowOK
    <2> QED  BY <1>0, <2>1, <2>3, <2>5, <2>6, <2>8 DEF Stepped
  <1>3. PICK p \in job[i].todo :
          CASE IsLink(p) \/ Cardinality(job[i].staged) + 1 > MaxFiles ->
                    Raise(i, "QuarantineError")
            [] p \notin DOMAIN source -> Raise(i, "OSError")
            [] TooMuch(i, p)          -> Raise(i, "QuarantineError")
            [] OTHER -> job' = [job EXCEPT ![i].at = "copy", ![i].now = p,
                                           ![i].size = Size[source[p]],
                                           ![i].todo = @ \ {p},
                                           ![i].total = @ + Size[source[p]]]
    BY DEF Measure
  <1>4. CASE ~ IsLink(p) /\ ~ (Cardinality(job[i].staged) + 1 > MaxFiles)
             /\ p \in DOMAIN source /\ ~ TooMuch(i, p)
    BY <1>2, <1>3, <1>4
  <1>5. CASE ~ (~ IsLink(p) /\ ~ (Cardinality(job[i].staged) + 1 > MaxFiles)
             /\ p \in DOMAIN source /\ ~ TooMuch(i, p))
    <2>1. Raise(i, "QuarantineError") \/ Raise(i, "OSError")  BY <1>3, <1>5
    <2> QED  BY <1>1, <2>1 DEF Errors
  <1> QED  BY <1>4, <1>5

LEMMA CopyFileOK ==
    ASSUME FTypeOK, NEW i \in Invocations, JobOK(job[i], area[i], request[i]), NowOK(job[i]),
           CopyFile(i)
    PROVE  Stepped(i, job'[i], area'[i])
  <1>0. job[i].at = "copy" /\ request[i].scheme = "local" /\ UNCHANGED World
    BY DEF CopyFile, Reading
  <1> DEFINE p == job[i].now
  <1>1. CASE Raise(i, "OSError") /\ UNCHANGED area
    BY <1>0, <1>1, RaiseIs DEF Errors
  <1>2. ASSUME NEW at \in {"hash", "measure"}, p \in DOMAIN source,
               area' = [area EXCEPT ![i] = Put(@, p, source[p])],
               job' = [job EXCEPT ![i].at = at, ![i].now = NoTree, ![i].size = 0,
                                  ![i].staged = @ \cup {p},
                                  ![i].changed = @ \/ Size[source[p]] > job[i].size]
        PROVE  Stepped(i, job'[i], area'[i])
    <2>1. job[i] \in Jobs /\ area[i] \in Trees  BY DEF FTypeOK, Dir
    <2>2. p \in Paths /\ source[p] # Link /\ source[p] \in Contents
      BY <1>0, <1>2, SourceIs DEF JobOK, NowOK, FTypeOK
    <2>4. PICK staged \in SUBSET Paths : staged = job[i].staged \cup {p}
      BY <2>1, <2>2 DEF Jobs
    <2>a. PICK changed \in BOOLEAN :
             changed = (job[i].changed \/ Size[source[p]] > job[i].size)
      OBVIOUS
    <2>3. /\ job'[i] = [job[i] EXCEPT !.at = at, !.now = NoTree, !.size = 0,
                                      !.staged = staged, !.changed = changed]
          /\ job' = [job EXCEPT ![i] = job'[i]]
      BY <1>2, <2>4, <2>a DEF FTypeOK
    <2>c. /\ {"hash", "measure"} \subseteq Stages /\ NoTree \in Paths \cup {NoTree} /\ 0 \in Nat
      BY DEF Stages
    <2>d. [job[i] EXCEPT !.at = at, !.now = NoTree, !.size = 0, !.staged = staged] \in Jobs
      BY <2>1, <2>c DEF Jobs
    <2>5. job'[i] \in Jobs
      <3>1. job'[i] = [[job[i] EXCEPT !.at = at, !.now = NoTree, !.size = 0, !.staged = staged]
                          EXCEPT !.changed = changed]
        BY <2>1, <2>3 DEF Jobs
      <3> QED  BY <2>d, <3>1 DEF Jobs
    <2>6. /\ area'[i] = Put(area[i], p, source[p])
          /\ area' = [area EXCEPT ![i] = area'[i]]
      BY <1>2 DEF FTypeOK, Dir
    <2>b. /\ Put(area[i], p, source[p]) \in Trees
          /\ DOMAIN Put(area[i], p, source[p]) = DOMAIN area[i] \cup {p}
      BY <2>1, <2>2, PutIs
    <2>7. area'[i] \in Trees /\ DOMAIN area'[i] = DOMAIN area[i] \cup {p}
      BY <2>6, <2>b
    <2>8. /\ job'[i].at = at /\ job'[i].staged = job[i].staged \cup {p}
          /\ job'[i].sha = job[i].sha
      BY <2>1, <2>3, <2>4 DEF Jobs
    <2>9. Cache \notin DOMAIN area'[i]  BY <1>0, <2>1, <2>4, <2>7, TreesAssumption DEF JobOK
    <2>10. job[i].sha = NoTree /\ job[i].staged = DOMAIN area[i]  BY <1>0 DEF JobOK
    <2> HIDE DEF p
    <2>11. JobOK(job'[i], area'[i], request[i]) /\ NowOK(job'[i])
      BY <1>0, <2>7, <2>8, <2>9, <2>10 DEF JobOK, NowOK
    <2> QED  BY <1>0, <2>3, <2>5, <2>6, <2>7, <2>11 DEF Stepped
  <1>3. CASE job[i].todo = {}  BY <1>1, <1>2, <1>3 DEF CopyFile, Dir
  <1>4. CASE job[i].todo # {}  BY <1>1, <1>2, <1>4 DEF CopyFile, Dir
  <1> QED  BY <1>3, <1>4

LEMMA ResolveOK ==
    ASSUME FTypeOK, NEW i \in Invocations, JobOK(job[i], area[i], request[i]), Resolve(i)
    PROVE  Stepped(i, job'[i], area'[i])
  <1>0. job[i].at = "locate" /\ request[i].scheme = "huggingface" /\ UNCHANGED <<World, area>>
    BY DEF Resolve, Reading
  <1>1. CASE \E e \in Errors : Raise(i, e)  BY <1>0, <1>1, RaiseIs
  <1>2. CASE job' = [job EXCEPT ![i].at = "download", ![i].sha = head]
    <2>1. job[i] \in Jobs /\ area[i] \in Trees /\ head \in DOMAIN Commits
      BY DEF FTypeOK, Dir
    <2>3. /\ job'[i] = [job[i] EXCEPT !.at = "download", !.sha = head]
          /\ job' = [job EXCEPT ![i] = job'[i]]
      BY <1>2 DEF FTypeOK
    <2>4. job'[i] \in Jobs  BY <2>1, <2>3 DEF Jobs, Stages
    <2>5. area' = [area EXCEPT ![i] = area'[i]] /\ area'[i] = area[i]
      BY <1>0 DEF FTypeOK, Dir
    <2>6. job'[i].at = "download" /\ job'[i].sha \in DOMAIN Commits
      BY <2>1, <2>3 DEF Jobs
    <2>7. JobOK(job'[i], area'[i], request[i]) /\ NowOK(job'[i])
      BY <1>0, <2>5, <2>6 DEF JobOK, NowOK
    <2> QED  BY <1>0, <2>1, <2>3, <2>4, <2>5, <2>7 DEF Stepped
  <1> QED  BY <1>1, <1>2 DEF Resolve, MayFail, Errors

LEMMA DownloadOK ==
    ASSUME FTypeOK, NEW i \in Invocations, JobOK(job[i], area[i], request[i]), Download(i)
    PROVE  Stepped(i, job'[i], area'[i])
  <1>0. job[i].at = "download" /\ request[i].scheme = "huggingface" /\ UNCHANGED World
    BY DEF Download, Reading
  <1>1. CASE Raise(i, "OSError") /\ UNCHANGED area
    BY <1>0, <1>1, RaiseIs DEF Errors
  <1>2. ASSUME NEW t \in Landings(Commits[job[i].sha]),
               area' = [area EXCEPT ![i] = Over(t, @)],
               job' = [job EXCEPT ![i].at = "check"]
        PROVE  Stepped(i, job'[i], area'[i])
    <2>1. job[i] \in Jobs /\ area[i] \in Trees  BY DEF FTypeOK, Dir
    <2>2. job[i].sha \in DOMAIN Commits /\ DOMAIN area[i] = {}  BY <1>0 DEF JobOK
    <2>3. /\ job'[i] = [job[i] EXCEPT !.at = "check"]
          /\ job' = [job EXCEPT ![i] = job'[i]]
      BY <1>2 DEF FTypeOK
    <2>4. job'[i] \in Jobs  BY <2>1, <2>3 DEF Jobs, Stages
    <2>5. job'[i].at = "check" /\ job'[i].sha = job[i].sha  BY <2>1, <2>3 DEF Jobs
    <2>6. /\ area'[i] = Over(t, area[i])
          /\ area' = [area EXCEPT ![i] = area'[i]]
      BY <1>2 DEF FTypeOK, Dir
    <2>7. /\ Commits[job[i].sha] \in Trees /\ DOMAIN Commits[job[i].sha] \subseteq Paths
          /\ t \in Trees
          /\ \A q \in (DOMAIN Commits[job[i].sha] \cap DOMAIN t) \ {Cache} :
                t[q] = Commits[job[i].sha][q]
      BY <2>2, CommitIs, LandingIs
    <2>a. /\ Over(t, area[i]) \in Trees
          /\ DOMAIN Over(t, area[i]) = DOMAIN t \cup DOMAIN area[i]
          /\ \A q \in DOMAIN t : Over(t, area[i])[q] = t[q]
      BY <2>1, <2>7, OverIs
    <2>8. /\ area'[i] \in Trees /\ DOMAIN area'[i] = DOMAIN t
          /\ \A q \in DOMAIN t : area'[i][q] = t[q]
      BY <2>2, <2>6, <2>a
    <2>9. \A q \in DOMAIN Commits[job'[i].sha] \cap DOMAIN area'[i] :
             area'[i][q] = Commits[job'[i].sha][q]
      BY <2>5, <2>7, <2>8, TreesAssumption
    <2>10. JobOK(job'[i], area'[i], request[i]) /\ NowOK(job'[i])
      BY <1>0, <2>2, <2>5, <2>9 DEF JobOK, NowOK
    <2> QED  BY <1>0, <2>3, <2>4, <2>6, <2>8, <2>10 DEF Stepped
  <1> QED  BY <1>1, <1>2 DEF Download, MayFail, Dir

LEMMA CheckStagedOK ==
    ASSUME FTypeOK, NEW i \in Invocations, JobOK(job[i], area[i], request[i]), CheckStaged(i)
    PROVE  Stepped(i, job'[i], area'[i])
  <1>0. job[i].at = "check" /\ request[i].scheme = "huggingface" /\ UNCHANGED <<World, area>>
    BY DEF CheckStaged, Reading
  <1> DEFINE files == ListStaged(i)
  <1>1. CASE Raise(i, "SourceError") \/ Raise(i, "QuarantineError")
    BY <1>0, <1>1, RaiseIs DEF Errors
  <1>2. ASSUME DOMAIN Commits[job[i].sha] \subseteq files,
               job' = [job EXCEPT ![i].at = "hash", ![i].staged = files]
        PROVE  Stepped(i, job'[i], area'[i])
    <2>1. job[i] \in Jobs /\ area[i] \in Trees  BY DEF FTypeOK, Dir
    <2>2. files = DOMAIN area[i] \ {Cache}  BY DEF ListStaged, Dir
    <2>3. files \in SUBSET Paths  BY <2>1, <2>2, TreeIs
    <2> HIDE DEF files
    <2>4. /\ job'[i] = [job[i] EXCEPT !.at = "hash", !.staged = files]
          /\ job' = [job EXCEPT ![i] = job'[i]]
      BY <1>2 DEF FTypeOK
    <2>5. job'[i] \in Jobs  BY <2>1, <2>3, <2>4 DEF Jobs, Stages
    <2>6. area' = [area EXCEPT ![i] = area'[i]] /\ area'[i] = area[i]
      BY <1>0 DEF FTypeOK, Dir
    <2>7. job'[i].at = "hash" /\ job'[i].staged = files /\ job'[i].sha = job[i].sha
      BY <2>1, <2>4 DEF Jobs
    <2>8. \A p \in DOMAIN Commits[job[i].sha] \cap DOMAIN area[i] :
             area[i][p] = Commits[job[i].sha][p]
      BY <1>0 DEF JobOK
    <2>9. JobOK(job'[i], area'[i], request[i]) /\ NowOK(job'[i])
      BY <1>2, <2>2, <2>6, <2>7, <2>8 DEF JobOK, NowOK
    <2> QED  BY <1>0, <2>1, <2>4, <2>5, <2>6, <2>9 DEF Stepped
  <1> QED  BY <1>1, <1>2 DEF CheckStaged

LEMMA HashAndPinOK ==
    ASSUME FTypeOK, NEW i \in Invocations, JobOK(job[i], area[i], request[i]), HashAndPin(i)
    PROVE  Stepped(i, job'[i], area'[i])
  <1>0. job[i].at = "hash" /\ UNCHANGED <<World, area>>  BY DEF HashAndPin
  <1> DEFINE tree == Part(area[i], job[i].staged)
  <1>1. CASE Raise(i, "SourceError") \/ Raise(i, "OSError")
    BY <1>0, <1>1, RaiseIs DEF Errors
  <1>2. ASSUME request[i].pin \in {NoTree, tree},
               job' = [job EXCEPT ![i].at = "fetched", ![i].digest = tree]
        PROVE  Stepped(i, job'[i], area'[i])
    <2>1. job[i] \in Jobs /\ area[i] \in Trees  BY DEF FTypeOK, Dir
    <2>2. job[i].staged = DOMAIN area[i] \ {Cache}  BY <1>0 DEF JobOK
    <2>3. tree \in Trees  BY <2>1, <2>2, PartIs
    <2> HIDE DEF tree
    <2>4. /\ job'[i] = [job[i] EXCEPT !.at = "fetched", !.digest = tree]
          /\ job' = [job EXCEPT ![i] = job'[i]]
      BY <1>2 DEF FTypeOK
    <2>5. job'[i] \in Jobs  BY <2>1, <2>3, <2>4 DEF Jobs, Stages
    <2>6. area' = [area EXCEPT ![i] = area'[i]] /\ area'[i] = area[i]
      BY <1>0 DEF FTypeOK, Dir
    <2>7. /\ job'[i].at = "fetched" /\ job'[i].staged = job[i].staged
          /\ job'[i].sha = job[i].sha /\ job'[i].digest = tree
      BY <2>1, <2>4 DEF Jobs
    <2>8. tree = Part(area'[i], job'[i].staged)  BY <2>6, <2>7 DEF tree
    <2>9. JobOK(job'[i], area'[i], request[i]) /\ NowOK(job'[i])
      BY <1>0, <1>2, <2>6, <2>7, <2>8 DEF JobOK, NowOK
    <2> QED  BY <1>0, <2>1, <2>4, <2>5, <2>6, <2>9 DEF Stepped
  <1> QED  BY <1>1, <1>2 DEF HashAndPin, MayFail, Dir

LEMMA FetchStepOK ==
    ASSUME FTypeOK, NEW i \in Invocations, JobOK(job[i], area[i], request[i]), NowOK(job[i]),
           FetchStep(i)
    PROVE  Stepped(i, job'[i], area'[i])
  BY LocateLocalOK, MeasureOK, CopyFileOK, ResolveOK, DownloadOK, CheckStagedOK, HashAndPinOK
  DEF FetchStep

-----------------------------------------------------------------------------
(* what a command knows: of its phase ph, its code c, what it decided d and saw
   sn, its envelope e, the files o it has still to write, its job s and its
   request r *)

CommandOK(ph, c, d, sn, e, o, s, r) ==
    /\ ph \in {"read", "args", "workspace"} => s = NewJob
    /\ ph \notin {"cleanup", "print", "ended"} => c = Running
    /\ ph \in {"scan", "sign", "verify"} \/ (ph = "print" /\ r.cmd # "verify") =>
          s.at = "fetched"
    /\ ph = "scan" => r.cmd \notin {"manifest", "verify"}
    /\ ph \in {"sign", "open", "write"} => r.cmd \in Signing
    /\ ph = "verify" => r.cmd = "verify"
    /\ ph = "print" => r.cmd \notin Signing
    /\ ph = "sign" \/ (ph = "print" /\ r.cmd \in {"scan", "policy"}) =>
          sn = s.digest /\ d \in Decisions
    /\ r.cmd \in Signing /\ ph \in {"cleanup", "open", "write"} /\ c = Running =>
          /\ s.digest \in Trees /\ r.pin \in {NoTree, s.digest}
          /\ sn = s.digest /\ d \in Decisions
    /\ ph = "write" => o # <<>>
    /\ r.cmd = "verify" /\ ph \in {"args", "workspace", "fetch", "verify"} => e \in Envelopes
    /\ c = 0 =>
          /\ s.digest # NoTree /\ r.pin \in {NoTree, s.digest}
          /\ r.cmd \notin {"manifest", "verify"} => sn = s.digest
          /\ (r.cmd \in {"scan", "ingest"} /\ r.failOn # "none") =>
                DecisionRank[d] < DecisionRank[r.failOn]

Command(i) == CommandOK(phase[i], code[i], decided[i], seen[i], env[i], out[i], job[i], request[i])

(* Every file asked for was written, or still will be. *)
WritesOK(i) ==
    \A n \in Range(request[i].writes) :
        <<i, n>> \in wrote \/ (n \in Range(out[i]) /\ code[i] # 0)

IInv ==
    /\ CliTypeOK
    /\ \A i \in Invocations :
          JobOK(job[i], area[i], request[i]) /\ NowOK(job[i]) /\ Command(i) /\ WritesOK(i)

LEMMA RequestIs ==
    ASSUME FTypeOK, NEW i \in Invocations
    PROVE  request[i] \in Requests /\ (request[i].writes # <<>> => request[i].cmd \in Signing)
  BY CliAssumption DEF FTypeOK

LEMMA NewJobIs == NewJob \in Jobs /\ NewJob.at = "idle" /\ NewJob.digest = NoTree
                  /\ NewJob.staged = {} /\ NewJob.sha = NoTree
  BY DEF NewJob, Jobs, Stages, Errors

LEMMA ExitIs ==
    ASSUME NEW d \in Decisions, NEW f \in Decisions \cup {"none"}
    PROVE  /\ ExitCode(d, f) \in {0, 1}
           /\ ExitCode(d, f) = 0 /\ f # "none" => DecisionRank[d] < DecisionRank[f]
  BY DEF ExitCode, DecisionRank, Decisions

(* One step of command i: what it leaves alone, and that it knows what it must. *)
Moved(i) ==
    /\ phase'   = [phase EXCEPT ![i] = phase'[i]]     /\ phase'[i] \in Phases
    /\ code'    = [code EXCEPT ![i] = code'[i]]       /\ code'[i] \in Running .. 3
    /\ decided' = [decided EXCEPT ![i] = decided'[i]] /\ decided'[i] \in Decisions \cup {"none"}
    /\ seen'    = [seen EXCEPT ![i] = seen'[i]]       /\ seen'[i] \in Trees \cup {NoTree}
    /\ env'     = [env EXCEPT ![i] = env'[i]]         /\ env'[i] \in Envelopes \cup {Missing}
    /\ out'     = [out EXCEPT ![i] = out'[i]]         /\ out'[i] \in Seq(Files)
    /\ job'     = [job EXCEPT ![i] = job'[i]]         /\ job'[i] \in Jobs
    /\ area'    = [area EXCEPT ![i] = area'[i]]       /\ area'[i] \in Trees
    /\ UNCHANGED World
    /\ file' \in [Files -> Envelopes \cup {Missing, Empty, Garbled}]
    /\ wrote \subseteq wrote' /\ wrote' \in SUBSET (Invocations \X Files)
    /\ JobOK(job'[i], area'[i], request[i]) /\ NowOK(job'[i])
    /\ Command(i)' /\ WritesOK(i)'

LEMMA MovedOK ==
    ASSUME IInv, NEW i \in Invocations, Moved(i)
    PROVE  IInv'
  <1>1. FTypeOK'  BY DEF IInv, CliTypeOK, FTypeOK, Moved, World, Dir
  <1>2. CliTypeOK'
    <2>1. phase' \in [Invocations -> Phases] /\ code' \in [Invocations -> Running .. 3]
      BY DEF IInv, CliTypeOK, Moved
    <2>2. /\ decided' \in [Invocations -> Decisions \cup {"none"}]
          /\ seen' \in [Invocations -> Trees \cup {NoTree}]
      BY DEF IInv, CliTypeOK, Moved
    <2>3. /\ env' \in [Invocations -> Envelopes \cup {Missing}]
          /\ out' \in [Invocations -> Seq(Files)]
      BY DEF IInv, CliTypeOK, Moved
    <2> QED  BY <1>1, <2>1, <2>2, <2>3 DEF CliTypeOK, Moved
  <1>3. ASSUME NEW j \in Invocations
        PROVE  /\ JobOK(job[j], area[j], request[j])' /\ NowOK(job[j])'
               /\ Command(j)' /\ WritesOK(j)'
    <2>1. CASE j = i  BY <2>1 DEF Moved, World, NowOK
    <2>2. CASE j # i
      <3>1. /\ job'[j] = job[j] /\ area'[j] = area[j] /\ UNCHANGED <<request, source>>
            /\ phase'[j] = phase[j] /\ code'[j] = code[j] /\ decided'[j] = decided[j]
            /\ seen'[j] = seen[j] /\ env'[j] = env[j] /\ out'[j] = out[j]
            /\ wrote \subseteq wrote'
        BY <2>2 DEF IInv, CliTypeOK, FTypeOK, Moved, World, Dir
      <3>2. JobOK(job[j], area[j], request[j])' /\ Command(j)'  BY <3>1 DEF IInv, Command
      <3>3. NowOK(job[j])' /\ WritesOK(j)'  BY <3>1 DEF IInv, NowOK, WritesOK
      <3> QED  BY <3>2, <3>3
    <2> QED  BY <2>1, <2>2
  <1> QED  BY <1>2, <1>3 DEF IInv

LEMMA KeptIs ==
    ASSUME IInv, NEW i \in Invocations
    PROVE  /\ phase   = [phase EXCEPT ![i] = phase[i]]     /\ phase[i] \in Phases
           /\ code    = [code EXCEPT ![i] = code[i]]       /\ code[i] \in Running .. 3
           /\ decided = [decided EXCEPT ![i] = decided[i]] /\ decided[i] \in Decisions \cup {"none"}
           /\ seen    = [seen EXCEPT ![i] = seen[i]]       /\ seen[i] \in Trees \cup {NoTree}
           /\ env     = [env EXCEPT ![i] = env[i]]         /\ env[i] \in Envelopes \cup {Missing}
           /\ out     = [out EXCEPT ![i] = out[i]]         /\ out[i] \in Seq(Files)
           /\ job     = [job EXCEPT ![i] = job[i]]         /\ job[i] \in Jobs
           /\ area    = [area EXCEPT ![i] = area[i]]       /\ area[i] \in Trees
           /\ JobOK(job[i], area[i], request[i]) /\ NowOK(job[i])
           /\ Command(i) /\ WritesOK(i)
  <1>1. /\ phase   = [phase EXCEPT ![i] = phase[i]]     /\ phase[i] \in Phases
        /\ code    = [code EXCEPT ![i] = code[i]]       /\ code[i] \in Running .. 3
        /\ decided = [decided EXCEPT ![i] = decided[i]] /\ decided[i] \in Decisions \cup {"none"}
    BY DEF IInv, CliTypeOK
  <1>2. /\ seen    = [seen EXCEPT ![i] = seen[i]]       /\ seen[i] \in Trees \cup {NoTree}
        /\ env     = [env EXCEPT ![i] = env[i]]         /\ env[i] \in Envelopes \cup {Missing}
        /\ out     = [out EXCEPT ![i] = out[i]]         /\ out[i] \in Seq(Files)
    BY DEF IInv, CliTypeOK
  <1>3. /\ job     = [job EXCEPT ![i] = job[i]]         /\ job[i] \in Jobs
        /\ area    = [area EXCEPT ![i] = area[i]]       /\ area[i] \in Trees
    BY DEF IInv, CliTypeOK, FTypeOK, Dir
  <1> QED  BY <1>1, <1>2, <1>3 DEF IInv

Turned(i, ph, c, d, sn, e) ==
    /\ phase'   = [phase EXCEPT ![i] = ph]
    /\ code'    = [code EXCEPT ![i] = c]
    /\ decided' = [decided EXCEPT ![i] = d]
    /\ seen'    = [seen EXCEPT ![i] = sn]
    /\ env'     = [env EXCEPT ![i] = e]

(* A step that touches neither the fetch nor a file. *)
LEMMA PlainOK ==
    ASSUME IInv, NEW i \in Invocations, UNCHANGED <<fvars, out, file, wrote>>,
           NEW ph \in Phases, NEW c \in Running .. 3, NEW d \in Decisions \cup {"none"},
           NEW sn \in Trees \cup {NoTree}, NEW e \in Envelopes \cup {Missing},
           Turned(i, ph, c, d, sn, e),
           c = 0 => request[i].writes = <<>>,
           CommandOK(ph, c, d, sn, e, out[i], job[i], request[i])
    PROVE  Moved(i)
  <1>1. /\ phase'[i] = ph /\ code'[i] = c /\ decided'[i] = d /\ seen'[i] = sn /\ env'[i] = e
        /\ out'[i] = out[i] /\ job'[i] = job[i] /\ area'[i] = area[i]
    BY DEF IInv, CliTypeOK, fvars, Turned
  <1>2. UNCHANGED <<World, source, request, job, area>>  BY DEF fvars, World
  <1>3. Command(i)'  BY <1>1, <1>2 DEF Command
  <1>4. WritesOK(i)'
    <2>1. Range(<<>>) = {}  BY DEF Range
    <2>2. WritesOK(i)  BY KeptIs
    <2>3. CASE c = 0  BY <1>2, <2>1, <2>3 DEF WritesOK
    <2>4. CASE c # 0  BY <1>1, <1>2, <2>2, <2>4 DEF WritesOK
    <2> QED  BY <2>3, <2>4
  <1>5. JobOK(job'[i], area'[i], request[i]) /\ NowOK(job'[i])  BY <1>1, KeptIs
  <1>6. file' \in [Files -> Envelopes \cup {Missing, Empty, Garbled}]
        /\ wrote' \in SUBSET (Invocations \X Files) /\ wrote' = wrote
    BY DEF IInv, CliTypeOK
  <1> QED  BY <1>1, <1>2, <1>3, <1>4, <1>5, <1>6, KeptIs DEF Moved, Turned

LEMMA ReadAttestationOK ==
    ASSUME IInv, NEW i \in Invocations, ReadAttestation(i)
    PROVE  Moved(i)
  <1>1. UNCHANGED <<fvars, decided, seen, out, file, wrote>> /\ phase[i] = "read"
    BY DEF ReadAttestation, Go, Leave
  <1>2. job[i] = NewJob /\ code[i] = Running  BY <1>1, KeptIs DEF Command, CommandOK
  <1>3. CASE phase' = [phase EXCEPT ![i] = "ended"] /\ code' = [code EXCEPT ![i] = 2]
             /\ UNCHANGED env
    <2>1. CommandOK("ended", 2, decided[i], seen[i], env[i], out[i], job[i], request[i])
      BY DEF CommandOK, Running
    <2>2. Turned(i, "ended", 2, decided[i], seen[i], env[i])
      BY <1>1, <1>3, KeptIs DEF Turned, Kept
    <2>3. "ended" \in Phases /\ 2 \in Running .. 3 /\ 2 # 0
      BY <1>1, <1>3, KeptIs DEF Phases, Running
    <2> QED  BY <1>1, <1>3, <2>1, <2>2, <2>3, KeptIs, PlainOK DEF Kept
  <1>4. ASSUME NEW e \in Envelopes, phase' = [phase EXCEPT ![i] = "args"],
               env' = [env EXCEPT ![i] = e], UNCHANGED code
        PROVE  Moved(i)
    <2>1. CommandOK("args", code[i], decided[i], seen[i], e, out[i], job[i], request[i])
      BY <1>2 DEF CommandOK, Running
    <2>2. Turned(i, "args", code[i], decided[i], seen[i], e)
      BY <1>1, <1>2, <1>4, KeptIs DEF Turned, Kept
    <2>3. "args" \in Phases /\ code[i] \in Running .. 3 /\ code[i] # 0
      BY <1>1, <1>2, <1>4, KeptIs DEF Phases, Running
    <2> QED  BY <1>1, <1>2, <1>4, <2>1, <2>2, <2>3, KeptIs, PlainOK DEF Kept
  <1>5. request[i].reads \in Files  BY RequestIs DEF Requests, IInv, CliTypeOK
  <1>6. file[request[i].reads] \notin {Missing, Empty, Garbled} =>
          file[request[i].reads] \in Envelopes
    BY <1>5 DEF IInv, CliTypeOK
  <1> QED  BY <1>3, <1>4, <1>6 DEF ReadAttestation, Go, Leave, Code

LEMMA ArgumentsOK ==
    ASSUME IInv, NEW i \in Invocations, Arguments(i)
    PROVE  Moved(i)
  <1>1. UNCHANGED Kept /\ phase[i] = "args"  BY DEF Arguments, Go, Leave
  <1>2. Command(i) /\ code[i] = Running  BY <1>1, KeptIs DEF Command, CommandOK
  <1>3. CASE phase' = [phase EXCEPT ![i] = "workspace"] /\ UNCHANGED code
    <2>1. CommandOK("workspace", code[i], decided[i], seen[i], env[i], out[i], job[i], request[i])
      BY <1>1, <1>2 DEF CommandOK, Command, Running
    <2>2. Turned(i, "workspace", code[i], decided[i], seen[i], env[i])
      BY <1>1, <1>2, <1>3, KeptIs DEF Turned, Kept
    <2>3. "workspace" \in Phases /\ code[i] \in Running .. 3 /\ code[i] # 0
      BY <1>1, <1>2, <1>3, KeptIs DEF Phases, Running
    <2> QED  BY <1>1, <1>2, <1>3, <2>1, <2>2, <2>3, KeptIs, PlainOK DEF Kept
  <1>4. CASE phase' = [phase EXCEPT ![i] = "ended"] /\ code' = [code EXCEPT ![i] = 2]
    <2>1. CommandOK("ended", 2, decided[i], seen[i], env[i], out[i], job[i], request[i])
      BY DEF CommandOK, Running
    <2>2. Turned(i, "ended", 2, decided[i], seen[i], env[i])
      BY <1>1, <1>4, KeptIs DEF Turned, Kept
    <2>3. "ended" \in Phases /\ 2 \in Running .. 3 /\ 2 # 0
      BY <1>1, <1>4, KeptIs DEF Phases, Running
    <2> QED  BY <1>1, <1>4, <2>1, <2>2, <2>3, KeptIs, PlainOK DEF Kept
  <1> QED  BY <1>3, <1>4 DEF Arguments, Go, Leave, Code

LEMMA FetchedOK ==
    ASSUME IInv, NEW i \in Invocations, Fetched(i)
    PROVE  Moved(i)
  <1>1. UNCHANGED Kept /\ phase[i] = "fetch"  BY DEF Fetched
  <1>2. Command(i) /\ code[i] = Running  BY <1>1, KeptIs DEF Command, CommandOK
  <1>3. ASSUME NEW ph \in {"print", "verify", "scan"},
               /\ job[i].at = "fetched"
               /\ ph = "print"  => Cmd(i) = "manifest"
               /\ ph = "verify" => Cmd(i) = "verify"
               /\ ph = "scan"   => Cmd(i) \notin {"manifest", "verify"},
               phase' = [phase EXCEPT ![i] = ph], UNCHANGED code
        PROVE  Moved(i)
    <2>1. CommandOK(ph, code[i], decided[i], seen[i], env[i], out[i], job[i], request[i])
      BY <1>1, <1>2, <1>3 DEF CommandOK, Command, Running, Cmd, Signing
    <2>2. Turned(i, ph, code[i], decided[i], seen[i], env[i])
      BY <1>1, <1>2, <1>3, KeptIs DEF Turned, Kept
    <2>3. ph \in Phases /\ code[i] \in Running .. 3 /\ code[i] # 0
      BY <1>1, <1>2, <1>3, KeptIs DEF Phases, Running
    <2> QED  BY <1>1, <1>2, <1>3, <2>1, <2>2, <2>3, KeptIs, PlainOK DEF Kept
  <1>4. ASSUME NEW c \in {1, 2}, phase' = [phase EXCEPT ![i] = "cleanup"],
               code' = [code EXCEPT ![i] = c]
        PROVE  Moved(i)
    <2>1. CommandOK("cleanup", c, decided[i], seen[i], env[i], out[i], job[i], request[i])
      BY DEF CommandOK, Running
    <2>2. Turned(i, "cleanup", c, decided[i], seen[i], env[i])
      BY <1>1, <1>4, KeptIs DEF Turned, Kept
    <2>3. "cleanup" \in Phases /\ c \in Running .. 3 /\ c # 0
      BY <1>1, <1>4, KeptIs DEF Phases, Running
    <2> QED  BY <1>1, <1>4, <2>1, <2>2, <2>3, KeptIs, PlainOK DEF Kept
  <1>5. CASE job[i].at = "fetched" /\ UNCHANGED code
             /\ Go(i, "fetch", CASE Cmd(i) = "manifest" -> "print"
                                 [] Cmd(i) = "verify"   -> "verify"
                                 [] OTHER               -> "scan")
    BY <1>3, <1>5 DEF Go
  <1>6. CASE Leave(i, "fetch", "cleanup", IF job[i].error = "OSError" THEN Traceback ELSE 2)
    BY <1>4, <1>6 DEF Leave, Go, Code, Traceback
  <1> QED  BY <1>5, <1>6 DEF Fetched

(* A fetched artifact is what its directory holds of it. *)
LEMMA OnDiskIs ==
    ASSUME IInv, NEW i \in Invocations, job[i].at = "fetched"
    PROVE  /\ OnDisk(i) = job[i].digest /\ job[i].digest \in Trees
           /\ job[i].digest # NoTree /\ request[i].pin \in {NoTree, job[i].digest}
  <1>1. /\ job[i].digest = Part(area[i], job[i].staged) /\ job[i].staged \subseteq DOMAIN area[i]
        /\ request[i].pin \in {NoTree, job[i].digest}
    BY KeptIs DEF JobOK
  <1>2. Part(area[i], job[i].staged) \in Trees  BY <1>1, KeptIs, PartIs
  <1> QED  BY <1>1, <1>2, TreesAssumption DEF OnDisk, Dir

LEMMA ScanOK ==
    ASSUME IInv, NEW i \in Invocations, Scan(i)
    PROVE  Moved(i)
  <1>1. UNCHANGED <<fvars, env, out, file, wrote>> /\ phase[i] = "scan"
    BY DEF Scan, Go, Leave
  <1>2. /\ Command(i) /\ code[i] = Running /\ job[i].at = "fetched"
        /\ Cmd(i) \notin {"manifest", "verify"}
    BY <1>1, KeptIs DEF Command, CommandOK, Cmd
  <1>3. OnDisk(i) = job[i].digest /\ job[i].digest \in Trees  BY <1>2, OnDiskIs
  <1>4. ASSUME NEW d \in Decisions, NEW ph \in {"sign", "print"},
               ph = "sign" <=> Cmd(i) \in Signing,
               phase' = [phase EXCEPT ![i] = ph], decided' = [decided EXCEPT ![i] = d],
               seen' = [seen EXCEPT ![i] = OnDisk(i)], UNCHANGED code
        PROVE  Moved(i)
    <2>1. CommandOK(ph, code[i], d, OnDisk(i), env[i], out[i], job[i], request[i])
      BY <1>2, <1>3, <1>4 DEF CommandOK, Running, Cmd, Signing
    <2>2. Turned(i, ph, code[i], d, OnDisk(i), env[i])  BY <1>1, <1>4, KeptIs DEF Turned
    <2>3. ph \in Phases /\ code[i] \in Running .. 3 /\ code[i] # 0
      BY <1>2, KeptIs DEF Phases, Running
    <2> QED  BY <1>1, <1>3, <2>1, <2>2, <2>3, KeptIs, PlainOK
  <1>5. CASE phase' = [phase EXCEPT ![i] = "cleanup"] /\ code' = [code EXCEPT ![i] = 2]
             /\ UNCHANGED <<decided, seen>>
    <2>1. CommandOK("cleanup", 2, decided[i], seen[i], env[i], out[i], job[i], request[i])
      BY DEF CommandOK, Running
    <2>2. Turned(i, "cleanup", 2, decided[i], seen[i], env[i])  BY <1>1, <1>5, KeptIs DEF Turned
    <2>3. "cleanup" \in Phases /\ 2 \in Running .. 3 /\ 2 # 0  BY DEF Phases, Running
    <2> QED  BY <1>1, <2>1, <2>2, <2>3, KeptIs, PlainOK
  <1> QED  BY <1>4, <1>5 DEF Scan, Go, Leave, Code

(* What a command signs. *)
Statement(i) == SignAttestation([digest |-> job[i].digest, gates |-> {}, decision |-> decided[i]],
                                request[i].signer)

LEMMA StatementIs ==
    ASSUME IInv, NEW i \in Invocations, job[i].digest \in Trees, decided[i] \in Decisions
    PROVE  /\ Statement(i) \in Envelopes
           /\ Statement(i).payload.form = "vetting"
           /\ Statement(i).payload.subject = job[i].digest
           /\ Statement(i).payload.att.decision = decided[i]
  <1> DEFINE att == [digest |-> job[i].digest, gates |-> {}, decision |-> decided[i]]
  <1> DEFINE r == request[i].signer
  <1>1. r \in Signatures  BY RequestIs DEF IInv, CliTypeOK, Requests
  <1>2. <<[scheme |-> r.scheme, keyid |-> r.keyid, key |-> r.key]>> \in Seq(Signatures)
    BY <1>1 DEF Signatures
  <1>3. [form |-> "vetting", subject |-> att.digest, att |-> att] \in
            [form : PayloadForms, subject : Trees,
             att : [digest : Trees, gates : {{}}, decision : Decisions]]
    BY DEF PayloadForms
  <1>4. Statement(i) = [payload |-> [form |-> "vetting", subject |-> att.digest, att |-> att],
                        sigs |-> <<[scheme |-> r.scheme, keyid |-> r.keyid, key |-> r.key]>>]
    BY DEF Statement, SignAttestation
  <1>5. Statement(i) \in Envelopes  BY <1>2, <1>3, <1>4 DEF Envelopes
  <1> QED  BY <1>4, <1>5

LEMMA SignOK ==
    ASSUME IInv, NEW i \in Invocations, Sign(i)
    PROVE  Moved(i)
  <1>1. UNCHANGED <<fvars, decided, seen, out, file, wrote>> /\ phase[i] = "sign"
    BY DEF Sign, Go, Leave
  <1>2. /\ Command(i) /\ code[i] = Running /\ job[i].at = "fetched" /\ Cmd(i) \in Signing
        /\ seen[i] = job[i].digest /\ decided[i] \in Decisions
    BY <1>1, KeptIs DEF Command, CommandOK, Cmd
  <1>3. job[i].digest \in Trees /\ request[i].pin \in {NoTree, job[i].digest}
    BY <1>2, OnDiskIs
  <1>4. CASE phase' = [phase EXCEPT ![i] = "cleanup"] /\ UNCHANGED code
             /\ env' = [env EXCEPT ![i] = Statement(i)]
    <2>1. CommandOK("cleanup", code[i], decided[i], seen[i], Statement(i), out[i], job[i],
                    request[i])
      BY <1>2, <1>3 DEF CommandOK, Running, Cmd, Signing
    <2>2. Turned(i, "cleanup", code[i], decided[i], seen[i], Statement(i))
      BY <1>1, <1>4, KeptIs DEF Turned
    <2>3. "cleanup" \in Phases /\ code[i] \in Running .. 3 /\ code[i] # 0
      BY <1>2, KeptIs DEF Phases, Running
    <2> QED  BY <1>1, <1>2, <1>3, <2>1, <2>2, <2>3, StatementIs, KeptIs, PlainOK
  <1>5. ASSUME NEW c \in {1, 2}, phase' = [phase EXCEPT ![i] = "cleanup"],
               code' = [code EXCEPT ![i] = c], UNCHANGED env
        PROVE  Moved(i)
    <2>1. CommandOK("cleanup", c, decided[i], seen[i], env[i], out[i], job[i], request[i])
      BY DEF CommandOK, Running
    <2>2. Turned(i, "cleanup", c, decided[i], seen[i], env[i])  BY <1>1, <1>5, KeptIs DEF Turned
    <2>3. "cleanup" \in Phases /\ c \in Running .. 3 /\ c # 0  BY DEF Phases, Running
    <2> QED  BY <1>1, <2>1, <2>2, <2>3, KeptIs, PlainOK
  <1> QED  BY <1>4, <1>5 DEF Sign, Go, Leave, Code, Statement, Traceback

LEMMA VerifyOK ==
    ASSUME IInv, NEW i \in Invocations, Verify(i)
    PROVE  Moved(i)
  <1>1. UNCHANGED <<fvars, seen, env, out, file, wrote>> /\ phase[i] = "verify"
    BY DEF Verify
  <1>2. /\ Command(i) /\ code[i] = Running /\ job[i].at = "fetched" /\ Cmd(i) = "verify"
        /\ env[i] \in Envelopes
    BY <1>1, KeptIs DEF Command, CommandOK, Cmd
  <1>3. job[i].digest # NoTree /\ request[i].pin \in {NoTree, job[i].digest}
    BY <1>2, OnDiskIs
  <1>4. request[i].writes = <<>>  BY <1>2, RequestIs DEF Cmd, Signing, IInv, CliTypeOK
  <1>5. ASSUME NEW c \in {0, 1, 2, 3}, NEW d \in Decisions \cup {"none"},
               phase' = [phase EXCEPT ![i] = "cleanup"],
               code' = [code EXCEPT ![i] = c], decided' = [decided EXCEPT ![i] = d]
        PROVE  Moved(i)
    <2>1. CommandOK("cleanup", c, d, seen[i], env[i], out[i], job[i], request[i])
      BY <1>2, <1>3 DEF CommandOK, Running, Cmd, Signing
    <2>2. Turned(i, "cleanup", c, d, seen[i], env[i])  BY <1>1, <1>5, KeptIs DEF Turned
    <2>3. "cleanup" \in Phases /\ c \in Running .. 3  BY DEF Phases, Running
    <2> QED  BY <1>1, <1>4, <2>1, <2>2, <2>3, KeptIs, PlainOK
  <1>6. env[i].payload.att.decision \in Decisions  BY <1>2 DEF Envelopes
  <1>7. CASE Leave(i, "verify", "cleanup", 3) /\ UNCHANGED decided
    BY <1>5, <1>7, KeptIs DEF Leave, Go, Code
  <1>8. CASE Leave(i, "verify", "cleanup", Traceback) /\ UNCHANGED decided
    BY <1>5, <1>8, KeptIs DEF Leave, Go, Code, Traceback
  <1>9. ASSUME NEW live,
               LET v == VerifyAttestation(env[i], request[i].signer, AnyKeyid, live) IN
               /\ Leave(i, "verify", "cleanup", VerifyCode(i, v))
               /\ decided' = [decided EXCEPT ![i] =
                     IF ~ v.raises /\ v.checks.signature THEN env[i].payload.att.decision
                                                         ELSE "none"]
        PROVE  Moved(i)
    <2> DEFINE v == VerifyAttestation(env[i], request[i].signer, AnyKeyid, live)
    <2> HIDE DEF v
    <2>1. PICK c \in {0, 1, 2, 3} : c = VerifyCode(i, v)  BY DEF VerifyCode, Traceback
    <2>2. PICK d \in Decisions \cup {"none"} :
             d = IF ~ v.raises /\ v.checks.signature THEN env[i].payload.att.decision ELSE "none"
      BY <1>6
    <2>3. /\ phase' = [phase EXCEPT ![i] = "cleanup"] /\ code' = [code EXCEPT ![i] = c]
          /\ decided' = [decided EXCEPT ![i] = d]
      BY <1>9, <2>1, <2>2 DEF Leave, Go, Code, v
    <2> QED  BY <1>5, <2>3
  <1> QED  BY <1>7, <1>8, <1>9 DEF Verify

LEMMA EarnedIs ==
    ASSUME IInv, NEW i \in Invocations,
           Cmd(i) \in {"scan", "ingest"} => decided[i] \in Decisions
    PROVE  /\ Earned(i) \in Running .. 3
           /\ (Earned(i) = 0 /\ Cmd(i) \in {"scan", "ingest"} /\ request[i].failOn # "none") =>
                 DecisionRank[decided[i]] < DecisionRank[request[i].failOn]
  <1>1. request[i].failOn \in Decisions \cup {"none"}
    BY RequestIs DEF IInv, CliTypeOK, Requests
  <1>2. CASE Cmd(i) = "verify"  BY <1>2, KeptIs DEF Earned
  <1>3. CASE Cmd(i) \in {"scan", "ingest"}
    <2>1. Earned(i) = ExitCode(decided[i], request[i].failOn)  BY <1>3 DEF Earned
    <2>2. ExitCode(decided[i], request[i].failOn) \in {0, 1}  BY <1>1, <1>3, ExitIs
    <2>3. Earned(i) \in Running .. 3  BY <2>1, <2>2 DEF Running
    <2> QED  BY <1>1, <1>3, <2>1, <2>3, ExitIs
  <1>4. CASE Cmd(i) \notin {"verify", "scan", "ingest"}
    <2>1. Earned(i) = 0  BY <1>4 DEF Earned
    <2> QED  BY <1>4, <2>1 DEF Running
  <1> QED  BY <1>2, <1>3, <1>4

LEMMA ReportOK ==
    ASSUME IInv, NEW i \in Invocations, Report(i)
    PROVE  Moved(i)
  <1>1. UNCHANGED Kept /\ phase[i] = "print"  BY DEF Report, Go, Leave
  <1>2. /\ Command(i) /\ Cmd(i) \notin Signing
        /\ Cmd(i) # "verify" => job[i].at = "fetched"
        /\ Cmd(i) \in {"scan", "policy"} => seen[i] = job[i].digest /\ decided[i] \in Decisions
    BY <1>1, KeptIs DEF Command, CommandOK, Cmd
  <1>3. Cmd(i) # "verify" => job[i].digest # NoTree /\ request[i].pin \in {NoTree, job[i].digest}
    BY <1>2, OnDiskIs
  <1>4. request[i].writes = <<>>  BY <1>2, RequestIs DEF Cmd, IInv, CliTypeOK
  <1>5. Cmd(i) \in Commands  BY RequestIs DEF Cmd, IInv, CliTypeOK, Requests
  <1>6. ASSUME NEW ph \in {"ended", "cleanup"}, NEW c \in {Earned(i), Traceback},
               phase' = [phase EXCEPT ![i] = ph], code' = [code EXCEPT ![i] = c]
        PROVE  Moved(i)
    <2>0. Earned(i) \in Running .. 3 /\ Traceback \in Running .. 3
      BY <1>2, EarnedIs DEF Signing, Running, Traceback
    <2>1. CASE c = Traceback
      <3>1. CommandOK(ph, c, decided[i], seen[i], env[i], out[i], job[i], request[i])
        BY <1>2, <2>1 DEF CommandOK, Running, Traceback, Cmd, Signing
      <3>2. Turned(i, ph, c, decided[i], seen[i], env[i])
        BY <1>1, <1>6, KeptIs DEF Turned, Kept
      <3>3. ph \in Phases /\ c \in Running .. 3  BY <2>0 DEF Phases
      <3> QED  BY <1>1, <1>4, <3>1, <3>2, <3>3, KeptIs, PlainOK DEF Kept
    <2>2. CASE c = Earned(i)
      <3>0. Cmd(i) = "verify" => c = code[i]  BY <2>2 DEF Earned
      <3>a. (c = 0 /\ Cmd(i) \in {"scan", "ingest"} /\ request[i].failOn # "none") =>
               DecisionRank[decided[i]] < DecisionRank[request[i].failOn]
        BY <1>2, <2>2, EarnedIs DEF Signing
      <3>b. c = 0 => /\ job[i].digest # NoTree /\ request[i].pin \in {NoTree, job[i].digest}
                     /\ Cmd(i) \notin {"manifest", "verify"} => seen[i] = job[i].digest
        BY <1>2, <1>3, <1>5, <3>0 DEF Command, CommandOK, Commands, Signing, Cmd
      <3>1. CommandOK(ph, c, decided[i], seen[i], env[i], out[i], job[i], request[i])
        BY <1>2, <3>a, <3>b DEF CommandOK, Running, Cmd, Signing
      <3>2. Turned(i, ph, c, decided[i], seen[i], env[i])
        BY <1>1, <1>6, KeptIs DEF Turned, Kept
      <3>3. ph \in Phases /\ c \in Running .. 3  BY <2>0, <2>2 DEF Phases
      <3> QED  BY <1>1, <1>4, <3>1, <3>2, <3>3, KeptIs, PlainOK DEF Kept
    <2> QED  BY <2>1, <2>2
  <1>7. CASE Leave(i, "print", IF Cmd(i) = "verify" THEN "ended" ELSE "cleanup", Earned(i))
    BY <1>6, <1>7 DEF Leave, Go, Code
  <1>8. CASE Leave(i, "print", IF Cmd(i) = "verify" THEN "ended" ELSE "cleanup", Traceback)
    BY <1>6, <1>8 DEF Leave, Go, Code
  <1> QED  BY <1>7, <1>8 DEF Report

LEMMA WorkspaceOK ==
    ASSUME IInv, NEW i \in Invocations, Workspace(i)
    PROVE  Moved(i)
  <1>1. UNCHANGED <<World, area, decided, seen, env, out, file, wrote>> /\ phase[i] = "workspace"
    BY DEF Workspace, Go, Leave
  <1>2. /\ Command(i) /\ code[i] = Running /\ job[i] = NewJob
        /\ Cmd(i) = "verify" => env[i] \in Envelopes
    BY <1>1, KeptIs DEF Command, CommandOK, Cmd
  <1>3. CASE phase' = [phase EXCEPT ![i] = "ended"] /\ code' = [code EXCEPT ![i] = Traceback]
             /\ UNCHANGED job
    <2>1. CommandOK("ended", 1, decided[i], seen[i], env[i], out[i], job[i], request[i])
      BY DEF CommandOK, Running
    <2>2. Turned(i, "ended", 1, decided[i], seen[i], env[i])
      BY <1>1, <1>3, KeptIs DEF Turned, Traceback
    <2>3. "ended" \in Phases /\ 1 \in Running .. 3 /\ 1 # 0  BY DEF Phases, Running
    <2>4. UNCHANGED <<fvars, out, file, wrote>>  BY <1>1, <1>3 DEF fvars, World
    <2> QED  BY <2>1, <2>2, <2>3, <2>4, KeptIs, PlainOK
  <1>4. CASE phase' = [phase EXCEPT ![i] = "fetch"] /\ UNCHANGED code
             /\ job' = [job EXCEPT ![i].at = "locate"]
    <2>1. /\ job'[i] = [job[i] EXCEPT !.at = "locate"]
          /\ job' = [job EXCEPT ![i] = job'[i]]
      BY <1>4 DEF IInv, CliTypeOK, FTypeOK
    <2>2. job'[i] \in Jobs  BY <2>1, KeptIs DEF Jobs, Stages
    <2>3. /\ job'[i].at = "locate" /\ job'[i].staged = {} /\ job'[i].sha = NoTree
      BY <1>2, <2>1, NewJobIs DEF Jobs
    <2>4. area'[i] = area[i] /\ DOMAIN area[i] = {}  BY <1>1, <1>2, KeptIs, NewJobIs DEF JobOK
    <2>5. JobOK(job'[i], area'[i], request[i]) /\ NowOK(job'[i])
      BY <2>3, <2>4 DEF JobOK, NowOK
    <2>6. /\ phase'[i] = "fetch" /\ code'[i] = Running /\ decided'[i] = decided[i]
          /\ seen'[i] = seen[i] /\ env'[i] = env[i] /\ out'[i] = out[i] /\ request' = request
      BY <1>1, <1>2, <1>4 DEF IInv, CliTypeOK, World
    <2>7. Command(i)'  BY <1>2, <2>6 DEF Command, CommandOK, Running, Cmd, Signing
    <2>8. WritesOK(i)'  BY <1>1, <1>2, <2>6, KeptIs DEF WritesOK, Running
    <2>9. file' \in [Files -> Envelopes \cup {Missing, Empty, Garbled}]
          /\ wrote' \in SUBSET (Invocations \X Files) /\ wrote' = wrote
      BY <1>1 DEF IInv, CliTypeOK
    <2>10. phase' = [phase EXCEPT ![i] = phase'[i]] /\ phase'[i] \in Phases
      BY <1>4, <2>6 DEF Phases
    <2> QED  BY <1>1, <1>4, <2>1, <2>2, <2>5, <2>7, <2>8, <2>9, <2>10, KeptIs DEF Moved
  <1> QED  BY <1>3, <1>4 DEF Workspace, Go, Leave, Code

LEMMA FetchingOK ==
    ASSUME IInv, NEW i \in Invocations, Fetching(i)
    PROVE  Moved(i)
  <1>1. UNCHANGED <<locals, file, wrote>> /\ phase[i] = "fetch" /\ FetchStep(i)
    BY DEF Fetching
  <1>2. Command(i) /\ code[i] = Running  BY <1>1, KeptIs DEF Command, CommandOK
  <1>3. Stepped(i, job'[i], area'[i])
    BY <1>1, KeptIs, FetchStepOK DEF IInv, CliTypeOK
  <1>4. /\ phase'[i] = phase[i] /\ code'[i] = code[i] /\ decided'[i] = decided[i]
        /\ seen'[i] = seen[i] /\ env'[i] = env[i] /\ out'[i] = out[i] /\ request' = request
        /\ wrote' = wrote
    BY <1>1, <1>3 DEF locals, Stepped, World
  <1>5. Command(i)'  BY <1>1, <1>2, <1>4 DEF Command, CommandOK, Running
  <1>6. WritesOK(i)'  BY <1>4, KeptIs DEF WritesOK
  <1>7. file' \in [Files -> Envelopes \cup {Missing, Empty, Garbled}]
        /\ wrote' \in SUBSET (Invocations \X Files)
    BY <1>1 DEF IInv, CliTypeOK
  <1>8. /\ phase' = phase /\ code' = code /\ decided' = decided /\ seen' = seen
        /\ env' = env /\ out' = out
    BY <1>1 DEF locals
  <1> QED  BY <1>3, <1>4, <1>5, <1>6, <1>7, <1>8, KeptIs DEF Moved, Stepped

LEMMA CleanupOK ==
    ASSUME IInv, NEW i \in Invocations, Cleanup(i)
    PROVE  Moved(i)
  <1> DEFINE gone == [NewJob EXCEPT !.at = "removed", !.digest = job[i].digest]
  <1>1. /\ UNCHANGED <<World, code, decided, seen, env, out, file, wrote>>
        /\ phase[i] = "cleanup"
        /\ area' = [area EXCEPT ![i] = NoFiles] /\ job' = [job EXCEPT ![i] = gone]
    BY DEF Cleanup, Go, Dir
  <1>2. PICK ph \in {"open", "print", "ended"} :
           /\ phase' = [phase EXCEPT ![i] = ph]
           /\ ph = "open"  => Cmd(i) \in Signing /\ code[i] = Running
           /\ ph = "print" => Cmd(i) = "verify"
    <2>1. CASE Cmd(i) \in Signing /\ code[i] = Running
      <3>1. phase' = [phase EXCEPT ![i] = "open"]  BY <2>1 DEF Cleanup, Go, Signing
      <3> QED  BY <2>1, <3>1
    <2>2. CASE ~ (Cmd(i) \in Signing /\ code[i] = Running)
               /\ Cmd(i) = "verify" /\ code[i] \in {0, 3}
      <3>1. phase' = [phase EXCEPT ![i] = "print"]  BY <2>2 DEF Cleanup, Go
      <3> QED  BY <2>2, <3>1
    <2>3. CASE ~ (Cmd(i) \in Signing /\ code[i] = Running)
               /\ ~ (Cmd(i) = "verify" /\ code[i] \in {0, 3})
      <3>1. phase' = [phase EXCEPT ![i] = "ended"]  BY <2>3 DEF Cleanup, Go
      <3> QED  BY <3>1
    <2> QED  BY <2>1, <2>2, <2>3
  <1>3. gone \in Jobs /\ gone.at = "removed" /\ gone.digest = job[i].digest
    <2>1. job[i].digest \in Trees \cup {NoTree}  BY KeptIs DEF Jobs
    <2> QED  BY <2>1, NewJobIs DEF Jobs, Stages
  <1> HIDE DEF gone
  <1>4. job'[i] = gone /\ area'[i] = NoFiles  BY <1>1 DEF IInv, CliTypeOK, FTypeOK, Dir
  <1>5. /\ phase'[i] = ph /\ code'[i] = code[i] /\ decided'[i] = decided[i]
        /\ seen'[i] = seen[i] /\ env'[i] = env[i] /\ out'[i] = out[i] /\ request' = request
    BY <1>1, <1>2 DEF IInv, CliTypeOK, World
  <1>6. CommandOK("cleanup", code[i], decided[i], seen[i], env[i], out[i], job[i], request[i])
    BY <1>1, KeptIs DEF Command
  <1>7. CommandOK(ph, code[i], decided[i], seen[i], env[i], out[i], gone, request[i])
    BY <1>2, <1>3, <1>6 DEF CommandOK, Running, Cmd, Signing
  <1>8. Command(i)'  BY <1>4, <1>5, <1>7 DEF Command
  <1>9. WritesOK(i)'  BY <1>1, <1>5, KeptIs DEF WritesOK
  <1>10. JobOK(job'[i], area'[i], request[i]) /\ NowOK(job'[i])
    BY <1>3, <1>4 DEF JobOK, NowOK
  <1>11. file' \in [Files -> Envelopes \cup {Missing, Empty, Garbled}]
         /\ wrote' \in SUBSET (Invocations \X Files) /\ wrote \subseteq wrote'
    BY <1>1 DEF IInv, CliTypeOK
  <1>12. ph \in Phases  BY DEF Phases
  <1> QED
    BY <1>1, <1>2, <1>3, <1>4, <1>5, <1>8, <1>9, <1>10, <1>11, <1>12, NoFilesIs, KeptIs DEF Moved

(* A step that touches the files and not the fetch. *)
LEMMA FilesOK ==
    ASSUME IInv, NEW i \in Invocations, UNCHANGED <<fvars, decided, seen, env>>,
           NEW ph \in Phases, NEW c \in Running .. 3, NEW o \in Seq(Files),
           phase' = [phase EXCEPT ![i] = ph], code' = [code EXCEPT ![i] = c],
           out' = [out EXCEPT ![i] = o],
           file' \in [Files -> Envelopes \cup {Missing, Empty, Garbled}],
           wrote \subseteq wrote', wrote' \in SUBSET (Invocations \X Files),
           CommandOK(ph, c, decided[i], seen[i], env[i], o, job[i], request[i]),
           \A n \in Range(request[i].writes) : <<i, n>> \in wrote' \/ (n \in Range(o) /\ c # 0)
    PROVE  Moved(i)
  <1>1. /\ phase'[i] = ph /\ code'[i] = c /\ decided'[i] = decided[i] /\ seen'[i] = seen[i]
        /\ env'[i] = env[i] /\ out'[i] = o /\ job'[i] = job[i] /\ area'[i] = area[i]
    BY DEF IInv, CliTypeOK, fvars
  <1>2. UNCHANGED <<World, source, request, job, area>>  BY DEF fvars, World
  <1>3. Command(i)' /\ WritesOK(i)'  BY <1>1, <1>2 DEF Command, WritesOK
  <1>4. JobOK(job'[i], area'[i], request[i]) /\ NowOK(job'[i])  BY <1>1, KeptIs
  <1> QED  BY <1>1, <1>2, <1>3, <1>4, KeptIs DEF Moved

LEMMA HeadTail ==
    ASSUME NEW o \in Seq(Files), o # <<>>
    PROVE  /\ Head(o) \in Files /\ Tail(o) \in Seq(Files)
           /\ Range(o) \subseteq {Head(o)} \cup Range(Tail(o))
  <1>1. /\ Head(o) \in Files /\ Tail(o) \in Seq(Files) /\ Len(Tail(o)) = Len(o) - 1
        /\ \A k \in 1 .. Len(Tail(o)) : Tail(o)[k] = o[k + 1]
    BY HeadTailProperties
  <1>2. ASSUME NEW k \in 1 .. Len(o), k # 1
        PROVE  k - 1 \in 1 .. Len(Tail(o)) /\ Tail(o)[k - 1] = o[k]
    <2>1. Len(o) \in Nat  OBVIOUS
    <2>2. k - 1 \in 1 .. Len(Tail(o)) /\ (k - 1) + 1 = k  BY <1>1, <1>2, <2>1
    <2>3. Tail(o)[k - 1] = o[(k - 1) + 1]  BY <1>1, <2>2
    <2> QED  BY <2>2, <2>3
  <1>3. DOMAIN o = 1 .. Len(o) /\ DOMAIN Tail(o) = 1 .. Len(Tail(o)) /\ Head(o) = o[1]
    BY <1>1
  <1>4. ASSUME NEW k \in 1 .. Len(o)
        PROVE  o[k] \in {Head(o)} \cup Range(Tail(o))
    <2>1. CASE k = 1  BY <1>3, <2>1
    <2>2. CASE k # 1
      <3>1. k - 1 \in DOMAIN Tail(o) /\ Tail(o)[k - 1] = o[k]  BY <1>2, <1>3, <2>2
      <3> QED  BY <3>1 DEF Range
    <2> QED  BY <2>1, <2>2
  <1>5. Range(o) = {o[k] : k \in 1 .. Len(o)}  BY <1>3 DEF Range
  <1> QED  BY <1>1, <1>4, <1>5

LEMMA OpenOutOK ==
    ASSUME IInv, NEW i \in Invocations, OpenOut(i)
    PROVE  Moved(i)
  <1>1. UNCHANGED <<fvars, decided, seen, env, out, wrote>> /\ phase[i] = "open"
    BY DEF OpenOut, Go, Leave
  <1>2. /\ Command(i) /\ code[i] = Running /\ Cmd(i) \in Signing
        /\ seen[i] = job[i].digest /\ decided[i] \in Decisions
        /\ job[i].digest # NoTree /\ request[i].pin \in {NoTree, job[i].digest}
    BY <1>1, KeptIs, TreesAssumption DEF Command, CommandOK, Cmd
  <1>3. out[i] \in Seq(Files) /\ out' = [out EXCEPT ![i] = out[i]]  BY <1>1, KeptIs
  <1>4. \A n \in Range(request[i].writes) :
           <<i, n>> \in wrote' \/ (n \in Range(out[i]) /\ code[i] # 0)
    BY <1>1, KeptIs DEF WritesOK
  <1>5. wrote \subseteq wrote' /\ wrote' \in SUBSET (Invocations \X Files)
    BY <1>1 DEF IInv, CliTypeOK
  <1>6. UNCHANGED <<fvars, decided, seen, env>>  BY <1>1
  <1>7. CASE out[i] # <<>> /\ phase' = [phase EXCEPT ![i] = "write"] /\ UNCHANGED code
             /\ file' = [file EXCEPT ![Head(out[i])] = Empty]
    <2>1. file' \in [Files -> Envelopes \cup {Missing, Empty, Garbled}]
      BY <1>7 DEF IInv, CliTypeOK
    <2>2. CommandOK("write", code[i], decided[i], seen[i], env[i], out[i], job[i], request[i])
      BY <1>1, <1>2, <1>7 DEF CommandOK, Command, Running, Cmd, Signing
    <2>3. "write" \in Phases /\ code[i] \in Running .. 3 /\ code' = [code EXCEPT ![i] = code[i]]
      BY <1>7, KeptIs DEF Phases
    <2> QED  BY <1>3, <1>4, <1>5, <1>6, <1>7, <2>1, <2>2, <2>3, FilesOK
  <1>8. CASE phase' = [phase EXCEPT ![i] = "ended"] /\ code' = [code EXCEPT ![i] = 2]
             /\ UNCHANGED file
    <2>1. file' \in [Files -> Envelopes \cup {Missing, Empty, Garbled}]
      BY <1>8 DEF IInv, CliTypeOK
    <2>2. CommandOK("ended", 2, decided[i], seen[i], env[i], out[i], job[i], request[i])
      BY DEF CommandOK, Running
    <2>3. "ended" \in Phases /\ 2 \in Running .. 3 /\ 2 # 0  BY DEF Phases, Running
    <2>4. \A n \in Range(request[i].writes) :
             <<i, n>> \in wrote' \/ (n \in Range(out[i]) /\ 2 # 0)
      BY <1>4
    <2> QED  BY <1>3, <1>5, <1>6, <1>8, <2>1, <2>2, <2>3, <2>4, FilesOK
  <1>9. CASE out[i] = <<>> /\ phase' = [phase EXCEPT ![i] = "ended"]
             /\ code' = [code EXCEPT ![i] = Earned(i)] /\ UNCHANGED file
    <2>1. file' \in [Files -> Envelopes \cup {Missing, Empty, Garbled}]
      BY <1>9 DEF IInv, CliTypeOK
    <2>2. /\ Earned(i) \in Running .. 3
          /\ (Earned(i) = 0 /\ Cmd(i) \in {"scan", "ingest"} /\ request[i].failOn # "none") =>
                DecisionRank[decided[i]] < DecisionRank[request[i].failOn]
      BY <1>2, EarnedIs
    <2>3. CommandOK("ended", Earned(i), decided[i], seen[i], env[i], out[i], job[i], request[i])
      BY <1>2, <2>2 DEF CommandOK, Running, Cmd, Signing
    <2>4. "ended" \in Phases  BY DEF Phases
    <2>5. Range(out[i]) = {}  BY <1>9 DEF Range
    <2>6. \A n \in Range(request[i].writes) :
             <<i, n>> \in wrote' \/ (n \in Range(out[i]) /\ Earned(i) # 0)
      BY <1>4, <2>5
    <2> QED  BY <1>3, <1>5, <1>6, <1>9, <2>1, <2>2, <2>3, <2>4, <2>6, FilesOK
  <1> QED  BY <1>7, <1>8, <1>9 DEF OpenOut, Go, Leave, Code

LEMMA WriteOutOK ==
    ASSUME IInv, NEW i \in Invocations, WriteOut(i)
    PROVE  Moved(i)
  <1> DEFINE n == Head(out[i])
  <1>1. UNCHANGED <<fvars, decided, seen, env>> /\ phase[i] = "write"
    BY DEF WriteOut, Go, Leave
  <1>2. /\ Command(i) /\ code[i] = Running /\ Cmd(i) \in Signing /\ out[i] # <<>>
        /\ seen[i] = job[i].digest /\ decided[i] \in Decisions
        /\ job[i].digest \in Trees /\ request[i].pin \in {NoTree, job[i].digest}
    BY <1>1, KeptIs DEF Command, CommandOK, Cmd
  <1>3. out[i] \in Seq(Files) /\ code[i] # 0 /\ code[i] \in Running .. 3
    BY <1>2, KeptIs DEF Running
  <1>4. /\ n \in Files /\ Tail(out[i]) \in Seq(Files)
        /\ Range(out[i]) \subseteq {n} \cup Range(Tail(out[i]))
    BY <1>2, <1>3, HeadTail
  <1>5. \A m \in Range(request[i].writes) :
           <<i, m>> \in wrote \/ (m \in Range(out[i]) /\ code[i] # 0)
    BY KeptIs DEF WritesOK
  <1>6. wrote \in SUBSET (Invocations \X Files)  BY DEF IInv, CliTypeOK
  <1> HIDE DEF n
  <1>7. ASSUME NEW c \in {env[i], Garbled}, file' = [file EXCEPT ![n] = c],
               phase' = [phase EXCEPT ![i] = "open"], UNCHANGED code,
               wrote' = wrote \cup {<<i, n>>}, out' = [out EXCEPT ![i] = Tail(@)]
        PROVE  Moved(i)
    <2>1. c \in Envelopes \cup {Missing, Garbled}  BY KeptIs
    <2>2. file' \in [Files -> Envelopes \cup {Missing, Empty, Garbled}]
      BY <1>4, <1>7, <2>1 DEF IInv, CliTypeOK
    <2>3. CommandOK("open", code[i], decided[i], seen[i], env[i], Tail(out[i]), job[i],
                    request[i])
      BY <1>2 DEF CommandOK, Running, Cmd, Signing
    <2>4. "open" \in Phases /\ code' = [code EXCEPT ![i] = code[i]]
      BY <1>7, KeptIs DEF Phases
    <2>5. out' = [out EXCEPT ![i] = Tail(out[i])]  BY <1>7
    <2>6. \A m \in Range(request[i].writes) :
             <<i, m>> \in wrote' \/ (m \in Range(Tail(out[i])) /\ code[i] # 0)
      BY <1>3, <1>4, <1>5, <1>7
    <2>7. wrote \subseteq wrote' /\ wrote' \in SUBSET (Invocations \X Files)
      BY <1>4, <1>6, <1>7
    <2> QED  BY <1>1, <1>3, <1>4, <1>7, <2>2, <2>3, <2>4, <2>5, <2>6, <2>7, FilesOK
  <1>8. CASE phase' = [phase EXCEPT ![i] = "ended"] /\ code' = [code EXCEPT ![i] = 2]
             /\ UNCHANGED <<out, file, wrote>>
    <2>1. file' \in [Files -> Envelopes \cup {Missing, Empty, Garbled}]
      BY <1>8 DEF IInv, CliTypeOK
    <2>2. CommandOK("ended", 2, decided[i], seen[i], env[i], out[i], job[i], request[i])
      BY DEF CommandOK, Running
    <2>3. "ended" \in Phases /\ 2 \in Running .. 3 /\ 2 # 0  BY DEF Phases, Running
    <2>4. \A m \in Range(request[i].writes) :
             <<i, m>> \in wrote' \/ (m \in Range(out[i]) /\ 2 # 0)
      BY <1>5, <1>8
    <2>5. out' = [out EXCEPT ![i] = out[i]]  BY <1>8, KeptIs
    <2>6. wrote \subseteq wrote' /\ wrote' \in SUBSET (Invocations \X Files)
      BY <1>6, <1>8
    <2> QED  BY <1>1, <1>3, <1>8, <2>1, <2>2, <2>3, <2>4, <2>5, <2>6, FilesOK
  <1>9. \/ /\ phase' = [phase EXCEPT ![i] = "open"]
           /\ file' \in {[file EXCEPT ![n] = c] :
                            c \in {env[i]} \cup (IF file[n] = Empty THEN {} ELSE {Garbled})}
           /\ wrote' = wrote \cup {<<i, n>>}
           /\ out' = [out EXCEPT ![i] = Tail(@)]
           /\ UNCHANGED code
        \/ /\ phase' = [phase EXCEPT ![i] = "ended"] /\ code' = [code EXCEPT ![i] = 2]
           /\ UNCHANGED <<out, file, wrote>>
    BY DEF WriteOut, Go, Leave, Code, n
  <1>10. (\E c \in {env[i]} \cup (IF file[n] = Empty THEN {} ELSE {Garbled}) :
             file' = [file EXCEPT ![n] = c]) =>
         \E c \in {env[i], Garbled} : file' = [file EXCEPT ![n] = c]
    OBVIOUS
  <1> QED  BY <1>7, <1>8, <1>9, <1>10

LEMMA CliStepOK ==
    ASSUME IInv, NEW i \in Invocations, CliStep(i)
    PROVE  Moved(i)
  BY ReadAttestationOK, ArgumentsOK, WorkspaceOK, FetchingOK, FetchedOK, ScanOK, SignOK, VerifyOK,
     ReportOK, CleanupOK, OpenOutOK, WriteOutOK
  DEF CliStep

-----------------------------------------------------------------------------
(* the world *)

LEMMA EditIs ==
    ASSUME source \in LocalTrees, NEW p \in Paths,
           source' \in {Put(source, p, c) : c \in Contents} \cup {Part(source, DOMAIN source \ {p})}
    PROVE  /\ source' \in LocalTrees
           /\ \A q \in DOMAIN source' : source'[q] = Link => q \in DOMAIN source /\ source[q] = Link
  <1>1. PICK F \in SUBSET Paths : source \in [F -> Contents \cup {Link}]  BY DEF LocalTrees
  <1>2. ASSUME NEW c \in Contents, source' = Put(source, p, c)
        PROVE  /\ source' \in LocalTrees
               /\ \A q \in DOMAIN source' :
                     source'[q] = Link => q \in DOMAIN source /\ source[q] = Link
    <2>1. /\ source' = [q \in {p} \cup F |-> IF q \in {p} THEN c ELSE source[q]]
          /\ \A q \in {p} : [r \in {p} |-> c][q] = c
      BY <1>1, <1>2 DEF Put, Over
    <2>2. source' \in [F \cup {p} -> Contents \cup {Link}]  BY <1>1, <2>1
    <2>3. F \cup {p} \in SUBSET Paths  OBVIOUS
    <2>4. source' \in LocalTrees  BY <2>2, <2>3 DEF LocalTrees
    <2> QED  BY <1>1, <2>1, <2>4, TreesAssumption
  <1>3. ASSUME source' = Part(source, DOMAIN source \ {p})
        PROVE  /\ source' \in LocalTrees
               /\ \A q \in DOMAIN source' :
                     source'[q] = Link => q \in DOMAIN source /\ source[q] = Link
    <2>1. source' = [q \in F \ {p} |-> source[q]]  BY <1>1, <1>3 DEF Part
    <2>2. source' \in [F \ {p} -> Contents \cup {Link}]  BY <1>1, <2>1
    <2>3. F \ {p} \in SUBSET Paths  OBVIOUS
    <2>4. source' \in LocalTrees  BY <2>2, <2>3 DEF LocalTrees
    <2> QED  BY <1>1, <2>1, <2>4
  <1> QED  BY <1>2, <1>3

LEMMA AroundOK ==
    ASSUME IInv, Around
    PROVE  IInv'
  <1>1. UNCHANGED <<request, area, job, locals, file, wrote>>
    BY DEF Around, EditLocal, PushToHub
  <1>2. /\ source' \in LocalTrees /\ head' \in DOMAIN Commits /\ edits' \in 0 .. MaxEdits
        /\ \A q \in DOMAIN source' : source'[q] = Link => q \in DOMAIN source /\ source[q] = Link
    <2>1. edits' \in 0 .. MaxEdits
      BY LimitsAssumption DEF Around, EditLocal, PushToHub, IInv, CliTypeOK, FTypeOK
    <2>2. source \in LocalTrees /\ head \in DOMAIN Commits  BY DEF IInv, CliTypeOK, FTypeOK
    <2>3. CASE EditLocal
      <3>1. PICK p \in Paths :
               source' \in {Put(source, p, c) : c \in Contents}
                           \cup {Part(source, DOMAIN source \ {p})}
        BY <2>3 DEF EditLocal
      <3>2. head' = head  BY <2>3 DEF EditLocal
      <3> QED  BY <2>1, <2>2, <3>1, <3>2, EditIs
    <2>4. CASE PushToHub  BY <2>1, <2>2, <2>4 DEF PushToHub
    <2> QED  BY <2>3, <2>4 DEF Around
  <1>3. CliTypeOK'  BY <1>1, <1>2 DEF IInv, CliTypeOK, FTypeOK, locals
  <1>4. ASSUME NEW i \in Invocations
        PROVE  /\ JobOK(job[i], area[i], request[i])' /\ NowOK(job[i])'
               /\ Command(i)' /\ WritesOK(i)'
    <2>1. JobOK(job[i], area[i], request[i])'  BY <1>1 DEF IInv
    <2>2. NowOK(job[i])'  BY <1>1, <1>2 DEF IInv, NowOK
    <2>3. Command(i)' /\ WritesOK(i)'  BY <1>1 DEF IInv, Command, WritesOK, locals
    <2> QED  BY <2>1, <2>2, <2>3
  <1> QED  BY <1>3, <1>4 DEF IInv

-----------------------------------------------------------------------------
(* the specification *)

LEMMA CInitOK ==
    ASSUME CInit
    PROVE  IInv
  <1>1. PICK s \in Starts : request = s.request /\ source = s.source /\ head = s.head
                            /\ file = s.file
    BY DEF CInit
  <1>2. /\ DOMAIN s.request = Invocations /\ s.source \in LocalTrees /\ s.head \in DOMAIN Commits
        /\ s.file \in [Files -> Envelopes \cup {Missing, Empty, Garbled}]
    BY CliAssumption, TreesAssumption
  <1>3. ASSUME NEW i \in Invocations
        PROVE  request[i] \in Requests /\ request[i].writes \in Seq(Files)
    BY <1>1, CliAssumption DEF Requests
  <1>4. /\ edits = 0 /\ area = [d \in Invocations |-> NoFiles] /\ job = [i \in Invocations |-> NewJob]
    BY DEF CInit, FInit, Dir
  <1>5. FTypeOK
    <2>1. request \in {t.request : t \in Starts}  BY <1>1
    <2>2. source \in LocalTrees /\ head \in DOMAIN Commits  BY <1>1, <1>2
    <2>3. edits \in 0 .. MaxEdits  BY <1>4, LimitsAssumption
    <2>4. area \in [Invocations -> Trees] /\ job \in [Invocations -> Jobs]
      BY <1>4, NoFilesIs, NewJobIs
    <2> QED  BY <2>1, <2>2, <2>3, <2>4 DEF FTypeOK, Dir
  <1>6. CliTypeOK
    <2>1. phase \in [Invocations -> Phases]  BY DEF CInit, Phases
    <2>2. code \in [Invocations -> Running .. 3]
      <3>1. Running \in Running .. 3  BY DEF Running
      <3> QED  BY <3>1 DEF CInit
    <2>3. /\ decided \in [Invocations -> Decisions \cup {"none"}]
          /\ seen \in [Invocations -> Trees \cup {NoTree}]
          /\ env \in [Invocations -> Envelopes \cup {Missing}]
      BY DEF CInit
    <2>4. out \in [Invocations -> Seq(Files)]  BY <1>3 DEF CInit
    <2>5. file \in [Files -> Envelopes \cup {Missing, Empty, Garbled}]
          /\ wrote \in SUBSET (Invocations \X Files)
      BY <1>1, <1>2 DEF CInit
    <2> QED  BY <1>5, <2>1, <2>2, <2>3, <2>4, <2>5 DEF CliTypeOK
  <1>7. ASSUME NEW i \in Invocations
        PROVE  JobOK(job[i], area[i], request[i]) /\ NowOK(job[i]) /\ Command(i) /\ WritesOK(i)
    <2>1. job[i] = NewJob /\ area[i] = NoFiles  BY <1>4
    <2>2. JobOK(job[i], area[i], request[i]) /\ NowOK(job[i])
      BY <2>1, NewJobIs, NoFilesIs DEF JobOK, NowOK
    <2>3. phase[i] \in {"read", "args"} /\ (Cmd(i) = "verify" => phase[i] = "read")
      BY DEF CInit, Cmd
    <2>4. code[i] = -1 /\ out[i] = request[i].writes  BY DEF CInit, Running
    <2>5. Command(i)  BY <2>1, <2>3, <2>4 DEF Command, CommandOK, Running, Cmd
    <2>6. WritesOK(i)  BY <2>4 DEF WritesOK
    <2> QED  BY <2>2, <2>5, <2>6
  <1> QED  BY <1>6, <1>7 DEF IInv

(* The inductive invariant: what each command knows of its fetch, its phase and
   its files holds throughout, whatever the others and the world do. *)
THEOREM CliInvariant == CSpec => []IInv
  <1>1. CInit => IInv  BY CInitOK
  <1>2. IInv /\ [CNext]_cvars => IInv'
    <2> SUFFICES ASSUME IInv, [CNext]_cvars PROVE IInv'  OBVIOUS
    <2>1. CASE \E i \in Invocations : CliStep(i)  BY <2>1, CliStepOK, MovedOK
    <2>2. CASE Around  BY <2>2, AroundOK
    <2>3. CASE UNCHANGED cvars
      <3>1. CliTypeOK'
        BY <2>3 DEF IInv, CliTypeOK, FTypeOK, cvars, fvars, locals
      <3>2. ASSUME NEW i \in Invocations
            PROVE  /\ JobOK(job[i], area[i], request[i])' /\ NowOK(job[i])'
                   /\ Command(i)' /\ WritesOK(i)'
        BY <2>3 DEF IInv, NowOK, Command, WritesOK, cvars, fvars, locals
      <3> QED  BY <3>1, <3>2 DEF IInv
    <2> QED  BY <2>1, <2>2, <2>3 DEF CNext, CEnded
  <1> QED  BY <1>1, <1>2, PTL DEF CSpec

(* Every variable of the commands and their fetches has its type: envelopes,
   trees and jobs are only ever built whole. *)
THEOREM CliTypeCorrect == CSpec => []CliTypeOK
  BY CliInvariant, PTL DEF IInv

(* A digest covers every byte in its quarantine directory but the hub's .cache,
   as long as the directory stands (huggingface.py:144-154, local.py:55-65). *)
THEOREM ArtifactIsWholeHolds == CSpec => []ArtifactIsWhole
  <1>1. IInv => ArtifactIsWhole
    <2> SUFFICES ASSUME IInv, NEW i \in Invocations, job[i].at = "fetched"
                 PROVE  /\ job[i].digest = Part(area[Dir(i)], DOMAIN area[Dir(i)] \ {Cache})
                        /\ request[i].pin \in {NoTree, job[i].digest}
      BY DEF ArtifactIsWhole
    <2> QED  BY KeptIs DEF JobOK, Dir
  <1> QED  BY <1>1, CliInvariant, PTL

(* A hub artifact is the whole of the commit it names, although the branch moves
   and the delivery may drop or add files (huggingface.py:125-151). *)
THEOREM CommitIsWholeHolds == CSpec => []CommitIsWhole
  <1>1. IInv => CommitIsWhole
    <2> SUFFICES ASSUME IInv, NEW i \in Invocations, job[i].at = "fetched", job[i].sha # NoTree
                 PROVE  /\ DOMAIN Commits[job[i].sha] \subseteq DOMAIN job[i].digest
                        /\ Commits[job[i].sha] = Part(job[i].digest, DOMAIN Commits[job[i].sha])
      BY DEF CommitIsWhole
    <2>1. /\ job[i].staged = DOMAIN area[i] \ {Cache}
          /\ DOMAIN Commits[job[i].sha] \subseteq job[i].staged
          /\ \A p \in DOMAIN Commits[job[i].sha] : area[i][p] = Commits[job[i].sha][p]
          /\ job[i].digest = Part(area[i], job[i].staged)
          /\ area[i] \in Trees /\ job[i] \in Jobs
      BY KeptIs DEF JobOK
    <2>2. Commits[job[i].sha] \in Trees  BY <2>1, CommitIs DEF Jobs
    <2>3. /\ DOMAIN job[i].digest = job[i].staged
          /\ \A p \in job[i].staged : job[i].digest[p] = area[i][p]
      BY <2>1, PartIs
    <2>4. Commits[job[i].sha] = [p \in DOMAIN Commits[job[i].sha] |-> Commits[job[i].sha][p]]
      BY <2>2, TreeIs
    <2> DEFINE c == Commits[job[i].sha]
    <2> DEFINE d == job[i].digest
    <2>5. DOMAIN c \subseteq DOMAIN d /\ \A p \in DOMAIN c : c[p] = d[p]  BY <2>1, <2>3
    <2>6. c = [p \in DOMAIN c |-> c[p]]  BY <2>4
    <2> HIDE DEF c, d
    <2>7. c = Part(d, DOMAIN c)  BY <2>5, <2>6 DEF Part
    <2> QED  BY <2>5, <2>7 DEF c, d
  <1> QED  BY <1>1, CliInvariant, PTL

(* Exit 0 is earned by every command: fetched at its pin, vetted as hashed,
   decided below --fail-on, every file written (main.py:288-292, 409-439,
   513-564). *)
THEOREM ZeroIsEarnedHolds == CSpec => []ZeroIsEarned
  <1>1. IInv => ZeroIsEarned
    <2> SUFFICES ASSUME IInv, NEW i \in Invocations, Exited(i, 0)
                 PROVE  /\ job[i].digest # NoTree /\ request[i].pin \in {NoTree, job[i].digest}
                        /\ Cmd(i) \notin {"manifest", "verify"} => seen[i] = job[i].digest
                        /\ (Cmd(i) \in {"scan", "ingest"} /\ request[i].failOn # "none") =>
                              DecisionRank[decided[i]] < DecisionRank[request[i].failOn]
                        /\ \A n \in Range(request[i].writes) : <<i, n>> \in wrote
      BY DEF ZeroIsEarned
    <2>1. code[i] = 0 /\ Command(i) /\ WritesOK(i)  BY KeptIs DEF Exited
    <2> QED  BY <2>1 DEF Command, CommandOK, WritesOK, Cmd
  <1> QED  BY <1>1, CliInvariant, PTL

-----------------------------------------------------------------------------
(* where the envelopes come from *)

Late == {"cleanup", "open", "write", "ended"}

(* What the commands that sign have vetted and got past signing. *)
Vetted == {<<seen[j], decided[j]>> : j \in {k \in Invocations : Cmd(k) \in Signing /\ phase[k] \in Late}}

(* An envelope that holds under the key of one of the requests R states
   something vetted. *)
Genuine(e, V, R) ==
    (\E i \in Invocations : SignatureHolds(e, R[i].signer)) =>
        e.payload.form = "vetting" /\ <<e.payload.subject, e.payload.att.decision>> \in V

NoEnvelope == {Missing, Empty, Garbled}

(* A command holds an envelope that verify has read, or that it is to write. *)
Holds(ph, c, cmd) ==
    \/ cmd = "verify" /\ ph \in {"args", "workspace", "fetch", "verify"}
    \/ cmd \in Signing /\ ph \in {"cleanup", "open", "write"} /\ c = Running

(* What is known of phase ph, code c, decision d, envelope e and job s of one of
   the requests R, when V has been vetted. *)
TracedOK(ph, c, d, e, s, cmd, V, R) ==
    /\ Holds(ph, c, cmd) => Genuine(e, V, R)
    /\ cmd = "verify" /\ c = 0 => <<s.digest, d>> \in V

Traced(i) == TracedOK(phase[i], code[i], decided[i], env[i], job[i], Cmd(i), Vetted, request)

PInv ==
    /\ IInv
    /\ \A n \in Files : file[n] \in NoEnvelope \/ Genuine(file[n], Vetted, request)
    /\ \A i \in Invocations : Traced(i)

LEMMA GenuineGrows ==
    ASSUME NEW e, NEW V, NEW R, NEW W, V \subseteq W, Genuine(e, V, R)
    PROVE  Genuine(e, W, R)
  BY DEF Genuine

LEMMA TracedGrows ==
    ASSUME NEW ph, NEW c, NEW d, NEW e, NEW s, NEW cmd, NEW V, NEW R, NEW W, V \subseteq W,
           TracedOK(ph, c, d, e, s, cmd, V, R)
    PROVE  TracedOK(ph, c, d, e, s, cmd, W, R)
  BY GenuineGrows DEF TracedOK

(* What is vetted stays so, if command i does not take it back. *)
LEMMA VettedGrows ==
    ASSUME IInv, NEW i \in Invocations, Moved(i),
           (Cmd(i) \in Signing /\ phase[i] \in Late) =>
               phase'[i] \in Late /\ seen'[i] = seen[i] /\ decided'[i] = decided[i]
    PROVE  Vetted \subseteq Vetted'
  <1> SUFFICES ASSUME NEW j \in Invocations, Cmd(j) \in Signing, phase[j] \in Late
               PROVE  <<seen[j], decided[j]>> \in Vetted'
    BY DEF Vetted
  <1>1. request' = request  BY DEF Moved, World
  <1>2. phase'[j] \in Late /\ seen'[j] = seen[j] /\ decided'[j] = decided[j]
    <2>1. CASE j = i  BY <2>1
    <2>2. CASE j # i  BY <2>2 DEF Moved, IInv, CliTypeOK
    <2> QED  BY <2>1, <2>2
  <1> QED  BY <1>1, <1>2 DEF Vetted, Cmd

(* What one step of command i may do to the envelopes. *)
Handed(i) ==
    /\ Vetted \subseteq Vetted'
    /\ \A n \in Files : \/ file'[n] \in NoEnvelope \cup {file[n]}
                        \/ phase[i] = "write" /\ file'[n] = env[i]
    /\ Traced(i)'

LEMMA HandedOK ==
    ASSUME PInv, NEW i \in Invocations, Moved(i), Handed(i)
    PROVE  PInv'
  <1>1. IInv'  BY MovedOK DEF PInv
  <1>2. request' = request /\ Vetted \subseteq Vetted'  BY DEF Moved, World, Handed
  <1>3. phase[i] = "write" => Genuine(env[i], Vetted, request)
    BY KeptIs DEF PInv, Traced, TracedOK, Holds, Command, CommandOK, Cmd
  <1>4. ASSUME NEW n \in Files
        PROVE  file'[n] \in NoEnvelope \/ Genuine(file'[n], Vetted', request')
    <2>1. CASE file'[n] \in NoEnvelope  BY <2>1
    <2>2. CASE file'[n] \notin NoEnvelope
      <3>1. Genuine(file'[n], Vetted, request)  BY <1>3, <2>2 DEF Handed, PInv
      <3>2. Genuine(file'[n], Vetted', request)  BY <1>2, <3>1, GenuineGrows
      <3> QED  BY <1>2, <3>2
    <2> QED  BY <2>1, <2>2
  <1>5. ASSUME NEW j \in Invocations
        PROVE  Traced(j)'
    <2>1. CASE j = i  BY <2>1 DEF Handed
    <2>2. CASE j # i
      <3>1. /\ job'[j] = job[j] /\ phase'[j] = phase[j] /\ code'[j] = code[j]
            /\ decided'[j] = decided[j] /\ env'[j] = env[j] /\ Cmd(j)' = Cmd(j)
        BY <1>2, <2>2 DEF PInv, IInv, CliTypeOK, FTypeOK, Moved, Cmd
      <3>2. TracedOK(phase[j], code[j], decided[j], env[j], job[j], Cmd(j), Vetted, request)
        BY DEF PInv, Traced
      <3>3. TracedOK(phase[j], code[j], decided[j], env[j], job[j], Cmd(j), Vetted', request)
        BY <1>2, <3>2, TracedGrows
      <3> QED  BY <1>2, <3>1, <3>3 DEF Traced
    <2> QED  BY <2>1, <2>2
  <1>6. \A n \in Files : (file[n] \in NoEnvelope \/ Genuine(file[n], Vetted, request))'
    BY <1>4 DEF NoEnvelope
  <1> QED  BY <1>1, <1>5, <1>6 DEF PInv

(* A step that neither gets an envelope nor accepts one. *)
LEMMA CarriedOK ==
    ASSUME PInv, NEW i \in Invocations, Moved(i),
           \/ file' = file
           \/ \E n \in Files, c \in NoEnvelope : file' = [file EXCEPT ![n] = c],
           Cmd(i) \in Signing /\ phase[i] \in Late =>
               phase'[i] \in Late /\ seen'[i] = seen[i] /\ decided'[i] = decided[i],
           Holds(phase'[i], code'[i], Cmd(i)) =>
               Holds(phase[i], code[i], Cmd(i)) /\ env'[i] = env[i],
           (Cmd(i) = "verify" /\ code'[i] = 0) =>
               code[i] = 0 /\ job'[i].digest = job[i].digest /\ decided'[i] = decided[i]
    PROVE  Handed(i)
  <1>1. Vetted \subseteq Vetted'  BY VettedGrows DEF PInv
  <1>2. \A n \in Files : file'[n] \in NoEnvelope \cup {file[n]}
    BY DEF PInv, IInv, CliTypeOK
  <1>3. request' = request /\ Cmd(i)' = Cmd(i)  BY DEF Moved, World, Cmd
  <1>4. TracedOK(phase[i], code[i], decided[i], env[i], job[i], Cmd(i), Vetted, request)
    BY DEF PInv, Traced
  <1>5. TracedOK(phase[i], code[i], decided[i], env[i], job[i], Cmd(i), Vetted', request)
    BY <1>1, <1>4, TracedGrows
  <1>6. TracedOK(phase'[i], code'[i], decided'[i], env'[i], job'[i], Cmd(i), Vetted', request)
    BY <1>5 DEF TracedOK
  <1> QED  BY <1>1, <1>2, <1>3, <1>6 DEF Handed, Traced

(* The steps that only carry an envelope from one phase to the next. *)
LEMMA BeforeScanHanded ==
    ASSUME PInv, NEW i \in Invocations, Moved(i),
           Arguments(i) \/ Workspace(i) \/ Fetching(i) \/ Fetched(i)
    PROVE  Handed(i)
  <1>1. /\ file' = file /\ env'[i] = env[i] /\ decided'[i] = decided[i]
    BY DEF Arguments, Workspace, Fetching, Fetched, Kept, locals
  <1>2. Command(i)  BY KeptIs DEF PInv
  <1>3. /\ phase[i] \in {"args", "workspace", "fetch"}
        /\ \/ phase'[i] \in {"workspace", "fetch", "scan"} /\ code'[i] = code[i]
           \/ phase'[i] = "verify" /\ Cmd(i) = "verify" /\ code'[i] = code[i]
           \/ phase'[i] = "print" /\ code'[i] = code[i]
           \/ phase'[i] \in {"cleanup", "ended"} /\ code'[i] \in {1, 2}
    <2>1. phase \in [Invocations -> Phases] /\ code \in [Invocations -> Running .. 3]
      BY DEF PInv, IInv, CliTypeOK
    <2>2. CASE Arguments(i)  BY <2>1, <2>2 DEF Arguments, Go, Leave, Code
    <2>3. CASE Workspace(i)  BY <2>1, <2>3 DEF Workspace, Go, Leave, Code, Traceback
    <2>4. CASE Fetching(i)  BY <2>1, <2>4 DEF Fetching, locals
    <2>5. CASE Fetched(i)  BY <2>1, <2>5 DEF Fetched, Go, Leave, Code, Traceback
    <2> QED  BY <2>2, <2>3, <2>4, <2>5
  <1>4. code[i] = -1  BY <1>2, <1>3 DEF Command, CommandOK, Running
  <1>5. ~ (Cmd(i) \in Signing /\ phase[i] \in Late)  BY <1>3 DEF Late
  <1>6. Holds(phase'[i], code'[i], Cmd(i)) => Holds(phase[i], code[i], Cmd(i))
    BY <1>3, <1>4 DEF Holds, Signing, Running
  <1>7. code'[i] # 0  BY <1>3, <1>4
  <1> QED  BY <1>1, <1>5, <1>6, <1>7, CarriedOK

LEMMA ScanHanded ==
    ASSUME PInv, NEW i \in Invocations, Moved(i), Scan(i)
    PROVE  Handed(i)
  <1>1. file' = file /\ phase[i] = "scan"  BY DEF Scan, Go, Leave
  <1>2. Command(i)  BY KeptIs DEF PInv
  <1>3. code[i] = -1 /\ Cmd(i) # "verify"
    BY <1>1, <1>2 DEF Command, CommandOK, Running, Cmd
  <1>4. phase'[i] \in {"sign", "print"} \/ (phase'[i] = "cleanup" /\ code'[i] = 2)
    BY DEF Scan, Go, Leave, Code, PInv, IInv, CliTypeOK
  <1>5. ~ Holds(phase'[i], code'[i], Cmd(i))  BY <1>3, <1>4 DEF Holds, Running
  <1>6. ~ (Cmd(i) \in Signing /\ phase[i] \in Late)  BY <1>1 DEF Late
  <1> QED  BY <1>1, <1>3, <1>5, <1>6, CarriedOK

LEMMA ReportHanded ==
    ASSUME PInv, NEW i \in Invocations, Moved(i), Report(i)
    PROVE  Handed(i)
  <1>1. /\ file' = file /\ job' = job /\ decided' = decided /\ phase[i] = "print"
    BY DEF Report, Go, Leave, Kept, fvars
  <1>2. Command(i)  BY KeptIs DEF PInv
  <1>3. Cmd(i) \notin Signing  BY <1>1, <1>2 DEF Command, CommandOK, Cmd
  <1>4. phase'[i] \in {"ended", "cleanup"} /\ code'[i] \in {Earned(i), 1}
    BY DEF Report, Go, Leave, Code, PInv, IInv, CliTypeOK, Traceback
  <1>5. Cmd(i) = "verify" /\ code'[i] = 0 => code[i] = 0  BY <1>4 DEF Earned
  <1>6. ~ Holds(phase'[i], code'[i], Cmd(i))  BY <1>3, <1>4 DEF Holds
  <1>7. ~ (Cmd(i) \in Signing /\ phase[i] \in Late)  BY <1>1 DEF Late
  <1> QED  BY <1>1, <1>5, <1>6, <1>7, CarriedOK

LEMMA CleanupHanded ==
    ASSUME PInv, NEW i \in Invocations, Moved(i), Cleanup(i)
    PROVE  Handed(i)
  <1> DEFINE gone == [NewJob EXCEPT !.at = "removed", !.digest = job[i].digest]
  <1>1. /\ file' = file /\ code' = code /\ decided' = decided /\ seen' = seen /\ env' = env
        /\ phase[i] = "cleanup"
    BY DEF Cleanup, Go
  <1>2. job'[i] = gone  BY DEF Cleanup, PInv, IInv, CliTypeOK, FTypeOK
  <1>3. gone.digest = job[i].digest  BY DEF NewJob
  <1>4. job'[i].digest = job[i].digest  BY <1>2, <1>3
  <1>5. \/ phase'[i] = "open" /\ Cmd(i) \in Signing /\ code[i] = Running
        \/ phase'[i] = "print" /\ Cmd(i) = "verify"
        \/ phase'[i] = "ended"
    BY DEF Cleanup, Go, PInv, IInv, CliTypeOK
  <1>6. Cmd(i) \in Signing => phase'[i] \in Late  BY <1>5 DEF Late, Signing
  <1>7. Holds(phase'[i], code'[i], Cmd(i)) => Holds(phase[i], code[i], Cmd(i))
    BY <1>1, <1>5 DEF Holds
  <1> QED  BY <1>1, <1>4, <1>6, <1>7, CarriedOK

LEMMA OpenOutHanded ==
    ASSUME PInv, NEW i \in Invocations, Moved(i), OpenOut(i)
    PROVE  Handed(i)
  <1>1. /\ UNCHANGED <<fvars, decided, seen, env>> /\ phase[i] = "open"
    BY DEF OpenOut, Go, Leave
  <1>2. Command(i) /\ out[i] \in Seq(Files)  BY KeptIs DEF PInv
  <1>3. code[i] = Running /\ Cmd(i) \in Signing
    BY <1>1, <1>2 DEF Command, CommandOK, Cmd
  <1>4. \/ file' = file
        \/ \E n \in Files, c \in NoEnvelope : file' = [file EXCEPT ![n] = c]
    <2>1. out[i] # <<>> => Head(out[i]) \in Files  BY <1>2
    <2> QED  BY <2>1 DEF OpenOut, NoEnvelope
  <1>5. phase'[i] \in {"write", "ended"}
    BY DEF OpenOut, Go, Leave, PInv, IInv, CliTypeOK
  <1>6. Cmd(i) # "verify" /\ phase'[i] \in Late  BY <1>3, <1>5 DEF Signing, Late
  <1>7. Holds(phase[i], code[i], Cmd(i))  BY <1>1, <1>3 DEF Holds
  <1> QED  BY <1>1, <1>4, <1>6, <1>7, CarriedOK

LEMMA ReadAttestationHanded ==
    ASSUME PInv, NEW i \in Invocations, Moved(i), ReadAttestation(i)
    PROVE  Handed(i)
  <1> DEFINE n == request[i].reads
  <1>1. file' = file /\ phase[i] = "read"  BY DEF ReadAttestation, Go, Leave
  <1>2. Command(i) /\ code[i] = -1 /\ n \in Files
    BY <1>1, KeptIs, RequestIs DEF PInv, IInv, CliTypeOK, Command, CommandOK, Running, Requests
  <1>3. ~ (Cmd(i) \in Signing /\ phase[i] \in Late)  BY <1>1 DEF Late
  <1>4. Vetted \subseteq Vetted'  BY <1>3, VettedGrows DEF PInv
  <1> HIDE DEF n
  <1>5. CASE file[n] \in NoEnvelope
    <2>1. phase'[i] = "ended" /\ code'[i] = 2
      BY <1>5 DEF ReadAttestation, Go, Leave, Code, PInv, IInv, CliTypeOK, NoEnvelope, n
    <2>2. ~ Holds(phase'[i], code'[i], Cmd(i))  BY <2>1 DEF Holds
    <2> QED  BY <1>1, <1>3, <2>1, <2>2, CarriedOK
  <1>6. CASE file[n] \notin NoEnvelope
    <2>1. code'[i] = -1 /\ env'[i] = file[n]
      BY <1>2, <1>6 DEF ReadAttestation, PInv, IInv, CliTypeOK, NoEnvelope, n
    <2>2. Genuine(file[n], Vetted, request)  BY <1>2, <1>6 DEF PInv
    <2>3. Genuine(env'[i], Vetted', request)  BY <1>4, <2>1, <2>2, GenuineGrows
    <2>4. request' = request /\ Cmd(i)' = Cmd(i)  BY DEF Moved, World, Cmd
    <2>5. Traced(i)'  BY <2>1, <2>3, <2>4 DEF Traced, TracedOK
    <2> QED  BY <1>1, <1>4, <2>5 DEF Handed
  <1> QED  BY <1>5, <1>6

LEMMA SignHanded ==
    ASSUME PInv, NEW i \in Invocations, Moved(i), Sign(i)
    PROVE  Handed(i)
  <1>1. /\ file' = file /\ seen' = seen /\ decided' = decided /\ job' = job /\ phase[i] = "sign"
    BY DEF Sign, Go, Leave, fvars
  <1>2. Command(i) /\ IInv  BY KeptIs DEF PInv
  <1>3. /\ code[i] = -1 /\ Cmd(i) \in Signing /\ job[i].at = "fetched"
        /\ seen[i] = job[i].digest /\ decided[i] \in Decisions
    BY <1>1, <1>2 DEF Command, CommandOK, Running, Cmd
  <1>4. ~ (Cmd(i) \in Signing /\ phase[i] \in Late)  BY <1>1 DEF Late
  <1>5. CASE phase' = [phase EXCEPT ![i] = "cleanup"] /\ UNCHANGED code
             /\ env' = [env EXCEPT ![i] = Statement(i)]
    <2>1. Vetted \subseteq Vetted'  BY <1>4, VettedGrows DEF PInv
    <2>2. /\ phase'[i] = "cleanup" /\ code'[i] = -1 /\ env'[i] = Statement(i)
      BY <1>3, <1>5 DEF PInv, IInv, CliTypeOK
    <2>3. request' = request /\ Cmd(i)' = Cmd(i)  BY DEF Moved, World, Cmd
    <2>4. /\ Statement(i).payload.form = "vetting"
          /\ Statement(i).payload.subject = job[i].digest
          /\ Statement(i).payload.att.decision = decided[i]
      BY <1>2, <1>3, OnDiskIs, StatementIs
    <2>5. <<seen[i], decided[i]>> \in Vetted'
      BY <1>1, <1>3, <2>2, <2>3 DEF Vetted, Late, Cmd
    <2>6. Genuine(env'[i], Vetted', request)  BY <1>3, <2>2, <2>4, <2>5 DEF Genuine
    <2>7. Traced(i)'  BY <2>2, <2>3, <2>6 DEF Traced, TracedOK
    <2> QED  BY <1>1, <2>1, <2>7 DEF Handed
  <1>6. CASE phase' = [phase EXCEPT ![i] = "cleanup"] /\ UNCHANGED env
             /\ \E c \in {1, 2} : code' = [code EXCEPT ![i] = c]
    <2>1. phase'[i] = "cleanup" /\ code'[i] \in {1, 2}
      BY <1>6 DEF PInv, IInv, CliTypeOK
    <2>2. ~ Holds(phase'[i], code'[i], Cmd(i))  BY <2>1 DEF Holds, Running
    <2> QED  BY <1>1, <1>4, <2>1, <2>2, CarriedOK
  <1> QED  BY <1>5, <1>6 DEF Sign, Go, Leave, Code, Statement, Traceback

(* An accepted envelope is signed with the verifier's key over a vetting statement
   about the live tree. *)
LEMMA AcceptedIs ==
    ASSUME NEW e, NEW k, NEW live,
           ~ VerifyAttestation(e, k, AnyKeyid, live).raises,
           VerifyAttestation(e, k, AnyKeyid, live).ok
    PROVE  /\ SignatureHolds(e, k) /\ live = {e.payload.subject}
           /\ VerifyAttestation(e, k, AnyKeyid, live).checks.signature
  <1> DEFINE checks == Checks(e, k, AnyKeyid, live)
  <1>1. WellFormed(e) /\ VerifyEnvelope(e, k) # "ValueError" /\ ~ SubjectCrashes(e, k)
    BY DEF VerifyAttestation
  <1>2. VerifyAttestation(e, k, AnyKeyid, live) =
           [raises |-> FALSE, checks |-> checks, ok |-> \A c \in DOMAIN checks : checks[c],
            scheme |-> k.scheme, keyid |-> ReportedKeyid(e, k)]
    BY <1>1 DEF VerifyAttestation
  <1>3. (\A c \in DOMAIN checks : checks[c])
        /\ VerifyAttestation(e, k, AnyKeyid, live).checks = checks
    BY <1>2
  <1>4. "signature" \in DOMAIN checks /\ "digest_rebind" \in DOMAIN checks  BY DEF Checks
  <1>5. checks.signature /\ checks.digest_rebind  BY <1>3, <1>4
  <1>6. VerifyEnvelope(e, k) = "statement" /\ live = {e.payload.subject}  BY <1>5 DEF Checks
  <1>7. SignatureHolds(e, k)  BY <1>6 DEF VerifyEnvelope
  <1> QED  BY <1>3, <1>5, <1>6, <1>7

LEMMA VerifyHanded ==
    ASSUME PInv, NEW i \in Invocations, Moved(i), Verify(i)
    PROVE  Handed(i)
  <1>1. file' = file /\ job' = job /\ phase[i] = "verify"  BY DEF Verify, fvars
  <1>2. Command(i) /\ IInv  BY KeptIs DEF PInv
  <1>3. Cmd(i) = "verify" /\ job[i].at = "fetched"
    BY <1>1, <1>2 DEF Command, CommandOK, Cmd
  <1>4. ~ (Cmd(i) \in Signing /\ phase[i] \in Late)  BY <1>1 DEF Late
  <1>5. OnDisk(i) = job[i].digest  BY <1>2, <1>3, OnDiskIs
  <1>6. phase'[i] = "cleanup"  BY DEF Verify, Leave, Go, PInv, IInv, CliTypeOK
  <1>7. ~ Holds(phase'[i], code'[i], Cmd(i))  BY <1>3, <1>6 DEF Holds, Signing
  <1>8. CASE code'[i] # 0  BY <1>1, <1>4, <1>7, <1>8, CarriedOK
  <1>9. CASE code'[i] = 0
    <2>1. PICK live \in {{OnDisk(i)}} \cup (IF "rehash" \in CliFaults THEN {{}} ELSE {}) :
             LET v == VerifyAttestation(env[i], request[i].signer, AnyKeyid, live) IN
             \/ /\ Leave(i, "verify", "cleanup", VerifyCode(i, v))
                /\ decided' = [decided EXCEPT ![i] =
                      IF ~ v.raises /\ v.checks.signature THEN env[i].payload.att.decision
                                                          ELSE "none"]
             \/ Leave(i, "verify", "cleanup", 3) \/ Leave(i, "verify", "cleanup", Traceback)
      BY DEF Verify
    <2> DEFINE v == VerifyAttestation(env[i], request[i].signer, AnyKeyid, live)
    <2>2. ~ Leave(i, "verify", "cleanup", 3) /\ ~ Leave(i, "verify", "cleanup", Traceback)
      BY <1>9 DEF Leave, Code, PInv, IInv, CliTypeOK, Traceback
    <2>3. /\ Leave(i, "verify", "cleanup", VerifyCode(i, v))
          /\ decided' = [decided EXCEPT ![i] =
                IF ~ v.raises /\ v.checks.signature THEN env[i].payload.att.decision ELSE "none"]
      BY <2>1, <2>2
    <2> HIDE DEF v
    <2>4. 0 = VerifyCode(i, v)
      BY <1>9, <2>3 DEF Leave, Code, PInv, IInv, CliTypeOK
    <2>5. ~ v.raises /\ v.ok  BY <2>4 DEF VerifyCode, Traceback
    <2>6. /\ SignatureHolds(env[i], request[i].signer) /\ live = {env[i].payload.subject}
          /\ v.checks.signature
      BY <2>5, AcceptedIs DEF v
    <2>7. decided'[i] = env[i].payload.att.decision
      BY <2>3, <2>5, <2>6 DEF PInv, IInv, CliTypeOK
    <2>8. env[i].payload.subject = job[i].digest  BY <1>5, <2>1, <2>6
    <2>9. Genuine(env[i], Vetted, request)
      BY <1>1, <1>3 DEF PInv, Traced, TracedOK, Holds
    <2>10. <<job[i].digest, decided'[i]>> \in Vetted  BY <2>6, <2>7, <2>8, <2>9 DEF Genuine
    <2>11. Vetted \subseteq Vetted'  BY <1>4, VettedGrows DEF PInv
    <2>12. request' = request /\ Cmd(i)' = Cmd(i)  BY DEF Moved, World, Cmd
    <2>13. Traced(i)'  BY <1>1, <1>7, <2>10, <2>11, <2>12 DEF Traced, TracedOK
    <2> QED  BY <1>1, <2>11, <2>13 DEF Handed
  <1> QED  BY <1>8, <1>9

LEMMA WriteOutHanded ==
    ASSUME PInv, NEW i \in Invocations, Moved(i), WriteOut(i)
    PROVE  Handed(i)
  <1> DEFINE n == Head(out[i])
  <1>1. UNCHANGED <<fvars, decided, seen, env>> /\ phase[i] = "write"
    BY DEF WriteOut, Go, Leave
  <1>2. Command(i)  BY KeptIs DEF PInv
  <1>3. code[i] = -1 /\ Cmd(i) \in Signing  BY <1>1, <1>2 DEF Command, CommandOK, Running, Cmd
  <1>4. /\ phase'[i] \in {"open", "ended"}
        /\ \A m \in Files : file'[m] \in {file[m], env[i], Garbled}
    BY DEF WriteOut, Go, Leave, PInv, IInv, CliTypeOK
  <1>5. Vetted \subseteq Vetted'  BY <1>1, <1>4, VettedGrows DEF PInv, Late
  <1>6. request' = request /\ Cmd(i)' = Cmd(i) /\ env'[i] = env[i]
    BY <1>1 DEF Moved, World, Cmd
  <1>7. Genuine(env[i], Vetted, request)
    BY <1>1, <1>3 DEF PInv, Traced, TracedOK, Holds, Running
  <1>8. Genuine(env[i], Vetted', request)  BY <1>5, <1>7, GenuineGrows
  <1>9. Cmd(i) # "verify"  BY <1>3 DEF Signing
  <1>10. Traced(i)'  BY <1>6, <1>8, <1>9 DEF Traced, TracedOK
  <1> QED  BY <1>1, <1>4, <1>5, <1>10 DEF Handed, NoEnvelope

LEMMA CliStepHanded ==
    ASSUME PInv, NEW i \in Invocations, CliStep(i)
    PROVE  Moved(i) /\ Handed(i)
  <1>1. Moved(i)  BY CliStepOK DEF PInv
  <1>2. Handed(i)
    BY <1>1, ReadAttestationHanded, BeforeScanHanded, ScanHanded, SignHanded, VerifyHanded,
       ReportHanded, CleanupHanded, OpenOutHanded, WriteOutHanded
    DEF CliStep
  <1> QED  BY <1>1, <1>2

LEMMA StillOK ==
    ASSUME PInv, IInv', UNCHANGED <<request, job, locals, file>>
    PROVE  PInv'
  <1>1. Vetted' = Vetted /\ \A i \in Invocations : Cmd(i)' = Cmd(i)
    BY DEF Vetted, locals, Cmd
  <1>2. \A i \in Invocations : Traced(i)'  BY <1>1 DEF PInv, Traced, locals
  <1>3. \A n \in Files : (file[n] \in NoEnvelope \/ Genuine(file[n], Vetted, request))'
    BY <1>1 DEF PInv, NoEnvelope
  <1> QED  BY <1>2, <1>3 DEF PInv

LEMMA PInitOK ==
    ASSUME CInit
    PROVE  PInv
  <1>1. PICK s \in Starts : request = s.request /\ file = s.file  BY DEF CInit
  <1>2. ASSUME NEW n \in Files
        PROVE  file[n] \in NoEnvelope \/ Genuine(file[n], Vetted, request)
    BY <1>1, ForgeryAssumption DEF NoEnvelope, Genuine
  <1>3. ASSUME NEW i \in Invocations
        PROVE  Traced(i)
    <2>1. /\ phase[i] = (IF Cmd(i) = "verify" THEN "read" ELSE "args") /\ code[i] = -1
      BY DEF CInit, Cmd, Running
    <2>2. ~ Holds(phase[i], code[i], Cmd(i))  BY <2>1 DEF Holds
    <2> QED  BY <2>1, <2>2 DEF Traced, TracedOK
  <1> QED  BY <1>2, <1>3, CInitOK DEF PInv

(* The second half of the inductive invariant: an envelope under a signer's key,
   in a file or in a command's hands, states something vetted. *)
THEOREM ProvenanceInvariant == CSpec => []PInv
  <1>1. CInit => PInv  BY PInitOK
  <1>2. PInv /\ IInv' /\ [CNext]_cvars => PInv'
    <2> SUFFICES ASSUME PInv, IInv', [CNext]_cvars PROVE PInv'  OBVIOUS
    <2>1. CASE \E i \in Invocations : CliStep(i)  BY <2>1, CliStepHanded, HandedOK
    <2>2. CASE Around
      <3>1. UNCHANGED <<request, job, locals, file>>
        BY <2>2 DEF Around, EditLocal, PushToHub
      <3> QED  BY <3>1, StillOK
    <2>3. CASE UNCHANGED cvars
      <3>1. UNCHANGED <<request, job, locals, file>>  BY <2>3 DEF cvars, fvars
      <3> QED  BY <3>1, StillOK
    <2> QED  BY <2>1, <2>2, <2>3 DEF CNext, CEnded
  <1> QED  BY <1>1, <1>2, CliInvariant, PTL DEF CSpec

(* Whatever verify accepts was vetted: the gates of some command that signs read
   exactly the bytes verify fetched, and decided what verify reports, however
   files are rewritten and whatever lies in them at first (verify.py:1-18,
   main.py:567-621). *)
THEOREM AcceptedWasScannedHolds == CSpec => []AcceptedWasScanned
  <1>1. PInv => AcceptedWasScanned
    <2> SUFFICES ASSUME PInv, NEW i \in Invocations, Cmd(i) = "verify", Exited(i, 0)
                 PROVE  \E j \in Invocations :
                            Cmd(j) \in Signing /\ seen[j] = job[i].digest /\ decided[j] = decided[i]
      BY DEF AcceptedWasScanned
    <2>1. <<job[i].digest, decided[i]>> \in Vetted  BY DEF PInv, Traced, TracedOK, Exited
    <2> QED  BY <2>1 DEF Vetted
  <1> QED  BY <1>1, ProvenanceInvariant, PTL
=============================================================================
