------------------------------- MODULE Fetch -------------------------------
(***************************************************************************)
(* Fetching an artifact into quarantine: LocalSource.fetch                  *)
(* (sources/local.py), HuggingFaceSource.fetch (sources/huggingface.py) and *)
(* the guards they share (storage/quarantine.py).  Several fetches run at   *)
(* once; the local tree is edited and the branch of the hub moves while     *)
(* they do.                                                                *)
(*                                                                         *)
(* A tree is a function from paths to contents, a digest the tree it is the *)
(* hash of.  The local tree is one flat directory, listed at once by        *)
(* os.walk; Link is a symbolic link, and no edit makes one.                 *)
(***************************************************************************)
EXTENDS Integers, FiniteSets, Functions

CONSTANTS
    Invocations,    \* one fetch each, into a quarantine of its own
    Starts,         \* what there is at first: [request, source, head], where a
                    \* request has a scheme and a pin at least
    Paths,          \* relative paths of an artifact's files
    Cache,          \* the hub library's top-level .cache
    Contents, Size, \* file contents and how many bytes they have
    Link,           \* a directory entry that is a symbolic link
    NoTree,         \* no digest, no pin
    Commits,        \* Commits[c]: the tree of the hub's commit c
    MaxFileBytes, MaxTotalBytes, MaxFiles,    \* QuarantineLimits
    MaxEdits,       \* bound: edits of the local tree and pushes to the hub
    FetchFaults     \* of FetchFaultKinds

(* "disk": a file cannot be read or written.  "hub": the hub cannot resolve or
   deliver.  "drop", "stray": it delivers fewer files than it declared, or more.
   "unsized": it declares no size for some. *)
FetchFaultKinds == {"disk", "hub", "drop", "stray", "unsized"}

ASSUME LimitsAssumption ==
    /\ Size \in [Contents -> Nat]
    /\ MaxFileBytes \in Nat /\ MaxTotalBytes \in Nat /\ MaxFiles \in Nat /\ MaxEdits \in Nat

Trees      == UNION {[F -> Contents] : F \in SUBSET (Paths \cup {Cache})}
LocalTrees == UNION {[F -> Contents \cup {Link}] : F \in SUBSET Paths}

ASSUME TreesAssumption ==
    /\ Contents # {} /\ Link \notin Contents /\ Cache \notin Paths
    /\ NoTree \notin Trees /\ FetchFaults \subseteq FetchFaultKinds
    /\ \A c \in DOMAIN Commits : Commits[c] \in Trees /\ Cache \notin DOMAIN Commits[c]
    /\ \A s \in Starts : /\ DOMAIN s.request = Invocations
                         /\ s.source \in LocalTrees /\ s.head \in DOMAIN Commits

Stages == {"idle", "locate", "measure", "copy", "download", "check", "hash",
           "fetched", "raised", "removed"}
(* DigestMismatchError is a SourceError; requests' exceptions are OSErrors. *)
Errors == {"none", "SourceError", "QuarantineError", "OSError"}

VARIABLES
    request,    \* request[i]: the reference i fetches
    source,     \* the local tree
    head,       \* the commit the hub's branch is at
    edits,
    area,       \* area[d]: the files in quarantine directory d
    job         \* job[i]: the locals of i's fetch()

fvars == <<request, source, head, edits, area, job>>

NewJob ==
    [at |-> "idle", error |-> "none",
     todo |-> {},           \* names listed and not yet placed
     now |-> NoTree,        \* the one path measured and not yet copied
     size |-> 0,            \* what it measured
     total |-> 0,           \* bytes measured so far
     staged |-> {},         \* the files to hash
     sha |-> NoTree,        \* the commit resolved
     digest |-> NoTree,
     changed |-> FALSE]     \* history: a file grew between getsize and copyfile

(* path_for under a root that mkdtemp has just made. *)
Dir(i) == i

NoFiles         == [p \in {} |-> Link]
Over(t, u)      == [p \in DOMAIN t \cup DOMAIN u |-> IF p \in DOMAIN t THEN t[p] ELSE u[p]]
Put(tree, p, c) == Over([q \in {p} |-> c], tree)
Part(tree, F)   == [p \in F |-> tree[p]]
Bytes(tree, F)  == FoldFunctionOnSet(LAMBDA c, n : Size[c] + n, 0, tree, F)

FInit ==
    /\ \E s \in Starts : request = s.request /\ source = s.source /\ head = s.head
    /\ edits = 0
    /\ area = [d \in {Dir(i) : i \in Invocations} |-> NoFiles]
    /\ job = [i \in Invocations |-> NewJob]

Raise(i, e) == job' = [job EXCEPT ![i].at = "raised", ![i].error = e]
MayFail(i, kind, e) == kind \in FetchFaults /\ Raise(i, e)

Reading(i, scheme, stage) == request[i].scheme = scheme /\ job[i].at = stage

World == <<request, source, head, edits>>

(* Within the limits: their count, each size, the sum of the sizes. *)
Fits(sizes, F) ==
    /\ Cardinality(F) <= MaxFiles
    /\ \A p \in F : Size[sizes[p]] <= MaxFileBytes
    /\ Bytes(sizes, F) <= MaxTotalBytes
-----------------------------------------------------------------------------
(* the world, as long as a fetch may still see the difference *)

Awaits(scheme, stages) == \E i \in Invocations : request[i].scheme = scheme /\ job[i].at \in stages

EditLocal ==
    /\ Awaits("local", {"idle", "locate", "measure", "copy"})
    /\ edits < MaxEdits /\ edits' = edits + 1
    /\ \E p \in Paths :
          source' \in {Put(source, p, c) : c \in Contents}
                      \cup {Part(source, DOMAIN source \ {p})}
    /\ UNCHANGED <<request, head, area, job>>

PushToHub ==
    /\ Awaits("huggingface", {"idle", "locate", "download"})
    /\ edits < MaxEdits /\ edits' = edits + 1
    /\ head' \in DOMAIN Commits \ {head}
    /\ UNCHANGED <<request, source, area, job>>
-----------------------------------------------------------------------------
(* LocalSource.fetch *)

(* os.path.exists, allocate, the listing of os.walk.  A missing path and an
   empty directory are both a SourceError. *)
LocateLocal(i) ==
    /\ Reading(i, "local", "locate")
    /\ \/ MayFail(i, "disk", "OSError")
       \/ DOMAIN source = {} /\ Raise(i, "SourceError")
       \/ /\ DOMAIN source # {}
          /\ job' = [job EXCEPT ![i].at = "measure", ![i].todo = DOMAIN source]
    /\ UNCHANGED <<World, area>>

IsLink(p) == p \in DOMAIN source /\ source[p] = Link

(* Mutant: the total is not checked. *)
TooMuchButTotal(i, p) == Size[source[p]] > MaxFileBytes

(* What _place refuses once it has the size. *)
TooMuch(i, p) ==
    \/ Size[source[p]] > MaxFileBytes
    \/ job[i].total + Size[source[p]] > MaxTotalBytes

(* _place up to makedirs: islink, the count, getsize of a file that may be gone,
   the caps. *)
Measure(i) ==
    /\ Reading(i, "local", "measure")
    /\ \E p \in job[i].todo :
          CASE IsLink(p) \/ Cardinality(job[i].staged) + 1 > MaxFiles ->
                    Raise(i, "QuarantineError")
            [] p \notin DOMAIN source -> Raise(i, "OSError")
            [] TooMuch(i, p)          -> Raise(i, "QuarantineError")
            [] OTHER -> job' = [job EXCEPT ![i].at = "copy", ![i].now = p,
                                           ![i].size = Size[source[p]],
                                           ![i].todo = @ \ {p},
                                           ![i].total = @ + Size[source[p]]]
    /\ UNCHANGED <<World, area>>

(* shutil.copyfile of whatever is there now. *)
CopyFile(i) ==
    /\ Reading(i, "local", "copy")
    /\ LET p == job[i].now IN
       \/ /\ p \notin DOMAIN source \/ "disk" \in FetchFaults
          /\ Raise(i, "OSError")
          /\ UNCHANGED area
       \/ /\ p \in DOMAIN source
          /\ area' = [area EXCEPT ![Dir(i)] = Put(@, p, source[p])]
          /\ job' = [job EXCEPT
                ![i].at = IF job[i].todo = {} THEN "hash" ELSE "measure",
                ![i].now = NoTree, ![i].size = 0,
                ![i].staged = @ \cup {p},
                ![i].changed = @ \/ Size[source[p]] > job[i].size]
    /\ UNCHANGED World
-----------------------------------------------------------------------------
(* HuggingFaceSource.fetch *)

(* resolve_commit pins the branch to a commit and lists its files, of unknown
   size (0) where the hub gives none; check_declared_sizes; allocate. *)
Resolve(i) ==
    /\ Reading(i, "huggingface", "locate")
    /\ LET tree == Commits[head] IN
       \/ MayFail(i, "hub", "SourceError")       \* no extra, no commit SHA
       \/ MayFail(i, "hub", "OSError")           \* the library's own exceptions
       \/ DOMAIN tree = {} /\ Raise(i, "SourceError")
       \/ \E sized \in SUBSET DOMAIN tree :
             /\ DOMAIN tree # {} /\ (sized = DOMAIN tree \/ "unsized" \in FetchFaults)
             /\ IF /\ Cardinality(DOMAIN tree) <= MaxFiles
                   /\ \A p \in sized : Size[tree[p]] <= MaxFileBytes
                   /\ Bytes(tree, sized) <= MaxTotalBytes
                THEN job' = [job EXCEPT ![i].at = "download", ![i].sha = head]
                ELSE Raise(i, "QuarantineError")
    /\ UNCHANGED <<World, area>>

AnyContent == CHOOSE c \in Contents : TRUE

(* What snapshot_download leaves: the commit's files, or some of them, or one
   more, and its own .cache. *)
Landings(tree) ==
    LET files == {Part(tree, F) : F \in
                    IF "drop" \in FetchFaults THEN SUBSET DOMAIN tree ELSE {DOMAIN tree}}
        strays == IF "stray" \in FetchFaults
                  THEN {Put(t, p, AnyContent) : t \in files, p \in Paths \ DOMAIN tree}
                  ELSE {}
    IN  {Put(t, Cache, AnyContent) : t \in files \cup strays}

(* Mutant: the branch is downloaded, not the commit it was resolved to. *)
DownloadHead(i) ==
    /\ Reading(i, "huggingface", "download")
    /\ area' \in {[area EXCEPT ![Dir(i)] = Over(t, @)] : t \in Landings(Commits[head])}
    /\ job' = [job EXCEPT ![i].at = "check"]
    /\ UNCHANGED World

Download(i) ==
    /\ Reading(i, "huggingface", "download")
    /\ \/ /\ area' \in {[area EXCEPT ![Dir(i)] = Over(t, @)] : t \in Landings(Commits[job[i].sha])}
          /\ job' = [job EXCEPT ![i].at = "check"]
       \/ MayFail(i, "hub", "OSError") /\ UNCHANGED area
    /\ UNCHANGED World

(* Mutant: the hub's .cache is taken for part of the artifact. *)
ListStagedAll(i) == DOMAIN area[Dir(i)]

(* _list_staged: what landed, without the top-level .cache. *)
ListStaged(i) == DOMAIN area[Dir(i)] \ {Cache}

(* Mutant: the files of the commit are hashed, not what landed. *)
CheckStagedDeclared(i) ==
    /\ Reading(i, "huggingface", "check")
    /\ LET files == DOMAIN Commits[job[i].sha] IN
       CASE ~ (files \subseteq ListStaged(i))     -> Raise(i, "SourceError")
         [] ~ Fits(area[Dir(i)], ListStaged(i)) -> Raise(i, "QuarantineError")
         [] OTHER -> job' = [job EXCEPT ![i].at = "hash", ![i].staged = files]
    /\ UNCHANGED <<World, area>>

(* Nothing landed, something declared is missing, or what landed exceeds the
   limits that the declared sizes kept. *)
CheckStaged(i) ==
    /\ Reading(i, "huggingface", "check")
    /\ LET files == ListStaged(i) IN
       CASE files = {} \/ ~ (DOMAIN Commits[job[i].sha] \subseteq files) ->
                 Raise(i, "SourceError")
         [] ~ Fits(area[Dir(i)], files) -> Raise(i, "QuarantineError")
         [] OTHER -> job' = [job EXCEPT ![i].at = "hash", ![i].staged = files]
    /\ UNCHANGED <<World, area>>
-----------------------------------------------------------------------------
(* hash_tree of the staged files, then the pin. *)
HashAndPin(i) ==
    /\ job[i].at = "hash"
    /\ LET tree == Part(area[Dir(i)], job[i].staged) IN
       \/ MayFail(i, "disk", "OSError")
       \/ IF request[i].pin \notin {NoTree, tree}
          THEN Raise(i, "SourceError")
          ELSE job' = [job EXCEPT ![i].at = "fetched", ![i].digest = tree]
    /\ UNCHANGED <<World, area>>

FetchStep(i) ==
    \/ LocateLocal(i) \/ Measure(i) \/ CopyFile(i)
    \/ Resolve(i) \/ Download(i) \/ CheckStaged(i) \/ HashAndPin(i)
-----------------------------------------------------------------------------
Jobs == [at : Stages, error : Errors, todo : SUBSET Paths, now : Paths \cup {NoTree},
         size : Nat, total : Nat, staged : SUBSET Paths, sha : DOMAIN Commits \cup {NoTree},
         digest : Trees \cup {NoTree}, changed : BOOLEAN]

FTypeOK ==
    /\ request \in {s.request : s \in Starts}
    /\ source \in LocalTrees
    /\ head \in DOMAIN Commits
    /\ edits \in 0 .. MaxEdits
    /\ area \in [{Dir(i) : i \in Invocations} -> Trees]
    /\ job \in [Invocations -> Jobs]

(* The digest that gates, attestation and pin are about covers everything in the
   quarantine directory but the hub's .cache: nothing lies there unhashed, from
   this fetch or another, and nothing hashed changes while the directory stands
   (huggingface.py:144-154, local.py:55-65). *)
ArtifactIsWhole ==
    \A i \in Invocations : job[i].at = "fetched" =>
        /\ job[i].digest = Part(area[Dir(i)], DOMAIN area[Dir(i)] \ {Cache})
        /\ request[i].pin \in {NoTree, job[i].digest}

(* The quarantine never holds more than its limits: a local copy at any moment,
   a download once it is accepted, whatever sizes the hub declared.  The copy is
   the size that was measured unless the file grew in between, which nothing
   checks again (quarantine.py:143-164, huggingface.py:130-154). *)
WithinLimits ==
    \A i \in Invocations :
        \/ request[i].scheme = "local" /\ job[i].changed
        \/ request[i].scheme = "huggingface" /\ job[i].at # "fetched"
        \/ Fits(area[Dir(i)], DOMAIN area[Dir(i)] \ {Cache})

(* A hub artifact is the commit it names: every file of the commit, with the
   commit's bytes, although the branch moves during the fetch
   (huggingface.py:125-151). *)
CommitIsWhole ==
    \A i \in Invocations :
        (job[i].at = "fetched" /\ job[i].sha # NoTree) =>
            LET tree == Commits[job[i].sha] IN
            /\ DOMAIN tree \subseteq DOMAIN job[i].digest
            /\ tree = Part(job[i].digest, DOMAIN tree)
=============================================================================
