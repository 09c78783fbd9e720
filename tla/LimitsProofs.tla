---------------------------- MODULE LimitsProofs ----------------------------
(***************************************************************************)
(* The caps of the quarantine (WithinLimits of Fetch) hold for any sizes,   *)
(* limits, commands and faults.  First what Bytes, the sum that they cap,   *)
(* returns for every finite set of files: its fold is a recursive function  *)
(* on the subsets of the files, and that there is one, and what it returns, *)
(* is shown by a smallest set that would be an exception.  Then the         *)
(* invariant of a copy under way, which adds up what it has measured.       *)
(***************************************************************************)
EXTENDS CliProofs, FiniteSetTheorems, WellFoundedInduction

-----------------------------------------------------------------------------
(* the recursion behind the fold *)

(* Among some subsets of a finite set, one has no other below it. *)
LEMMA SmallestIs ==
    ASSUME NEW F, IsFiniteSet(F), NEW T \in SUBSET (SUBSET F), T # {}
    PROVE  \E S \in T : \A R \in T : R \subseteq S => R = S
  <1>1. IsWellFoundedOn(StrictSubsetOrdering(F), FiniteSubsetsOf(F))
    BY FS_StrictSubsetOrderingWellFounded
  <1>2. T \subseteq FiniteSubsetsOf(F)  BY FS_FiniteSubsetsOfFinite
  <1>3. PICK S \in T : \A R \in T : ~ (<<R, S>> \in StrictSubsetOrdering(F))
    BY <1>1, <1>2, WFMin
  <1> QED  BY <1>3 DEF StrictSubsetOrdering

Some(s)      == CHOOSE p \in s : TRUE
Plus(c, n)   == Size[c] + n
Rest(s)      == s \ {Some(s)}
Sum(t, f, s) == IF s = {} THEN 0 ELSE Plus(t[Some(s)], f[Rest(s)])

(* f sums the sizes of t over every subset of F. *)
Solves(t, F, f) == f = [s \in SUBSET F |-> Sum(t, f, s)]
Solution(t, F)  == CHOOSE f : Solves(t, F, f)

LEMMA BytesIsSolution ==
    ASSUME NEW t, NEW F
    PROVE  Bytes(t, F) = Solution(t, F)[F]
  BY DEF Bytes, FoldFunctionOnSet, MapThenFoldSet, Solution, Solves, Sum, Plus, Some, Rest

LEMMA RestIs ==
    ASSUME NEW s, s # {}
    PROVE  Some(s) \in s /\ Rest(s) \subseteq s /\ Rest(s) # s
  BY DEF Some, Rest

LEMMA SolvesIs ==
    ASSUME NEW t, NEW F, NEW f, Solves(t, F, f), NEW s \in SUBSET F
    PROVE  /\ s = {} => f[s] = 0
           /\ s # {} => f[s] = Plus(t[Some(s)], f[Rest(s)])
  <1>1. f[s] = Sum(t, f, s)  BY DEF Solves
  <1> QED  BY <1>1 DEF Sum

(* Two solutions agree where both are defined, and on trees that agree there. *)
LEMMA SolutionsAgree ==
    ASSUME NEW t, NEW u, NEW F, NEW G, NEW f, NEW g, Solves(t, F, f), Solves(u, G, g),
           NEW S \in SUBSET F, S \subseteq G, IsFiniteSet(S),
           \A p \in S : t[p] = u[p]
    PROVE  f[S] = g[S]
  <1> DEFINE T == {s \in SUBSET S : f[s] # g[s]}
  <1>0. T \in SUBSET (SUBSET S) /\ \A s \in SUBSET S : s \in T <=> f[s] # g[s]  OBVIOUS
  <1> HIDE DEF T
  <1> SUFFICES ASSUME T # {} PROVE FALSE  BY <1>0
  <1>1. PICK s \in T : \A r \in T : r \subseteq s => r = s  BY <1>0, SmallestIs
  <1>2. s \in SUBSET F /\ s \in SUBSET G /\ s \in SUBSET S /\ f[s] # g[s]  BY <1>0
  <1>3. s # {}  BY <1>2, SolvesIs
  <1>4. /\ f[s] = Plus(t[Some(s)], f[Rest(s)])
        /\ g[s] = Plus(u[Some(s)], g[Rest(s)])
    BY <1>2, <1>3, SolvesIs
  <1>5. Some(s) \in s /\ Rest(s) \subseteq s /\ Rest(s) # s  BY <1>3, RestIs
  <1>6. Rest(s) \notin T  BY <1>1, <1>5
  <1>7. f[Rest(s)] = g[Rest(s)]  BY <1>0, <1>2, <1>5, <1>6
  <1>8. t[Some(s)] = u[Some(s)]  BY <1>2, <1>5
  <1> QED  BY <1>2, <1>4, <1>7, <1>8

(* There is a solution for every finite set of files. *)
LEMMA SolutionExists ==
    ASSUME NEW t, NEW F, IsFiniteSet(F)
    PROVE  Solves(t, F, Solution(t, F))
  <1> DEFINE Bad == {S \in SUBSET F : ~ \E f : Solves(t, S, f)}
  <1>0. /\ Bad \in SUBSET (SUBSET F)
        /\ \A S \in SUBSET F : S \in Bad <=> ~ \E f : Solves(t, S, f)
    OBVIOUS
  <1> HIDE DEF Bad
  <1>1. ASSUME Bad # {} PROVE FALSE
    <2>1. PICK S \in Bad : \A R \in Bad : R \subseteq S => R = S
      BY <1>0, <1>1, SmallestIs
    <2>2. S \in SUBSET F /\ ~ \E f : Solves(t, S, f)  BY <1>0
    <2>3. \A R \in SUBSET S : R # S => Solves(t, R, Solution(t, R))
      BY <1>0, <2>1, <2>2 DEF Solution
    <2> DEFINE h == [s \in SUBSET S |->
                        IF s = {} THEN 0
                        ELSE Plus(t[Some(s)], Solution(t, Rest(s))[Rest(s)])]
    <2>4. ASSUME NEW s \in SUBSET S PROVE h[s] = Sum(t, h, s)
      <3>1. CASE s = {}  BY <3>1 DEF Sum
      <3>2. CASE s # {}
        <4> DEFINE r == Rest(s)
        <4>1. r \in SUBSET S /\ r # S /\ h[s] = Plus(t[Some(s)], Solution(t, r)[r])
          BY <3>2, RestIs
        <4>2. Solves(t, r, Solution(t, r))  BY <2>3, <4>1
        <4>3. h[r] = Solution(t, r)[r]
          <5>1. CASE r = {}  BY <4>1, <4>2, <5>1, SolvesIs
          <5>2. CASE r # {}
            <6>1. Rest(r) \subseteq r /\ Rest(r) # r  BY <5>2, RestIs
            <6>2. Solves(t, Rest(r), Solution(t, Rest(r)))  BY <2>3, <4>1, <6>1
            <6>3. IsFiniteSet(Rest(r))  BY <2>2, <4>1, <6>1, FS_Subset
            <6>4. Solution(t, r)[Rest(r)] = Solution(t, Rest(r))[Rest(r)]
              BY <4>2, <6>1, <6>2, <6>3, SolutionsAgree
            <6>5. Solution(t, r)[r] = Plus(t[Some(r)], Solution(t, r)[Rest(r)])
              BY <4>2, <5>2, SolvesIs
            <6>6. h[r] = Plus(t[Some(r)], Solution(t, Rest(r))[Rest(r)])
              BY <4>1, <5>2
            <6> QED  BY <6>4, <6>5, <6>6
          <5> QED  BY <5>1, <5>2
        <4> QED  BY <3>2, <4>1, <4>3 DEF Sum
      <3> QED  BY <3>1, <3>2
    <2>5. Solves(t, S, h)
      <3>1. h = [s \in SUBSET S |-> h[s]]  OBVIOUS
      <3> HIDE DEF h
      <3> QED  BY <2>4, <3>1 DEF Solves
    <2> QED  BY <2>2, <2>5
  <1>2. \E f : Solves(t, F, f)  BY <1>0, <1>1
  <1> QED  BY <1>2 DEF Solution

-----------------------------------------------------------------------------
(* Bytes *)

LEMMA BytesAgree ==
    ASSUME NEW t, NEW u, NEW F, IsFiniteSet(F), \A p \in F : t[p] = u[p]
    PROVE  Bytes(t, F) = Bytes(u, F)
  <1>1. Solves(t, F, Solution(t, F)) /\ Solves(u, F, Solution(u, F))  BY SolutionExists
  <1> QED  BY <1>1, SolutionsAgree, BytesIsSolution

LEMMA BytesOfRest ==
    ASSUME NEW t, NEW F, IsFiniteSet(F)
    PROVE  /\ F = {} => Bytes(t, F) = 0
           /\ F # {} => Bytes(t, F) = Size[t[Some(F)]] + Bytes(t, Rest(F))
  <1>1. Solves(t, F, Solution(t, F))  BY SolutionExists
  <1>2. CASE F = {}  BY <1>1, <1>2, SolvesIs, BytesIsSolution
  <1>3. CASE F # {}
    <2>1. Rest(F) \subseteq F /\ IsFiniteSet(Rest(F))  BY <1>3, RestIs, FS_Subset
    <2>2. Solves(t, Rest(F), Solution(t, Rest(F)))  BY <2>1, SolutionExists
    <2>3. Solution(t, F)[Rest(F)] = Solution(t, Rest(F))[Rest(F)]
      BY <1>1, <2>1, <2>2, SolutionsAgree
    <2>4. Solution(t, F)[F] = Plus(t[Some(F)], Solution(t, F)[Rest(F)])
      BY <1>1, <1>3, SolvesIs
    <2>5. Bytes(t, F) = Plus(t[Some(F)], Bytes(t, Rest(F)))
      BY <2>3, <2>4, BytesIsSolution
    <2> QED  BY <1>3, <2>5 DEF Plus
  <1> QED  BY <1>2, <1>3

LEMMA BytesType ==
    ASSUME NEW t, NEW F, IsFiniteSet(F), \A p \in F : Size[t[p]] \in Nat
    PROVE  Bytes(t, F) \in Nat
  <1> DEFINE T == {s \in SUBSET F : Bytes(t, s) \notin Nat}
  <1>0. /\ T \in SUBSET (SUBSET F)
        /\ \A s \in SUBSET F : s \in T <=> Bytes(t, s) \notin Nat
    OBVIOUS
  <1> HIDE DEF T
  <1> SUFFICES ASSUME T # {} PROVE FALSE  BY <1>0
  <1>1. PICK s \in T : \A r \in T : r \subseteq s => r = s  BY <1>0, SmallestIs
  <1>2. s \in SUBSET F /\ Bytes(t, s) \notin Nat /\ IsFiniteSet(s)  BY <1>0, FS_Subset
  <1>3. s # {}
    <2>1. s = {} => Bytes(t, s) = 0  BY <1>2, BytesOfRest
    <2> QED  BY <1>2, <2>1
  <1>4. Some(s) \in s /\ Rest(s) \subseteq s /\ Rest(s) # s  BY <1>3, RestIs
  <1>5. Bytes(t, Rest(s)) \in Nat  BY <1>0, <1>1, <1>2, <1>4
  <1>6. Bytes(t, s) = Size[t[Some(s)]] + Bytes(t, Rest(s))  BY <1>2, <1>3, BytesOfRest
  <1>7. Size[t[Some(s)]] \in Nat  BY <1>2, <1>4
  <1> QED  BY <1>2, <1>5, <1>6, <1>7

(* Whatever file is taken out, the rest adds up to what it leaves. *)
LEMMA BytesWithout ==
    ASSUME NEW t, NEW F, IsFiniteSet(F), \A p \in F : Size[t[p]] \in Nat, NEW p \in F
    PROVE  Bytes(t, F) = Size[t[p]] + Bytes(t, F \ {p})
  <1> DEFINE Without(s, q) == Bytes(t, s) = Size[t[q]] + Bytes(t, s \ {q})
  <1> DEFINE T == {s \in SUBSET F : \E q \in s : ~ Without(s, q)}
  <1>0. /\ T \in SUBSET (SUBSET F)
        /\ \A s \in SUBSET F : s \in T <=> \E q \in s : ~ Without(s, q)
    OBVIOUS
  <1> HIDE DEF T
  <1> SUFFICES ASSUME T # {} PROVE FALSE  BY <1>0
  <1>1. PICK s \in T : \A r \in T : r \subseteq s => r = s  BY <1>0, SmallestIs
  <1>2. s \in SUBSET F /\ IsFiniteSet(s)  BY <1>0, FS_Subset
  <1>3. PICK q \in s : ~ Without(s, q)  BY <1>0, <1>2
  <1> DEFINE x == Some(s)
  <1>4. x \in s /\ Rest(s) = s \ {x} /\ Bytes(t, s) = Size[t[x]] + Bytes(t, s \ {x})
    BY <1>2, RestIs, BytesOfRest DEF Rest
  <1>5. q # x  BY <1>3, <1>4
  <1>6. Without(s \ {x}, q) /\ Without(s \ {q}, x)
    <2>1. s \ {x} \notin T /\ s \ {q} \notin T  BY <1>1, <1>4
    <2>2. s \ {x} \in SUBSET F /\ s \ {q} \in SUBSET F /\ q \in s \ {x} /\ x \in s \ {q}
      BY <1>2, <1>4, <1>5
    <2> HIDE DEF Without, x
    <2> QED  BY <1>0, <2>1, <2>2
  <1>7. (s \ {x}) \ {q} = (s \ {q}) \ {x}  OBVIOUS
  <1> DEFINE n == Bytes(t, (s \ {x}) \ {q})
  <1>8. n \in Nat
    <2>1. IsFiniteSet((s \ {x}) \ {q})  BY <1>2, FS_Subset
    <2> QED  BY <1>2, <2>1, BytesType
  <1>9. /\ Bytes(t, s) = Size[t[x]] + (Size[t[q]] + n)
        /\ Bytes(t, s \ {q}) = Size[t[x]] + n
    BY <1>4, <1>6, <1>7
  <1>10. Size[t[x]] \in Nat /\ Size[t[q]] \in Nat  BY <1>2, <1>4
  <1> HIDE DEF n, x
  <1>11. Bytes(t, s) = Size[t[q]] + Bytes(t, s \ {q})  BY <1>8, <1>9, <1>10
  <1> QED  BY <1>3, <1>11

LEMMA SizeIs ==
    ASSUME NEW t \in Trees
    PROVE  \A p \in DOMAIN t : Size[t[p]] \in Nat
  BY TreeIs, LimitsAssumption

LEMMA BytesPut ==
    ASSUME NEW t \in Trees, IsFiniteSet(DOMAIN t), NEW p \in Paths, p \notin DOMAIN t,
           NEW c \in Contents
    PROVE  Bytes(Put(t, p, c), DOMAIN t \cup {p}) = Size[c] + Bytes(t, DOMAIN t)
  <1> DEFINE u == Put(t, p, c)
  <1>1. /\ u \in Trees /\ DOMAIN u = DOMAIN t \cup {p}
        /\ \A q \in DOMAIN t : u[q] = t[q]
    BY PutIs
  <1>2. u[p] = c  BY DEF Put, Over
  <1>3. IsFiniteSet(DOMAIN u)  BY <1>1, FS_AddElement
  <1> HIDE DEF u
  <1>4. Bytes(u, DOMAIN u) = Size[u[p]] + Bytes(u, DOMAIN u \ {p})
    BY <1>1, <1>3, SizeIs, BytesWithout
  <1>5. DOMAIN u \ {p} = DOMAIN t  BY <1>1
  <1>6. Bytes(u, DOMAIN t) = Bytes(t, DOMAIN t)  BY <1>1, BytesAgree
  <1> QED  BY <1>1, <1>2, <1>4, <1>5, <1>6 DEF u

-----------------------------------------------------------------------------
(* what a fetch has taken in: of its job s, its area a and its request r *)

(* The caps, of a local copy under way: of what is copied, and with it what is
   measured and will be, which neither is there yet nor will be listed again. *)
CopiedOK(s, a) ==
    /\ IsFiniteSet(s.staged) /\ s.todo \cap s.staged = {}
    /\ Cardinality(s.staged) <= MaxFiles /\ s.total <= MaxTotalBytes
    /\ ~ s.changed =>
          /\ \A p \in s.staged : Size[a[p]] <= MaxFileBytes
          /\ Bytes(a, s.staged) + s.size <= s.total
    /\ s.at = "copy" =>
          /\ s.now \notin s.staged \cup s.todo
          /\ Cardinality(s.staged) + 1 <= MaxFiles /\ s.size <= MaxFileBytes

Within(s, a, r) ==
    \/ r.scheme = "local" /\ s.changed
    \/ r.scheme = "huggingface" /\ s.at # "fetched"
    \/ Fits(a, DOMAIN a \ {Cache})

LimitsOK(s, a, r) ==
    /\ s.at \in {"idle", "locate"} => s.total = 0 /\ s.size = 0
    /\ s.at \in {"measure", "copy"} => CopiedOK(s, a)
    /\ s.at = "hash" => (r.scheme = "local" /\ s.changed) \/ Fits(a, s.staged)
    /\ Within(s, a, r)

LEMMA NothingFits ==
    ASSUME NEW t, NEW F, F = {}
    PROVE  Fits(t, F)
  <1>1. Cardinality(F) = 0 /\ IsFiniteSet(F)  BY FS_EmptySet
  <1>2. Bytes(t, F) = 0  BY <1>1, BytesOfRest
  <1> QED  BY <1>1, <1>2, LimitsAssumption DEF Fits

(* A step that adds no file and accepts none. *)
LEMMA SameWithin ==
    ASSUME NEW s, NEW u, NEW a, NEW r, Within(s, a, r), u.changed = s.changed,
           u.at # "fetched"
    PROVE  Within(u, a, r)
  BY DEF Within

LEMMA RaiseLimits ==
    ASSUME IInv, NEW i \in Invocations, NEW e \in Errors, Raise(i, e),
           UNCHANGED <<World, area>>, LimitsOK(job[i], area[i], request[i])
    PROVE  LimitsOK(job'[i], area'[i], request'[i])
  <1>1. job[i] \in Jobs  BY KeptIs
  <1>2. job'[i] = [job[i] EXCEPT !.at = "raised", !.error = e]
    BY DEF IInv, CliTypeOK, FTypeOK, Raise
  <1>3. job'[i].at = "raised" /\ job'[i].changed = job[i].changed  BY <1>1, <1>2 DEF Jobs
  <1>4. Within(job'[i], area[i], request[i])  BY <1>3, SameWithin DEF LimitsOK
  <1>5. area' = area /\ request' = request  BY DEF World
  <1> QED  BY <1>3, <1>4, <1>5 DEF LimitsOK

LEMMA LocateLocalLimits ==
    ASSUME IInv, NEW i \in Invocations, LimitsOK(job[i], area[i], request[i]), LocateLocal(i)
    PROVE  LimitsOK(job'[i], area'[i], request'[i])
  <1>0. job[i].at = "locate" /\ UNCHANGED <<World, area>>  BY DEF LocateLocal, Reading
  <1>1. CASE \E e \in Errors : Raise(i, e)  BY <1>0, <1>1, RaiseLimits
  <1>2. CASE job' = [job EXCEPT ![i].at = "measure", ![i].todo = DOMAIN source]
    <2>1. job[i] \in Jobs /\ job[i].staged = {}  BY <1>0, KeptIs DEF JobOK
    <2>2. job'[i] = [job[i] EXCEPT !.at = "measure", !.todo = DOMAIN source]
      BY <1>2 DEF IInv, CliTypeOK, FTypeOK
    <2>3. /\ job'[i].at = "measure" /\ job'[i].staged = {} /\ job'[i].total = 0
          /\ job'[i].size = 0 /\ job'[i].changed = job[i].changed
      BY <1>0, <2>1, <2>2 DEF Jobs, LimitsOK
    <2>4. /\ Cardinality(job'[i].staged) = 0 /\ IsFiniteSet(job'[i].staged)
          /\ Bytes(area[i], job'[i].staged) = 0
      BY <2>3, FS_EmptySet, BytesOfRest
    <2>5. CopiedOK(job'[i], area[i])  BY <2>3, <2>4, LimitsAssumption DEF CopiedOK
    <2>6. Within(job'[i], area[i], request[i])  BY <2>3, SameWithin DEF LimitsOK
    <2>7. area' = area /\ request' = request  BY <1>0 DEF World
    <2> QED  BY <2>3, <2>5, <2>6, <2>7 DEF LimitsOK
  <1> QED  BY <1>1, <1>2 DEF LocateLocal, MayFail, Errors

LEMMA MeasureLimits ==
    ASSUME IInv, NEW i \in Invocations, LimitsOK(job[i], area[i], request[i]), Measure(i)
    PROVE  LimitsOK(job'[i], area'[i], request'[i])
  <1>0. job[i].at = "measure" /\ UNCHANGED <<World, area>>  BY DEF Measure, Reading
  <1>1. CASE \E e \in Errors : Raise(i, e)  BY <1>0, <1>1, RaiseLimits
  <1>2. ASSUME NEW p \in job[i].todo, ~ IsLink(p), p \in DOMAIN source, ~ TooMuch(i, p),
               ~ (Cardinality(job[i].staged) + 1 > MaxFiles),
               job' = [job EXCEPT ![i].at = "copy", ![i].now = p,
                                  ![i].size = Size[source[p]],
                                  ![i].todo = @ \ {p},
                                  ![i].total = @ + Size[source[p]]]
        PROVE  LimitsOK(job'[i], area'[i], request'[i])
    <2>1. job[i] \in Jobs /\ area[i] \in Trees /\ job[i].staged = DOMAIN area[i]
      BY <1>0, KeptIs DEF JobOK
    <2>2. source[p] \in Contents  BY <1>2, SourceIs DEF IInv, CliTypeOK, FTypeOK, IsLink
    <2>3. PICK n \in Nat : n = Size[source[p]]  BY <2>2, LimitsAssumption
    <2>4. job'[i] = [job[i] EXCEPT !.at = "copy", !.now = p, !.size = n,
                                   !.todo = @ \ {p}, !.total = @ + n]
      BY <1>2, <2>3 DEF IInv, CliTypeOK, FTypeOK
    <2>5. /\ job'[i].at = "copy" /\ job'[i].now = p /\ job'[i].size = n
          /\ job'[i].todo = job[i].todo \ {p} /\ job'[i].total = job[i].total + n
          /\ job'[i].staged = job[i].staged /\ job'[i].changed = job[i].changed
      BY <2>1, <2>4 DEF Jobs
    <2>6. CopiedOK(job[i], area[i])  BY <1>0 DEF LimitsOK
    <2>7. n <= MaxFileBytes /\ job[i].total + n <= MaxTotalBytes
          /\ Cardinality(job[i].staged) + 1 <= MaxFiles
      <3>1. Cardinality(job[i].staged) \in Nat  BY <2>6, FS_CardinalityType DEF CopiedOK
      <3> QED  BY <1>2, <2>1, <2>3, <3>1, LimitsAssumption DEF TooMuch, Jobs
    <2>8. ~ job[i].changed => Bytes(area[i], job[i].staged) + n <= job[i].total + n
      <3>1. Bytes(area[i], job[i].staged) \in Nat
        BY <2>1, <2>6, SizeIs, BytesType DEF CopiedOK
      <3> QED  BY <2>1, <2>6, <3>1 DEF CopiedOK, Jobs
    <2>9. CopiedOK(job'[i], area[i])
      <3>1. job'[i].now \notin job'[i].staged \cup job'[i].todo
            /\ job'[i].todo \cap job'[i].staged = {}
        BY <2>5, <2>6 DEF CopiedOK
      <3> QED  BY <2>5, <2>6, <2>7, <2>8, <3>1 DEF CopiedOK
    <2>10. Within(job'[i], area[i], request[i])  BY <2>5, SameWithin DEF LimitsOK
    <2>11. area' = area /\ request' = request  BY <1>0 DEF World
    <2> QED  BY <2>5, <2>9, <2>10, <2>11 DEF LimitsOK
  <1>3. PICK p \in job[i].todo :
          CASE IsLink(p) \/ Cardinality(job[i].staged) + 1 > MaxFiles ->
                    Raise(i, "QuarantineError")
            [] p \notin DOMAIN source -> Raise(i, "OSError")
            [] TooMuch(i, p)          -> Raise(i, "QuarantineError")
            [] OTHER -> job' = [job EXCEPT ![i].at = "copy", ![i].now = p,
                                           ![i].size = Size[source[p]],
                                           ![i].todo = @ \ {p},
                                           ![i].total = @ + Size[source[p]]]
    BY DEF Measure
  <1>4. CASE ~ IsLink(p) /\ ~ (Cardinality(job[i].staged) + 1 > MaxFiles)
             /\ p \in DOMAIN source /\ ~ TooMuch(i, p)
    BY <1>2, <1>3, <1>4
  <1>5. CASE ~ (~ IsLink(p) /\ ~ (Cardinality(job[i].staged) + 1 > MaxFiles)
             /\ p \in DOMAIN source /\ ~ TooMuch(i, p))
    <2>1. Raise(i, "QuarantineError") \/ Raise(i, "OSError")  BY <1>3, <1>5
    <2> QED  BY <1>1, <2>1 DEF Errors
  <1> QED  BY <1>4, <1>5

LEMMA CopyFileLimits ==
    ASSUME IInv, NEW i \in Invocations, LimitsOK(job[i], area[i], request[i]), CopyFile(i)
    PROVE  LimitsOK(job'[i], area'[i], request'[i])
  <1>0. job[i].at = "copy" /\ request[i].scheme = "local" /\ UNCHANGED World
    BY DEF CopyFile, Reading
  <1>1. CASE Raise(i, "OSError") /\ UNCHANGED area
    BY <1>0, <1>1, RaiseLimits DEF Errors
  <1> DEFINE p == job[i].now
  <1>2. ASSUME NEW at \in {"hash", "measure"}, p \in DOMAIN source,
               area' = [area EXCEPT ![i] = Put(@, p, source[p])],
               job' = [job EXCEPT ![i].at = at, ![i].now = NoTree, ![i].size = 0,
                                  ![i].staged = @ \cup {p},
                                  ![i].changed = @ \/ Size[source[p]] > job[i].size]
        PROVE  LimitsOK(job'[i], area'[i], request'[i])
    <2>1. /\ job[i] \in Jobs /\ area[i] \in Trees /\ job[i].staged = DOMAIN area[i]
          /\ p \in Paths
      BY <1>0, KeptIs DEF JobOK
    <2>2. source[p] \in Contents
      BY <1>0, <1>2, KeptIs, SourceIs DEF NowOK, IInv, CliTypeOK, FTypeOK
    <2>3. PICK n \in Nat : n = Size[source[p]]  BY <2>2, LimitsAssumption
    <2>4. CopiedOK(job[i], area[i])  BY <1>0 DEF LimitsOK
    <2> DEFINE D == DOMAIN area[i]
    <2>5. /\ IsFiniteSet(D) /\ p \notin D /\ job[i].todo \cap (D \cup {p}) = {}
          /\ Cardinality(D) + 1 <= MaxFiles /\ job[i].size <= MaxFileBytes
          /\ job[i].total <= MaxTotalBytes
      BY <1>0, <2>1, <2>4 DEF CopiedOK
    <2>6. job'[i] = [job[i] EXCEPT !.at = at, !.now = NoTree, !.size = 0,
                                   !.staged = @ \cup {p},
                                   !.changed = @ \/ Size[source[p]] > job[i].size]
      BY <1>2 DEF IInv, CliTypeOK, FTypeOK
    <2>7. /\ job'[i].at = at /\ job'[i].size = 0 /\ job'[i].total = job[i].total
          /\ job'[i].todo = job[i].todo /\ job'[i].staged = D \cup {p}
      BY <2>1, <2>6 DEF Jobs
    <2>8. ~ job'[i].changed => ~ job[i].changed /\ ~ (n > job[i].size)
      BY <2>1, <2>3, <2>6 DEF Jobs
    <2> DEFINE a == Put(area[i], p, source[p])
    <2>9. area'[i] = a  BY <1>2 DEF IInv, CliTypeOK, FTypeOK, Dir
    <2>10. /\ DOMAIN a = D \cup {p}
           /\ \A q \in D : a[q] = area[i][q]
           /\ a[p] = source[p]
      <3>1. a[p] = source[p]  BY DEF Put, Over
      <3> HIDE DEF p
      <3>2. DOMAIN a = D \cup {p} /\ \A q \in D \ {p} : a[q] = area[i][q]
        BY <2>1, <2>2, PutIs
      <3> HIDE DEF a, D
      <3> QED  BY <2>5, <3>1, <3>2
    <2>11. Bytes(a, D \cup {p}) = n + Bytes(area[i], D)
      BY <2>1, <2>2, <2>3, <2>5, BytesPut
    <2>12. Bytes(area[i], D) \in Nat  BY <2>1, <2>5, SizeIs, BytesType
    <2>13. /\ IsFiniteSet(D \cup {p}) /\ Cardinality(D) \in Nat
           /\ Cardinality(D \cup {p}) = Cardinality(D) + 1
      BY <2>5, FS_AddElement, FS_CardinalityType
    <2> HIDE DEF p, a
    <2>14. ~ job'[i].changed =>
              /\ \A q \in D \cup {p} : Size[a[q]] <= MaxFileBytes
              /\ Bytes(a, D \cup {p}) <= job[i].total
      <3> SUFFICES ASSUME ~ job'[i].changed
                   PROVE  /\ \A q \in D \cup {p} : Size[a[q]] <= MaxFileBytes
                          /\ Bytes(a, D \cup {p}) <= job[i].total
        OBVIOUS
      <3>1. /\ \A q \in D : Size[area[i][q]] <= MaxFileBytes
            /\ Bytes(area[i], D) + job[i].size <= job[i].total
        BY <2>1, <2>4, <2>8 DEF CopiedOK
      <3>2. job[i].size \in Nat /\ job[i].total \in Nat  BY <2>1 DEF Jobs
      <3>3. n <= job[i].size  BY <2>8, <3>2
      <3>4. n <= MaxFileBytes  BY <2>5, <3>2, <3>3, LimitsAssumption
      <3>5. Bytes(a, D \cup {p}) <= job[i].total  BY <2>11, <2>12, <3>1, <3>2, <3>3
      <3> QED  BY <2>3, <2>10, <3>1, <3>4, <3>5
    <2>15. Cache \notin D \cup {p}  BY <2>1, TreesAssumption DEF Jobs
    <2>16. ~ job'[i].changed => Fits(a, D \cup {p})
      <3>1. job[i].total \in Nat /\ Bytes(a, D \cup {p}) \in Nat
        BY <2>1, <2>11, <2>12 DEF Jobs
      <3> QED  BY <2>5, <2>13, <2>14, <3>1, LimitsAssumption DEF Fits
    <2>17. Within(job'[i], a, request[i])
      <3>1. DOMAIN a \ {Cache} = D \cup {p}  BY <2>10, <2>15
      <3> QED  BY <1>0, <2>16, <3>1 DEF Within
    <2>18. at = "measure" => CopiedOK(job'[i], a)
      <3>1. Bytes(a, D \cup {p}) \in Nat  BY <2>11, <2>12
      <3>2. ~ job'[i].changed => Bytes(a, D \cup {p}) + 0 <= job[i].total  BY <2>14, <3>1
      <3> QED  BY <2>5, <2>7, <2>13, <2>14, <3>2 DEF CopiedOK
    <2>19. request' = request  BY <1>0 DEF World
    <2> HIDE DEF D
    <2> QED  BY <1>0, <2>7, <2>9, <2>16, <2>17, <2>18, <2>19 DEF LimitsOK
  <1>3. CASE job[i].todo = {}  BY <1>1, <1>2, <1>3 DEF CopyFile, Dir
  <1>4. CASE job[i].todo # {}  BY <1>1, <1>2, <1>4 DEF CopyFile, Dir
  <1> QED  BY <1>3, <1>4

LEMMA ResolveLimits ==
    ASSUME IInv, NEW i \in Invocations, LimitsOK(job[i], area[i], request[i]), Resolve(i)
    PROVE  LimitsOK(job'[i], area'[i], request'[i])
  <1>0. UNCHANGED <<World, area>>  BY DEF Resolve
  <1>1. CASE \E e \in Errors : Raise(i, e)  BY <1>0, <1>1, RaiseLimits
  <1>2. CASE job' = [job EXCEPT ![i].at = "download", ![i].sha = head]
    <2>1. job[i] \in Jobs  BY KeptIs
    <2>2. job'[i] = [job[i] EXCEPT !.at = "download", !.sha = head]
      BY <1>2 DEF IInv, CliTypeOK, FTypeOK
    <2>3. job'[i].at = "download" /\ job'[i].changed = job[i].changed  BY <2>1, <2>2 DEF Jobs
    <2>4. Within(job'[i], area[i], request[i])  BY <2>3, SameWithin DEF LimitsOK
    <2>5. area' = area /\ request' = request  BY <1>0 DEF World
    <2> QED  BY <2>3, <2>4, <2>5 DEF LimitsOK
  <1> QED  BY <1>1, <1>2 DEF Resolve, MayFail, Errors

LEMMA DownloadLimits ==
    ASSUME IInv, NEW i \in Invocations, LimitsOK(job[i], area[i], request[i]), Download(i)
    PROVE  LimitsOK(job'[i], area'[i], request'[i])
  <1>0. request[i].scheme = "huggingface" /\ UNCHANGED World  BY DEF Download, Reading
  <1>1. CASE Raise(i, "OSError") /\ UNCHANGED area
    BY <1>0, <1>1, RaiseLimits DEF Errors
  <1>2. CASE job' = [job EXCEPT ![i].at = "check"]
    <2>1. job[i] \in Jobs  BY KeptIs
    <2>2. job'[i] = [job[i] EXCEPT !.at = "check"]  BY <1>2 DEF IInv, CliTypeOK, FTypeOK
    <2>3. job'[i].at = "check"  BY <2>1, <2>2 DEF Jobs
    <2>4. request' = request  BY <1>0 DEF World
    <2> QED  BY <1>0, <2>3, <2>4 DEF LimitsOK, Within
  <1> QED  BY <1>1, <1>2 DEF Download, MayFail

LEMMA CheckStagedLimits ==
    ASSUME IInv, NEW i \in Invocations, LimitsOK(job[i], area[i], request[i]), CheckStaged(i)
    PROVE  LimitsOK(job'[i], area'[i], request'[i])
  <1>0. request[i].scheme = "huggingface" /\ UNCHANGED <<World, area>>
    BY DEF CheckStaged, Reading
  <1> DEFINE files == ListStaged(i)
  <1>1. CASE Raise(i, "SourceError") \/ Raise(i, "QuarantineError")
    BY <1>0, <1>1, RaiseLimits DEF Errors
  <1>2. ASSUME Fits(area[i], files), job' = [job EXCEPT ![i].at = "hash", ![i].staged = files]
        PROVE  LimitsOK(job'[i], area'[i], request'[i])
    <2> HIDE DEF files
    <2>1. job[i] \in Jobs  BY KeptIs
    <2>2. job'[i] = [job[i] EXCEPT !.at = "hash", !.staged = files]
      BY <1>2 DEF IInv, CliTypeOK, FTypeOK
    <2>3. job'[i].at = "hash" /\ job'[i].staged = files  BY <2>1, <2>2 DEF Jobs
    <2>4. area' = area /\ request' = request  BY <1>0 DEF World
    <2> QED  BY <1>0, <1>2, <2>3, <2>4 DEF LimitsOK, Within
  <1> QED  BY <1>1, <1>2 DEF CheckStaged, Dir

LEMMA HashAndPinLimits ==
    ASSUME IInv, NEW i \in Invocations, LimitsOK(job[i], area[i], request[i]), HashAndPin(i)
    PROVE  LimitsOK(job'[i], area'[i], request'[i])
  <1>0. job[i].at = "hash" /\ UNCHANGED <<World, area>>  BY DEF HashAndPin
  <1> DEFINE tree == Part(area[i], job[i].staged)
  <1>1. CASE Raise(i, "SourceError") \/ Raise(i, "OSError")
    BY <1>0, <1>1, RaiseLimits DEF Errors
  <1>2. CASE job' = [job EXCEPT ![i].at = "fetched", ![i].digest = tree]
    <2> HIDE DEF tree
    <2>1. job[i] \in Jobs /\ job[i].staged = DOMAIN area[i] \ {Cache}
      BY <1>0, KeptIs DEF JobOK
    <2>2. job'[i] = [job[i] EXCEPT !.at = "fetched", !.digest = tree]
      BY <1>2 DEF IInv, CliTypeOK, FTypeOK
    <2>3. job'[i].at = "fetched" /\ job'[i].changed = job[i].changed  BY <2>1, <2>2 DEF Jobs
    <2>4. area' = area /\ request' = request  BY <1>0 DEF World
    <2>5. (request[i].scheme = "local" /\ job[i].changed) \/ Fits(area[i], job[i].staged)
      BY <1>0 DEF LimitsOK
    <2> QED  BY <2>1, <2>3, <2>4, <2>5 DEF LimitsOK, Within
  <1> QED  BY <1>1, <1>2 DEF HashAndPin, MayFail, Dir

LEMMA WorkspaceLimits ==
    ASSUME IInv, NEW i \in Invocations, LimitsOK(job[i], area[i], request[i]), Workspace(i)
    PROVE  LimitsOK(job'[i], area'[i], request'[i])
  <1>1. UNCHANGED <<World, area>> /\ phase[i] = "workspace"  BY DEF Workspace, Go, Leave
  <1>2. area' = area /\ request' = request  BY <1>1 DEF World
  <1>3. job[i] = NewJob  BY <1>1, KeptIs DEF Command, CommandOK
  <1>4. CASE UNCHANGED job  BY <1>2, <1>4
  <1>5. CASE job' = [job EXCEPT ![i].at = "locate"]
    <2>1. job'[i] = [job[i] EXCEPT !.at = "locate"]
      BY <1>5 DEF IInv, CliTypeOK, FTypeOK
    <2>2. /\ job'[i].at = "locate" /\ job'[i].total = 0 /\ job'[i].size = 0
          /\ job'[i].changed = job[i].changed
      BY <1>3, <2>1, NewJobIs DEF Jobs, NewJob
    <2>3. Within(job'[i], area[i], request[i])  BY <2>2, SameWithin DEF LimitsOK
    <2> QED  BY <1>2, <2>2, <2>3 DEF LimitsOK
  <1> QED  BY <1>4, <1>5 DEF Workspace

(* Nothing is left in the quarantine. *)
LEMMA EmptyLimits ==
    ASSUME NEW s, NEW a, NEW r, DOMAIN a = {}, s.at \in {"idle", "removed"},
           s.total = 0, s.size = 0
    PROVE  LimitsOK(s, a, r)
  <1>1. Fits(a, DOMAIN a \ {Cache})  BY NothingFits
  <1> QED  BY <1>1 DEF LimitsOK, Within

LEMMA CleanupLimits ==
    ASSUME IInv, NEW i \in Invocations, Cleanup(i)
    PROVE  LimitsOK(job'[i], area'[i], request'[i])
  <1> DEFINE gone == [NewJob EXCEPT !.at = "removed", !.digest = job[i].digest]
  <1>1. job'[i] = gone /\ area'[i] = NoFiles
    BY DEF Cleanup, IInv, CliTypeOK, FTypeOK, Dir
  <1>2. gone.at = "removed" /\ gone.total = 0 /\ gone.size = 0  BY DEF NewJob
  <1> HIDE DEF gone
  <1> QED  BY <1>1, <1>2, NoFilesIs, EmptyLimits

LEMMA CliStepLimits ==
    ASSUME IInv, NEW i \in Invocations, LimitsOK(job[i], area[i], request[i]), CliStep(i)
    PROVE  LimitsOK(job'[i], area'[i], request'[i])
  <1>1. CASE Fetching(i)
    BY <1>1, LocateLocalLimits, MeasureLimits, CopyFileLimits, ResolveLimits, DownloadLimits,
       CheckStagedLimits, HashAndPinLimits
    DEF Fetching, FetchStep
  <1>2. CASE Workspace(i) \/ Cleanup(i)  BY <1>2, WorkspaceLimits, CleanupLimits
  <1>3. CASE UNCHANGED fvars  BY <1>3 DEF fvars
  <1>4. CASE ReadAttestation(i) \/ Arguments(i) \/ Fetched(i) \/ Report(i)
    BY <1>3, <1>4 DEF ReadAttestation, Arguments, Fetched, Report, Kept
  <1>5. CASE Scan(i) \/ Sign(i) \/ Verify(i)  BY <1>3, <1>5 DEF Scan, Sign, Verify
  <1>6. CASE OpenOut(i) \/ WriteOut(i)  BY <1>3, <1>6 DEF OpenOut, WriteOut
  <1> QED  BY <1>1, <1>2, <1>4, <1>5, <1>6 DEF CliStep

LInv == IInv /\ \A i \in Invocations : LimitsOK(job[i], area[i], request[i])

(* The inductive invariant of the caps: a copy under way has room for all it has
   measured, whatever the others and the world do. *)
THEOREM LimitsInvariant == CSpec => []LInv
  <1>1. CInit => LInv
    <2> SUFFICES ASSUME CInit, NEW i \in Invocations
                 PROVE  LimitsOK(job[i], area[i], request[i])
      BY CInitOK DEF LInv
    <2>1. job[i] = NewJob /\ area[i] = NoFiles  BY DEF CInit, FInit, Dir
    <2>2. NewJob.at = "idle" /\ NewJob.total = 0 /\ NewJob.size = 0  BY DEF NewJob
    <2> QED  BY <2>1, <2>2, NoFilesIs, EmptyLimits
  <1>2. LInv /\ IInv' /\ [CNext]_cvars => LInv'
    <2> SUFFICES ASSUME LInv, [CNext]_cvars, NEW j \in Invocations
                 PROVE  LimitsOK(job'[j], area'[j], request'[j])
      BY DEF LInv
    <2>1. ASSUME NEW i \in Invocations, CliStep(i)
          PROVE  LimitsOK(job'[j], area'[j], request'[j])
      <3>1. Moved(i)  BY <2>1, CliStepOK DEF LInv
      <3>2. CASE j = i  BY <2>1, <3>2, CliStepLimits DEF LInv
      <3>3. CASE j # i
        <4>1. job'[j] = job[j] /\ area'[j] = area[j] /\ request' = request
          BY <3>1, <3>3 DEF LInv, IInv, CliTypeOK, FTypeOK, Moved, World, Dir
        <4> QED  BY <4>1 DEF LInv
      <3> QED  BY <3>2, <3>3
    <2>2. CASE UNCHANGED <<request, area, job>>  BY <2>2 DEF LInv
    <2>3. CASE Around  BY <2>2, <2>3 DEF Around, EditLocal, PushToHub
    <2>4. CASE UNCHANGED cvars  BY <2>2, <2>4 DEF cvars, fvars
    <2> QED  BY <2>1, <2>3, <2>4 DEF CNext, CEnded
  <1> QED  BY <1>1, <1>2, CliInvariant, PTL DEF CSpec

(* The quarantine never holds more files, or more bytes in one or in all, than
   its limits: a local copy at any moment unless a file grew after it was
   measured, a download once it is accepted (quarantine.py:143-164,
   huggingface.py:130-154). *)
THEOREM WithinLimitsHolds == CSpec => []WithinLimits
  <1>1. LInv => WithinLimits  BY DEF LInv, LimitsOK, Within, WithinLimits, Dir
  <1> QED  BY <1>1, LimitsInvariant, PTL
=============================================================================
