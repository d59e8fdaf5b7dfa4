---------------------------- MODULE ServicesProofs ----------------------------
(***************************************************************************)
(* Services over the artifact store, for any inputs, any answers of models *)
(* and any number of calls and of deaths: what they store rests on what it *)
(* says it rests on.                                                       *)
(***************************************************************************)
EXTENDS ScreeningRun, BenchmarkRun, IdentityResolution, MechanismDevelopment, PublicationRun,
        FiniteSetTheorems, WellFoundedInduction, TLAPS

-----------------------------------------------------------------------------
(* The artifacts                                                            *)
\* The artifacts are a sequence.
StoredSound == stored \in Seq(ToSet(stored))

(* Nothing is stored at first.                                              *)
LEMMA NothingIsStored ==
    ASSUME NothingStored
    PROVE  StoredSound /\ at = "idle" /\ \A kind : OfKind(kind) = {}
<1>1. stored = <<>> /\ at = "idle"
  BY DEF NothingStored
<1>2. DOMAIN stored = {} /\ stored \in Seq({})
  BY <1>1
<1>3. ToSet(stored) = {}
  BY <1>2 DEF ToSet
<1> QED BY <1>1, <1>2, <1>3 DEF StoredSound, OfKind, Stored

(* A put adds one artifact behind all others, which stay as they are.       *)
LEMMA PutAdds ==
    ASSUME NEW a, StoredSound, Put(a)
    PROVE  /\ StoredSound'
           /\ Latest \in Nat /\ Stored = 1 .. Latest
           /\ Stored' = Stored \cup {Latest + 1}
           /\ Latest + 1 \notin Stored
           /\ \A i \in Stored : stored'[i] = stored[i]
           /\ stored'[Latest + 1] = a
<1> DEFINE S == ToSet(stored) \cup {a}
<1>1. stored \in Seq(S) /\ a \in S /\ stored' = Append(stored, a)
  BY DEF StoredSound, Put
<1>2. /\ Len(stored) \in Nat /\ DOMAIN stored = 1 .. Len(stored)
      /\ stored' \in Seq(S) /\ DOMAIN stored' = 1 .. Len(stored) + 1
      /\ \A i \in 1 .. Len(stored) : stored'[i] = stored[i]
      /\ stored'[Len(stored) + 1] = a
  <2> HIDE DEF S
  <2> QED BY <1>1
<1>3. StoredSound'
  <2> DEFINE T == ToSet(stored)'
  <2>1. \A i \in 1 .. Len(stored) + 1 : stored'[i] \in T
    BY <1>2 DEF ToSet
  <2>2. stored' = [i \in 1 .. Len(stored) + 1 |-> stored'[i]]
    BY <1>2
  <2> HIDE DEF T, S
  <2>3. stored' \in Seq(T)
    BY <1>2, <2>1
  <2> QED BY <2>3 DEF StoredSound, T
<1> QED BY <1>2, <1>3 DEF Latest, Stored
(* The kinds of the artifacts after a put.                                  *)
LEMMA PutOfKind ==
    ASSUME NEW a, StoredSound, Put(a), NEW kind
    PROVE  /\ a.kind = kind => OfKind(kind)' = OfKind(kind) \cup {Latest + 1}
           /\ a.kind # kind => OfKind(kind)' = OfKind(kind)
<1>1. /\ Stored' = Stored \cup {Latest + 1} /\ Latest + 1 \notin Stored
      /\ \A i \in Stored : stored'[i] = stored[i]
      /\ stored'[Latest + 1] = a
  BY PutAdds
<1> QED BY <1>1 DEF OfKind

(* Every set of places but the empty one has a first.                       *)
LEMMA FirstPlace ==
    ASSUME NEW S \in SUBSET Nat, S # {}
    PROVE  Min(S) \in S /\ \A x \in S : Min(S) <= x
<1>1. PICK x \in S : \A y \in S : ~ (<<y, x>> \in OpToRel(<, Nat))
  BY WFMin, NatLessThanWellFounded
<1>2. \A y \in S : ~ (y < x)
  BY <1>1 DEF OpToRel
<1>3. \A y \in S : x =< y
  BY <1>2
<1> QED BY <1>3 DEF Min

-----------------------------------------------------------------------------
(* Screening                                                                *)
\* The identities that are screened.
Candidates == UNION {ToSet(candidates) : candidates \in CandidateLists}

ScreeningLocals ==
    [todo : Seq(Candidates), counted : [Dispositions -> SUBSET Candidates], failed : SUBSET Candidates,
     decisions : SUBSET Nat, asked : Nat, decision : Nat, execution : Nat]

\* A disposition a paper has from its decision, whatever reviews say of it later.
Earned(d, c, f) ==
    /\ d \in Decisions /\ stored[d].candidate = c
    /\ \/ f = stored[d].disposition
       \/ \E r \in ReviewsOf(d) : stored[r].final = f
       \/ f = "uncertain" /\ NeedsReview(d)
    /\ f = "include" /\ stored[d].matched => ByPerson(d, f)
    /\ \A r \in ReviewsOf(d) : stored[r].by = "disapproval" => f = "uncertain" \/ ByPerson(d, f)

\* Papers are counted once, and not among the failed.
Once(counted, failed) ==
    \A f \in Dispositions : \A c \in counted[f] :
       c \notin failed /\ \A g \in Dispositions \ {f} : c \notin counted[g]

\* Papers are counted as they earned it.
AsEarned(counted, decisions) ==
    \A f \in Dispositions : \A c \in counted[f] : \E d \in decisions : Earned(d, c, f)

\* A paper has one decision, which is forced when a criterion matched.
DecisionsSound ==
    /\ \A c, d \in Decisions : stored[c].candidate = stored[d].candidate => c = d
    /\ \A d \in Decisions :
          /\ stored[d].disposition \in Dispositions
          /\ stored[d].matched => stored[d].disposition = "exclude"

\* A review follows its decision or a person, and the policy reviews once.
ReviewsSound ==
    /\ \A r \in OfKind("review") :
          /\ stored[r].decision \in Decisions /\ stored[r].final \in Dispositions
          /\ \/ stored[r].by = "human"
             \/ stored[r].by = "policy" /\ stored[r].final = stored[stored[r].decision].disposition
             \/ stored[r].by = "disapproval" /\ stored[r].final = "uncertain"
    /\ \A q, r \in OfKind("review") :
          /\ stored[q].decision = stored[r].decision
          /\ stored[q].by # "human" /\ stored[r].by # "human"
          => q = r

\* A set counts as earned, by decisions stored before it.
SetSound(s) ==
    /\ Once(stored[s].counted, stored[s].failed)
    /\ AsEarned(stored[s].counted, stored[s].decisions)
    /\ \A d \in stored[s].decisions : d < s

SetsSound == \A s \in Sets : SetSound(s)

\* What is left to screen is neither counted nor failed.
CallSound ==
    at # "idle" =>
       /\ call \in ScreeningLocals
       /\ IsInjective(call.todo)
       /\ \A c \in ToSet(call.todo) :
             c \notin call.failed /\ \A f \in Dispositions : c \notin call.counted[f]
       /\ Once(call.counted, call.failed)
       /\ AsEarned(call.counted, call.decisions)
       /\ call.decisions \subseteq Stored

\* The decision just made is newer than all sets, and no policy reviewed it yet.
DecidedSound ==
    at \in {"decided", "review"} =>
       /\ call.todo # <<>>
       /\ call.decision \in Decisions /\ stored[call.decision].candidate = Candidate
       /\ \A s \in Sets : s < call.decision
       /\ \A r \in ReviewsOf(call.decision) : stored[r].by = "human"
       /\ at = "review" => call.decision \in call.decisions

ScreeningInv ==
    StoredSound /\ DecisionsSound /\ ReviewsSound /\ SetsSound /\ CallSound /\ DecidedSound

(* What a paper earned stays earned, unless the policy disapproves of it.   *)
LEMMA EarnedStays ==
    ASSUME NEW a, StoredSound, Put(a), NEW d, NEW c, NEW f,
           a.kind = "review" => a.decision # d \/ a.by # "disapproval",
           Earned(d, c, f)
    PROVE  Earned(d, c, f)'
<1>1. /\ Stored' = Stored \cup {Latest + 1} /\ Latest + 1 \notin Stored
      /\ \A i \in Stored : stored'[i] = stored[i]
      /\ stored'[Latest + 1] = a
  BY PutAdds
<1>2. d \in Stored /\ d \in Decisions'
  BY <1>1 DEF Earned, Decisions, OfKind
<1>3. ReviewsOf(d) \subseteq ReviewsOf(d)' /\ ReviewsOf(d) \subseteq Stored
  BY <1>1 DEF ReviewsOf, OfKind
<1>4. ByPerson(d, f) => ByPerson(d, f)'
  BY <1>1, <1>3 DEF ByPerson
<1>5. \A r \in ReviewsOf(d)' : r \in ReviewsOf(d) \/ stored'[r].by # "disapproval"
  BY <1>1 DEF ReviewsOf, OfKind
<1> QED BY <1>1, <1>2, <1>3, <1>4, <1>5 DEF Earned, NeedsReview

(* A decision that is reused counts as its first review says, or itself.    *)
LEMMA FinalEarned ==
    ASSUME StoredSound, DecisionsSound, ReviewsSound, NEW d \in Decisions
    PROVE  Final(d) \in Dispositions /\ Earned(d, stored[d].candidate, Final(d))
<1>1. ReviewsOf(d) \in SUBSET Nat
  BY DEF ReviewsOf, OfKind, Stored, StoredSound
<1>2. CASE ReviewsOf(d) = {}
  BY <1>2 DEF Final, Earned, DecisionsSound
<1>3. CASE ReviewsOf(d) # {}
  <2>1. PICK r \in ReviewsOf(d) : Final(d) = stored[r].final
    BY <1>1, <1>3, FirstPlace DEF Final
  <2>2. r \in OfKind("review") /\ stored[r].decision = d
    BY <2>1 DEF ReviewsOf
  <2>3. \A q \in ReviewsOf(d) : q \in OfKind("review") /\ stored[q].decision = d
    BY DEF ReviewsOf
  <2>4. CASE stored[r].by = "human"
    BY <2>1, <2>2, <2>4 DEF Earned, ByPerson, ReviewsSound
  <2>5. CASE stored[r].by # "human"
    <3>1. \A q \in ReviewsOf(d) : stored[q].by # "human" => q = r
      BY <2>2, <2>3, <2>5 DEF ReviewsSound
    <3>2. stored[r].final = IF stored[r].by = "policy" THEN stored[d].disposition ELSE "uncertain"
      BY <2>2, <2>5 DEF ReviewsSound
    <3>3. stored[r].by = "policy" \/ stored[r].by = "disapproval"
      BY <2>2, <2>5 DEF ReviewsSound
    <3> QED BY <2>1, <2>2, <3>1, <3>2, <3>3 DEF Earned, DecisionsSound, Dispositions
  <2> QED BY <2>4, <2>5
<1> QED BY <1>2, <1>3

(* What was left to screen, without its first.                              *)
LEMMA TailSound ==
    ASSUME NEW P, NEW todo \in Seq(P), todo # <<>>, IsInjective(todo)
    PROVE  /\ Tail(todo) \in Seq(P) /\ IsInjective(Tail(todo))
           /\ ToSet(Tail(todo)) \subseteq ToSet(todo)
           /\ Head(todo) \in ToSet(todo) /\ Head(todo) \in P
           /\ Head(todo) \notin ToSet(Tail(todo))
<1>1. /\ Len(todo) \in Nat \ {0} /\ DOMAIN todo = 1 .. Len(todo)
      /\ Head(todo) = todo[1] /\ Tail(todo) \in Seq(P)
      /\ DOMAIN Tail(todo) = 1 .. Len(todo) - 1
      /\ \A i \in 1 .. Len(todo) - 1 : Tail(todo)[i] = todo[i + 1]
  OBVIOUS
<1>2. \A i, j \in 1 .. Len(todo) : todo[i] = todo[j] => i = j
  BY <1>1 DEF IsInjective
<1>3. \A i \in 1 .. Len(todo) - 1 : i + 1 \in 1 .. Len(todo) /\ i + 1 # 1 /\ i \in Nat
  BY <1>1
<1>4. 1 \in 1 .. Len(todo)
  BY <1>1
<1>5. IsInjective(Tail(todo))
  <2>1. ASSUME NEW i \in 1 .. Len(todo) - 1, NEW j \in 1 .. Len(todo) - 1,
               Tail(todo)[i] = Tail(todo)[j]
        PROVE  i = j
    <3>1. i + 1 = j + 1
      BY <1>1, <1>2, <1>3, <2>1
    <3> QED BY <3>1
  <2> QED BY <1>1, <2>1 DEF IsInjective
<1>6. ToSet(Tail(todo)) \subseteq ToSet(todo)
  BY <1>1, <1>3 DEF ToSet
<1>7. Head(todo) \notin ToSet(Tail(todo))
  BY <1>1, <1>2, <1>3, <1>4 DEF ToSet
<1>8. Head(todo) \in ToSet(todo) /\ Head(todo) \in P
  BY <1>1, <1>4 DEF ToSet
<1> QED BY <1>1, <1>5, <1>6, <1>7, <1>8

\* The candidate is counted, or it failed, and what is left does not have it.
CandidateDone ==
    /\ IsInjective(call'.todo)
    /\ \A c \in ToSet(call'.todo) :
          c \notin call'.failed /\ \A f \in Dispositions : c \notin call'.counted[f]
    /\ Once(call'.counted, call'.failed)

(* A candidate that is counted is counted once, and was not before.         *)
LEMMA CandidateCounted ==
    ASSUME CallSound, at # "idle", call.todo # <<>>, NEW f \in Dispositions,
           call'.todo = Tail(call.todo), call'.failed = call.failed,
           call'.counted = [call.counted EXCEPT ![f] = @ \cup {Candidate}]
    PROVE  CandidateDone
<1>1. /\ call \in ScreeningLocals /\ IsInjective(call.todo)
      /\ \A c \in ToSet(call.todo) :
            c \notin call.failed /\ \A g \in Dispositions : c \notin call.counted[g]
      /\ Once(call.counted, call.failed)
  BY DEF CallSound
<1>2. call.todo \in Seq(Candidates) /\ call.counted \in [Dispositions -> SUBSET Candidates]
  BY <1>1 DEF ScreeningLocals
<1>3. /\ IsInjective(call'.todo) /\ ToSet(call'.todo) \subseteq ToSet(call.todo)
      /\ Candidate \in ToSet(call.todo) /\ Candidate \notin ToSet(call'.todo)
  BY <1>1, <1>2, TailSound DEF Candidate
<1>4. \A g \in Dispositions :
         call'.counted[g] = IF g = f THEN call.counted[g] \cup {Candidate} ELSE call.counted[g]
  BY <1>2
<1> QED BY <1>1, <1>3, <1>4 DEF CandidateDone, Once

(* A candidate that fails was not counted.                                  *)
LEMMA CandidateFailed ==
    ASSUME CallSound, at # "idle", call.todo # <<>>,
           call'.todo = Tail(call.todo), call'.counted = call.counted,
           call'.failed = call.failed \cup {Candidate}
    PROVE  CandidateDone
<1>1. /\ call \in ScreeningLocals /\ IsInjective(call.todo)
      /\ \A c \in ToSet(call.todo) :
            c \notin call.failed /\ \A g \in Dispositions : c \notin call.counted[g]
      /\ Once(call.counted, call.failed)
  BY DEF CallSound
<1>2. call.todo \in Seq(Candidates)
  BY <1>1 DEF ScreeningLocals
<1>3. /\ IsInjective(call'.todo) /\ ToSet(call'.todo) \subseteq ToSet(call.todo)
      /\ Candidate \in ToSet(call.todo) /\ Candidate \notin ToSet(call'.todo)
  BY <1>1, <1>2, TailSound DEF Candidate
<1> QED BY <1>1, <1>3 DEF CandidateDone, Once

(* Where nothing is put, everything stored keeps what it had.               *)
LEMMA StoredStays ==
    ASSUME stored' = stored
    PROVE  /\ StoredSound => StoredSound'
           /\ Stored' = Stored /\ Latest' = Latest
           /\ \A kind : OfKind(kind)' = OfKind(kind)
           /\ \A d : ReviewsOf(d)' = ReviewsOf(d)
           /\ \A d, c, f : Earned(d, c, f)' <=> Earned(d, c, f)
           /\ DecisionsSound => DecisionsSound'
           /\ ReviewsSound => ReviewsSound'
           /\ SetsSound => SetsSound'
<1>1. /\ StoredSound => StoredSound'
      /\ Stored' = Stored /\ Latest' = Latest
  BY DEF StoredSound, Stored, Latest, ToSet
<1>2. \A kind : OfKind(kind)' = OfKind(kind)
  BY <1>1 DEF OfKind
<1>3. Decisions' = Decisions /\ Sets' = Sets
  BY <1>2 DEF Decisions, Sets
<1>4. \A d : ReviewsOf(d)' = ReviewsOf(d)
  BY <1>2 DEF ReviewsOf
<1>5. \A d, f : ByPerson(d, f)' <=> ByPerson(d, f)
  BY <1>4 DEF ByPerson
<1>6. \A d, c, f : Earned(d, c, f)' <=> Earned(d, c, f)
  BY <1>3, <1>4, <1>5 DEF Earned, NeedsReview
<1>7. DecisionsSound => DecisionsSound'
  BY <1>3 DEF DecisionsSound
<1>8. ReviewsSound => ReviewsSound'
  BY <1>2, <1>3 DEF ReviewsSound
<1>9. SetsSound => SetsSound'
  <2> SUFFICES ASSUME NEW s, SetSound(s) PROVE SetSound(s)'
    BY <1>3 DEF SetsSound
  <2> QED BY <1>6 DEF SetSound, AsEarned, Once
<1> QED BY <1>1, <1>2, <1>4, <1>6, <1>7, <1>8, <1>9

(* A call begins with nothing counted.                                      *)
LEMMA ScreenKeeps ==
    ASSUME ScreeningInv, NEW candidates \in CandidateLists, Screen(candidates)
    PROVE  ScreeningInv'
<1>1. /\ stored' = stored /\ at' = "next"
      /\ call' = [todo |-> candidates, counted |-> [d \in Dispositions |-> {}], failed |-> {},
                  decisions |-> {}, asked |-> 0, decision |-> 0, execution |-> 0]
  BY DEF Screen, Call
<1>2. candidates \in Seq(Candidates) /\ IsInjective(candidates)
  <2>1. candidates \in Seq(ToSet(candidates)) /\ ToSet(candidates) \subseteq Candidates
    BY CandidatesAssumption DEF Candidates
  <2> QED BY <2>1, CandidatesAssumption
<1>3. call' \in ScreeningLocals
  BY <1>1, <1>2 DEF ScreeningLocals
<1>4. CallSound'
  BY <1>1, <1>2, <1>3 DEF CallSound, Once, AsEarned
<1>5. DecidedSound'
  BY <1>1 DEF DecidedSound
<1> QED BY <1>1, <1>4, <1>5, StoredStays DEF ScreeningInv

(* The next candidate is counted or fails, without a decision of its own.   *)
LEMMA ReuseKeeps ==
    ASSUME ScreeningInv, ReuseDecision
    PROVE  ScreeningInv'
<1>1. at = "next" /\ at' = "next" /\ stored' = stored /\ call.todo # <<>>
  BY DEF ReuseDecision, Goto
<1>2. PICK d \in DecisionsOn(Candidate) :
         \/ call' = [call EXCEPT !.todo = Tail(@), !.decisions = @ \cup {d},
                                 !.counted[Final(d)] = @ \cup {Candidate}]
         \/ call' = [call EXCEPT !.todo = Tail(@), !.decisions = @ \cup {d},
                                 !.failed = @ \cup {Candidate}]
  <2>1. DecisionsOn(Candidate) \in SUBSET Nat
    BY DEF DecisionsOn, Decisions, OfKind, Stored, ScreeningInv, StoredSound
  <2>2. Min(DecisionsOn(Candidate)) \in DecisionsOn(Candidate)
    BY <2>1, FirstPlace DEF ReuseDecision
  <2> QED BY <2>2 DEF ReuseDecision
<1>3. d \in Decisions /\ stored[d].candidate = Candidate /\ d \in Stored /\ d \in Nat
  BY DEF DecisionsOn, Decisions, OfKind, Stored, ScreeningInv, StoredSound
<1>4. Final(d) \in Dispositions /\ Earned(d, Candidate, Final(d))
  BY <1>3, FinalEarned DEF ScreeningInv
<1>5. call \in ScreeningLocals /\ CallSound /\ IsInjective(call.todo) /\ call.decisions \subseteq Stored
  BY <1>1 DEF ScreeningInv, CallSound
<1>6. Tail(call.todo) \in Seq(Candidates) /\ Candidate \in Candidates
  BY <1>1, <1>5, TailSound DEF ScreeningLocals, Candidate
<1>7. /\ call.counted \in [Dispositions -> SUBSET Candidates] /\ call.failed \subseteq Candidates
      /\ call.decisions \cup {d} \subseteq Stored /\ call.decisions \cup {d} \subseteq Nat
  BY <1>3, <1>5 DEF ScreeningLocals
<1>8. call'.todo = Tail(call.todo) /\ call'.decisions = call.decisions \cup {d}
  BY <1>2, <1>5 DEF ScreeningLocals
<1>9. \A e, c, f : Earned(e, c, f) => Earned(e, c, f)'
  BY <1>1, StoredStays
<1>10. CASE call' = [call EXCEPT !.todo = Tail(@), !.decisions = @ \cup {d},
                                 !.counted[Final(d)] = @ \cup {Candidate}]
  <2> DEFINE counted == [call.counted EXCEPT ![Final(d)] = @ \cup {Candidate}]
  <2>1. /\ call'.failed = call.failed /\ call'.counted = counted
        /\ call' = [call EXCEPT !.todo = Tail(call.todo),
                                !.decisions = call.decisions \cup {d}, !.counted = counted]
    BY <1>5, <1>10 DEF ScreeningLocals
  <2>2. counted \in [Dispositions -> SUBSET Candidates]
    BY <1>6, <1>7
  <2>3. call' \in ScreeningLocals
    <3> HIDE DEF counted
    <3> QED BY <1>5, <1>6, <1>7, <2>1, <2>2 DEF ScreeningLocals
  <2>4. CandidateDone
    BY <1>1, <1>4, <1>5, <1>8, <2>1, CandidateCounted
  <2>5. AsEarned(call.counted, call.decisions)'
    <3> SUFFICES ASSUME NEW f \in Dispositions, NEW c \in call'.counted[f]
                 PROVE  \E e \in call'.decisions : Earned(e, c, f)'
      BY DEF AsEarned
    <3>1. CASE c \in call.counted[f]
      BY <1>1, <1>5, <1>8, <1>9, <3>1 DEF AsEarned, CallSound
    <3>2. CASE c \notin call.counted[f]
      <4>1. f = Final(d) /\ c = Candidate
        BY <1>7, <2>1, <3>2
      <4> QED BY <1>4, <1>8, <1>9, <4>1
    <3> QED BY <3>1, <3>2
  <2> QED BY <1>1, <1>3, <1>7, <1>8, <2>3, <2>4, <2>5, StoredStays
          DEF ScreeningInv, CallSound, CandidateDone, DecidedSound, Once
<1>11. CASE call' = [call EXCEPT !.todo = Tail(@), !.decisions = @ \cup {d},
                                 !.failed = @ \cup {Candidate}]
  <2>1. call'.counted = call.counted /\ call'.failed = call.failed \cup {Candidate}
    BY <1>5, <1>11 DEF ScreeningLocals
  <2>2. call' \in ScreeningLocals
    BY <1>5, <1>6, <1>7, <1>11 DEF ScreeningLocals
  <2>3. CandidateDone
    BY <1>1, <1>5, <1>8, <2>1, CandidateFailed
  <2>4. AsEarned(call.counted, call.decisions)'
    BY <1>1, <1>5, <1>8, <1>9, <2>1 DEF AsEarned, CallSound
  <2> QED BY <1>1, <1>3, <1>7, <1>8, <2>2, <2>3, <2>4, StoredStays
          DEF ScreeningInv, CallSound, CandidateDone, DecidedSound, Once
<1> QED BY <1>2, <1>10, <1>11

(* The next candidate fails.                                                *)
LEMMA FailedKeeps ==
    ASSUME ScreeningInv, at # "idle", call.todo # <<>>, Failed, at' = "next", stored' = stored
    PROVE  ScreeningInv'
<1>1. call \in ScreeningLocals /\ CallSound /\ IsInjective(call.todo) /\ call.decisions \subseteq Stored
  BY DEF ScreeningInv, CallSound
<1>2. Tail(call.todo) \in Seq(Candidates) /\ Candidate \in Candidates
  BY <1>1, TailSound DEF ScreeningLocals, Candidate
<1>3. /\ call'.todo = Tail(call.todo) /\ call'.counted = call.counted
      /\ call'.failed = call.failed \cup {Candidate} /\ call'.decisions = call.decisions
      /\ call' \in ScreeningLocals
  BY <1>1, <1>2 DEF Failed, ScreeningLocals
<1>4. CandidateDone
  BY <1>1, <1>3, CandidateFailed
<1>5. AsEarned(call.counted, call.decisions)'
  BY <1>1, <1>3, StoredStays DEF AsEarned, CallSound
<1> QED BY <1>1, <1>3, <1>4, <1>5, StoredStays
        DEF ScreeningInv, CallSound, CandidateDone, DecidedSound, Once

(* The links of a decision are stored, and the decision is listed.          *)
LEMMA LinkKeeps ==
    ASSUME ScreeningInv, LinkDecision
    PROVE  ScreeningInv'
<1>1. at = "decided" /\ stored' = stored
  BY DEF LinkDecision
<1>2. call.todo # <<>> /\ call.decision \in Decisions
  BY <1>1 DEF ScreeningInv, DecidedSound
<1>3. CASE Failed /\ at' = "next"
  BY <1>1, <1>2, <1>3, FailedKeeps
<1>4. CASE /\ call' = [call EXCEPT !.asked = @ + 1, !.decisions = @ \cup {call.decision}]
           /\ at' = "review"
  <2>1. call \in ScreeningLocals /\ CallSound
    BY <1>1 DEF ScreeningInv, CallSound
  <2>2. /\ call.decision \in Stored /\ call.decisions \cup {call.decision} \subseteq Nat
        /\ call.asked + 1 \in Nat
    BY <1>2, <2>1 DEF Decisions, OfKind, Stored, ScreeningInv, StoredSound, ScreeningLocals
  <2>3. /\ call' \in ScreeningLocals /\ call'.todo = call.todo /\ call'.counted = call.counted
        /\ call'.failed = call.failed /\ call'.decision = call.decision
        /\ call'.decisions = call.decisions \cup {call.decision}
    BY <1>4, <2>1, <2>2 DEF ScreeningLocals
  <2>4. AsEarned(call.counted, call.decisions)'
    BY <1>1, <2>1, <2>3, StoredStays DEF AsEarned, CallSound
  <2>5. CallSound'
    BY <1>1, <1>4, <2>1, <2>2, <2>3, <2>4, StoredStays DEF CallSound, Once
  <2>6. Sets' = Sets /\ Decisions' = Decisions
    BY <1>1, StoredStays DEF Sets, Decisions
  <2>7. \A d : ReviewsOf(d)' = ReviewsOf(d)
    BY <1>1, StoredStays
  <2>8. ReviewsOf(call.decision)' = ReviewsOf(call.decision)
    <3> PICK d : d = call.decision
      OBVIOUS
    <3> QED BY <2>3, <2>7
  <2>9. DecidedSound'
    BY <1>1, <1>4, <2>3, <2>6, <2>8 DEF DecidedSound, ScreeningInv, Candidate
  <2> QED BY <1>1, <2>5, <2>9, StoredStays DEF ScreeningInv
<1> QED BY <1>3, <1>4 DEF LinkDecision, Goto

(* A decision that cannot be read back is listed, and its candidate failed. *)
LEMMA UnreadKeeps ==
    ASSUME ScreeningInv, DecisionUnread
    PROVE  ScreeningInv'
<1>1. at = "decided" /\ at' = "next" /\ stored' = stored
  BY DEF DecisionUnread, Goto
<1>2. call \in ScreeningLocals /\ CallSound /\ IsInjective(call.todo) /\ call.decisions \subseteq Stored
  BY <1>1 DEF ScreeningInv, CallSound
<1>3. call.todo # <<>> /\ call.decision \in Decisions /\ call.decision \in Stored
  BY <1>1 DEF ScreeningInv, DecidedSound, Decisions, OfKind
<1>4. Tail(call.todo) \in Seq(Candidates) /\ Candidate \in Candidates
  BY <1>2, <1>3, TailSound DEF ScreeningLocals, Candidate
<1>5. call.decision \in Nat /\ call.asked + 1 \in Nat
  BY <1>2, <1>3 DEF ScreeningLocals, Stored, ScreeningInv, StoredSound
<1>6. /\ call'.todo = Tail(call.todo) /\ call'.counted = call.counted
      /\ call'.failed = call.failed \cup {Candidate}
      /\ call'.decisions = call.decisions \cup {call.decision}
      /\ call' \in ScreeningLocals
  BY <1>2, <1>4, <1>5 DEF DecisionUnread, ScreeningLocals
<1>7. CandidateDone
  BY <1>1, <1>2, <1>3, <1>6, CandidateFailed
<1>8. AsEarned(call.counted, call.decisions)'
  BY <1>1, <1>2, <1>6, StoredStays DEF AsEarned, CallSound
<1> QED BY <1>1, <1>2, <1>3, <1>6, <1>7, <1>8, StoredStays
        DEF ScreeningInv, CallSound, CandidateDone, DecidedSound, Once

(* The decision just made is counted, and no review of it is stored.        *)
LEMMA CountedKeeps ==
    ASSUME ScreeningInv, at = "review", NEW final \in Dispositions,
           \/ final = stored[call.decision].disposition
           \/ final = "uncertain" /\ NeedsReview(call.decision),
           Counted(final), at' = "next", stored' = stored
    PROVE  ScreeningInv'
<1> PICK d : d = call.decision
  OBVIOUS
<1>1. at = "review" /\ at' = "next" /\ stored' = stored
  OBVIOUS
<1>2. /\ call.todo # <<>> /\ d \in Decisions /\ stored[d].candidate = Candidate
      /\ \A r \in ReviewsOf(d) : stored[r].by = "human"
      /\ d \in call.decisions
  BY <1>1 DEF ScreeningInv, DecidedSound
<1> DEFINE counted == [call.counted EXCEPT ![final] = @ \cup {Candidate}]
<1>3. Earned(d, Candidate, final)
  <2>1. stored[d].matched => final # "include"
    BY <1>2 DEF ScreeningInv, DecisionsSound
  <2>2. final = stored[d].disposition \/ (final = "uncertain" /\ NeedsReview(d))
    OBVIOUS
  <2> QED BY <1>2, <2>1, <2>2 DEF Earned
<1>4. /\ call \in ScreeningLocals /\ CallSound /\ IsInjective(call.todo)
      /\ call.decisions \subseteq Stored /\ call.counted \in [Dispositions -> SUBSET Candidates]
  BY <1>1 DEF ScreeningInv, CallSound, ScreeningLocals
<1>5. Tail(call.todo) \in Seq(Candidates) /\ Candidate \in Candidates
  BY <1>2, <1>4, TailSound DEF ScreeningLocals, Candidate
<1>6. counted \in [Dispositions -> SUBSET Candidates]
  BY <1>4, <1>5
<1>7. call' = [call EXCEPT !.todo = Tail(call.todo), !.counted = counted]
  BY <1>4 DEF Counted, ScreeningLocals
<1>8. /\ call' \in ScreeningLocals /\ call'.todo = Tail(call.todo) /\ call'.counted = counted
      /\ call'.failed = call.failed /\ call'.decisions = call.decisions
  <2> HIDE DEF counted
  <2> QED BY <1>4, <1>5, <1>6, <1>7 DEF ScreeningLocals
<1>9. CandidateDone
  BY <1>1, <1>2, <1>3, <1>4, <1>8, CandidateCounted
<1>10. AsEarned(call.counted, call.decisions)'
  <2> SUFFICES ASSUME NEW f \in Dispositions, NEW c \in call'.counted[f]
               PROVE  \E e \in call'.decisions : Earned(e, c, f)'
    BY DEF AsEarned
  <2>1. \A e : Earned(e, c, f) => Earned(e, c, f)'
    BY <1>1, StoredStays
  <2>2. CASE c \in call.counted[f]
    BY <1>1, <1>4, <1>8, <2>1, <2>2 DEF AsEarned, CallSound
  <2>3. CASE c \notin call.counted[f]
    <3>1. f = final /\ c = Candidate
      BY <1>4, <1>8, <2>3
    <3> QED BY <1>2, <1>3, <1>8, <2>1, <3>1
  <2> QED BY <2>2, <2>3
<1> QED BY <1>1, <1>4, <1>8, <1>9, <1>10, StoredStays
        DEF ScreeningInv, CallSound, CandidateDone, DecidedSound, Once

(* A decision without a review counts as it is.                             *)
LEMMA NotReviewedKeeps ==
    ASSUME ScreeningInv, NotReviewed
    PROVE  ScreeningInv'
<1> PICK final : final = stored[call.decision].disposition
  OBVIOUS
<1>1. at = "review" /\ at' = "next" /\ stored' = stored /\ Counted(final)
  BY DEF NotReviewed, Goto
<1>2. final \in Dispositions
  BY <1>1 DEF ScreeningInv, DecidedSound, DecisionsSound
<1> QED BY <1>1, <1>2, CountedKeeps

(* So does one whose review is lost, or it counts as uncertain.             *)
LEMMA ReviewLostKeeps ==
    ASSUME ScreeningInv, NEW approved \in BOOLEAN, ReviewLost(approved)
    PROVE  ScreeningInv'
<1> PICK final : final = AfterReview(call.decision, approved)
  OBVIOUS
<1>1. /\ at = "review" /\ at' = "next" /\ stored' = stored /\ Counted(final)
      /\ NeedsReview(call.decision)
  BY DEF ReviewLost, Goto
<1>2. final = stored[call.decision].disposition \/ final = "uncertain"
  BY DEF AfterReview
<1>3. final \in Dispositions
  BY <1>1, <1>2 DEF ScreeningInv, DecidedSound, DecisionsSound, Dispositions
<1> QED BY <1>1, <1>2, <1>3, CountedKeeps

(* Of what a put does not add to, nothing changes.                          *)
LEMMA PutStays ==
    ASSUME ScreeningInv, NEW a, Put(a)
    PROVE  /\ a.kind # "decision" => DecisionsSound' /\ Decisions' = Decisions
           /\ a.kind # "review" => ReviewsSound' /\ \A d : ReviewsOf(d)' = ReviewsOf(d)
           /\ a.kind # "set" => Sets' = Sets
<1>1. /\ Stored' = Stored \cup {Latest + 1} /\ Latest + 1 \notin Stored
      /\ \A i \in Stored : stored'[i] = stored[i]
  BY PutAdds DEF ScreeningInv
<1>2. \A kind : a.kind # kind => OfKind(kind)' = OfKind(kind)
  BY PutOfKind DEF ScreeningInv
<1>3. Decisions \subseteq Stored /\ \A kind : OfKind(kind) \subseteq Stored
  BY DEF Decisions, OfKind
<1>4. ASSUME a.kind # "decision" PROVE DecisionsSound' /\ Decisions' = Decisions
  BY <1>1, <1>2, <1>3, <1>4 DEF DecisionsSound, Decisions, ScreeningInv
<1>5. ASSUME a.kind # "review" PROVE ReviewsSound' /\ \A d : ReviewsOf(d)' = ReviewsOf(d)
  <2>1. OfKind("review")' = OfKind("review") /\ OfKind("review") \subseteq Stored
    BY <1>2, <1>3, <1>5
  <2>2. Decisions \subseteq Decisions'
    BY <1>1 DEF Decisions, OfKind
  <2> QED BY <1>1, <1>3, <2>1, <2>2 DEF ReviewsSound, ReviewsOf, ScreeningInv
<1> QED BY <1>2, <1>4, <1>5 DEF Sets

(* Sets stay sound if the policy disapproves of no decision they count.     *)
LEMMA SetsStay ==
    ASSUME ScreeningInv, NEW a, Put(a),
           a.kind = "review" /\ a.by = "disapproval" =>
              \A s \in Sets : a.decision \notin stored[s].decisions,
           NEW s \in Sets
    PROVE  SetSound(s)'
<1>1. s \in Stored /\ stored'[s] = stored[s]
  BY PutAdds DEF ScreeningInv, Sets, OfKind
<1>2. /\ Once(stored[s].counted, stored[s].failed)
      /\ AsEarned(stored[s].counted, stored[s].decisions)
      /\ \A d \in stored[s].decisions : d < s
  BY DEF ScreeningInv, SetsSound, SetSound
<1>3. ASSUME NEW d \in stored[s].decisions, NEW c, NEW f, Earned(d, c, f)
      PROVE  Earned(d, c, f)'
  BY <1>3, EarnedStays DEF ScreeningInv
<1> QED BY <1>1, <1>2, <1>3 DEF SetSound, Once, AsEarned

(* What the call counted stays earned in the same way.                      *)
LEMMA CountedStays ==
    ASSUME ScreeningInv, at # "idle", NEW a, Put(a),
           a.kind = "review" /\ a.by = "disapproval" =>
              a.decision \in Decisions /\ stored[a.decision].candidate \in ToSet(call.todo),
           NEW f \in Dispositions, NEW c \in call.counted[f]
    PROVE  \E e \in call.decisions : Earned(e, c, f)'
<1>1. PICK e \in call.decisions : Earned(e, c, f)
  BY DEF ScreeningInv, CallSound, AsEarned
<1>2. c \notin ToSet(call.todo) /\ stored[e].candidate = c
  BY <1>1 DEF ScreeningInv, CallSound, Earned
<1>3. a.kind = "review" => a.decision # e \/ a.by # "disapproval"
  BY <1>2
<1> QED BY <1>1, <1>3, EarnedStays DEF ScreeningInv

(* The model decides on a candidate that has no decision.                   *)
LEMMA DecideKeeps ==
    ASSUME ScreeningInv, NEW answer \in Answers, Decide(answer)
    PROVE  ScreeningInv'
<1> PICK a : a = [kind |-> "decision", candidate |-> Candidate, matched |-> answer.matched,
                  low |-> answer.low, disposition |-> Forced(answer.disposition, answer.matched)]
  OBVIOUS
<1>1. /\ at = "next" /\ at' = "decided" /\ call.todo # <<>> /\ DecisionsOn(Candidate) = {}
      /\ Put(a) /\ call' = [call EXCEPT !.decision = Len(stored) + 1]
  BY DEF Decide, Goto
<1>2. /\ StoredSound' /\ Latest \in Nat /\ Stored = 1 .. Latest
      /\ Stored' = Stored \cup {Latest + 1} /\ Latest + 1 \notin Stored
      /\ \A i \in Stored : stored'[i] = stored[i]
      /\ stored'[Latest + 1] = a
  BY <1>1, PutAdds DEF ScreeningInv
<1>3. Decisions' = Decisions \cup {Latest + 1} /\ Decisions \subseteq Stored
  BY <1>1, PutOfKind DEF ScreeningInv, Decisions, OfKind
<1>4. /\ ReviewsSound' /\ \A d : ReviewsOf(d)' = ReviewsOf(d)
      /\ Sets' = Sets
  BY <1>1, PutStays
<1>5. call \in ScreeningLocals /\ CallSound
  BY <1>1 DEF ScreeningInv, CallSound
<1>6. /\ call' \in ScreeningLocals /\ call'.todo = call.todo /\ call'.counted = call.counted
      /\ call'.failed = call.failed /\ call'.decisions = call.decisions
      /\ call'.decision = Latest + 1
  <2>1. call' = [call EXCEPT !.decision = Latest + 1] /\ Latest + 1 \in Nat
    BY <1>1, <1>2 DEF Latest
  <2> QED BY <1>5, <2>1 DEF ScreeningLocals
<1>7. DecisionsSound'
  <2>1. \A d \in Decisions : stored[d].candidate # Candidate
    BY <1>1 DEF DecisionsOn
  <2>2. /\ a.candidate = Candidate /\ a.disposition \in Dispositions
        /\ a.matched => a.disposition = "exclude"
    BY AnswersAssumption DEF Forced, Dispositions
  <2>3. \A d \in Decisions' :
           /\ stored'[d].disposition \in Dispositions
           /\ stored'[d].matched => stored'[d].disposition = "exclude"
    BY <1>2, <1>3, <2>2 DEF DecisionsSound, ScreeningInv
  <2>4. \A d \in Decisions : stored'[d] = stored[d] /\ stored'[d].candidate # stored'[Latest + 1].candidate
    BY <1>2, <1>3, <2>1, <2>2
  <2>5. \A c, d \in Decisions : stored'[c].candidate = stored'[d].candidate => c = d
    BY <2>4 DEF DecisionsSound, ScreeningInv
  <2>6. \A c, d \in Decisions' : stored'[c].candidate = stored'[d].candidate => c = d
    BY <1>3, <2>4, <2>5
  <2> QED BY <2>3, <2>6 DEF DecisionsSound
<1>8. SetsSound'
  BY <1>1, <1>4, SetsStay DEF SetsSound
<1>9. CallSound'
  <2>1. AsEarned(call.counted, call.decisions)'
    BY <1>1, <1>6, CountedStays DEF AsEarned
  <2> QED BY <1>1, <1>2, <1>5, <1>6, <2>1 DEF CallSound, Once
<1>10. DecidedSound'
  <2>1. ReviewsOf(call.decision)' = {}
    <3>1. \A r \in OfKind("review") : stored[r].decision \in Stored
      BY <1>3 DEF ScreeningInv, ReviewsSound
    <3>2. ReviewsOf(Latest + 1) = {}
      BY <1>2, <3>1 DEF ReviewsOf
    <3> PICK n : n = Latest + 1
      OBVIOUS
    <3>3. ReviewsOf(n)' = {}
      BY <1>4, <3>2
    <3> QED BY <1>6, <3>3
  <2>2. \A s \in Sets' : s < Latest + 1
    BY <1>2, <1>4 DEF Sets, OfKind
  <2> QED BY <1>1, <1>2, <1>3, <1>6, <2>1, <2>2 DEF DecidedSound, Candidate
<1> QED BY <1>2, <1>4, <1>7, <1>8, <1>9, <1>10 DEF ScreeningInv

(* A review that follows its decision or a person adds to a sound store.    *)
LEMMA ReviewAdds ==
    ASSUME ScreeningInv, NEW a, Put(a),
           a.kind = "review", a.decision \in Decisions, a.final \in Dispositions,
           \/ a.by = "human"
           \/ /\ \A r \in ReviewsOf(a.decision) : stored[r].by = "human"
              /\ \/ a.by = "policy" /\ a.final = stored[a.decision].disposition
                 \/ a.by = "disapproval" /\ a.final = "uncertain"
    PROVE  ReviewsSound'
<1>1. /\ Stored' = Stored \cup {Latest + 1} /\ Latest + 1 \notin Stored
      /\ \A i \in Stored : stored'[i] = stored[i]
      /\ stored'[Latest + 1] = a
  BY PutAdds DEF ScreeningInv
<1>2. OfKind("review")' = OfKind("review") \cup {Latest + 1} /\ OfKind("review") \subseteq Stored
  BY PutOfKind DEF ScreeningInv, OfKind
<1>3. Decisions' = Decisions /\ Decisions \subseteq Stored
  BY PutStays DEF Decisions, OfKind
<1>4. ASSUME NEW r \in OfKind("review")'
      PROVE  /\ stored'[r].decision \in Decisions /\ stored'[r].final \in Dispositions
             /\ \/ stored'[r].by = "human"
                \/ /\ stored'[r].by = "policy"
                   /\ stored'[r].final = stored'[stored'[r].decision].disposition
                \/ stored'[r].by = "disapproval" /\ stored'[r].final = "uncertain"
  <2>1. CASE r = Latest + 1
    BY <1>1, <1>3, <2>1
  <2>2. CASE r \in OfKind("review")
    <3>1. stored'[r] = stored[r] /\ stored[r].decision \in Decisions
      BY <1>1, <1>2, <2>2 DEF ScreeningInv, ReviewsSound
    <3>2. stored'[stored[r].decision] = stored[stored[r].decision]
      BY <1>1, <1>3, <3>1
    <3> QED BY <2>2, <3>1, <3>2 DEF ScreeningInv, ReviewsSound
  <2> QED BY <1>2, <2>1, <2>2
<1>5. \A q \in OfKind("review") :
         stored[q].decision = a.decision /\ stored[q].by # "human" => a.by = "human"
  BY DEF ReviewsOf
<1>6. ASSUME NEW q \in OfKind("review")', NEW r \in OfKind("review")',
             stored'[q].decision = stored'[r].decision,
             stored'[q].by # "human" /\ stored'[r].by # "human"
      PROVE  q = r
  <2>1. CASE q \in OfKind("review") /\ r \in OfKind("review")
    BY <1>1, <1>2, <1>6, <2>1 DEF ScreeningInv, ReviewsSound
  <2>2. CASE q = Latest + 1 \/ r = Latest + 1
    BY <1>1, <1>2, <1>5, <1>6, <2>2
  <2> QED BY <1>2, <2>1, <2>2
<1> QED BY <1>3, <1>4, <1>6 DEF ReviewsSound

(* A person reviews a decision, at any time.                                *)
LEMMA OverrideKeeps ==
    ASSUME ScreeningInv, NEW d \in Decisions, NEW final \in Dispositions, Override(d, final)
    PROVE  ScreeningInv'
<1> PICK a : a = [kind |-> "review", decision |-> d, final |-> final, by |-> "human"]
  OBVIOUS
<1>1. Put(a) /\ at' = at /\ call' = call
  BY DEF Override
<1>2. /\ StoredSound' /\ Stored' = Stored \cup {Latest + 1}
      /\ \A i \in Stored : stored'[i] = stored[i]
      /\ stored'[Latest + 1] = a
  BY <1>1, PutAdds DEF ScreeningInv
<1>3. DecisionsSound' /\ Decisions' = Decisions /\ Sets' = Sets
  BY <1>1, PutStays
<1>4. ReviewsSound'
  BY <1>1, ReviewAdds
<1>5. SetsSound'
  BY <1>1, <1>3, SetsStay DEF SetsSound
<1>6. CallSound'
  <2>1. at # "idle" => AsEarned(call.counted, call.decisions)'
    BY <1>1, CountedStays DEF AsEarned
  <2> QED BY <1>1, <1>2, <2>1 DEF ScreeningInv, CallSound, Once
<1>7. DecidedSound'
  <2> SUFFICES ASSUME at \in {"decided", "review"} PROVE DecidedSound'
    BY <1>1 DEF DecidedSound
  <2>1. DecidedSound /\ call.decision \in Stored
    BY DEF ScreeningInv, DecidedSound, Decisions, OfKind
  <2>2. \A r \in ReviewsOf(call.decision)' : stored'[r].by = "human"
    <3>1. \A r \in ReviewsOf(call.decision) : stored[r].by = "human"
      BY <2>1 DEF DecidedSound
    <3> QED BY <1>1, <1>2, <3>1 DEF ReviewsOf, OfKind
  <2> QED BY <1>1, <1>2, <1>3, <2>1, <2>2 DEF DecidedSound, Candidate
<1> QED BY <1>2, <1>3, <1>4, <1>5, <1>6, <1>7 DEF ScreeningInv

(* The policy reviews the decision just made, and the candidate is counted. *)
LEMMA ReviewKeeps ==
    ASSUME ScreeningInv, NEW approved \in BOOLEAN, Review(approved)
    PROVE  ScreeningInv'
<1> PICK d : d = call.decision
  OBVIOUS
<1> PICK final, p : final = AfterReview(d, approved) /\ p = Candidate
  OBVIOUS
<1> DEFINE counted == [call.counted EXCEPT ![final] = @ \cup {p}]
<1> PICK a : a = [kind |-> "review", decision |-> d, final |-> final,
                  by |-> IF approved THEN "policy" ELSE "disapproval"]
  OBVIOUS
<1>1. /\ at = "review" /\ at' = "next" /\ Put(a)
      /\ call' = [call EXCEPT !.todo = Tail(@), !.counted[final] = @ \cup {p}]
  BY DEF Review, Goto, Counted
<1>2. /\ StoredSound' /\ Stored' = Stored \cup {Latest + 1} /\ Latest + 1 \notin Stored
      /\ \A i \in Stored : stored'[i] = stored[i]
      /\ stored'[Latest + 1] = a
  BY <1>1, PutAdds DEF ScreeningInv
<1>3. DecisionsSound' /\ Decisions' = Decisions /\ Sets' = Sets
  BY <1>1, PutStays
<1>4. /\ call.todo # <<>> /\ d \in Decisions /\ stored[d].candidate = p
      /\ \A s \in Sets : s < d
      /\ \A r \in ReviewsOf(d) : stored[r].by = "human"
      /\ d \in call.decisions /\ d \in Stored
  BY <1>1 DEF ScreeningInv, DecidedSound, Decisions, OfKind
<1>5. /\ final \in Dispositions
      /\ IF approved THEN final = stored[d].disposition ELSE final = "uncertain"
  BY <1>4 DEF AfterReview, ScreeningInv, DecisionsSound, Dispositions
<1>6. ReviewsSound'
  <2>1. /\ a.kind = "review" /\ a.decision \in Decisions /\ a.final \in Dispositions
        /\ \A r \in ReviewsOf(a.decision) : stored[r].by = "human"
        /\ \/ a.by = "policy" /\ a.final = stored[a.decision].disposition
           \/ a.by = "disapproval" /\ a.final = "uncertain"
    BY <1>4, <1>5
  <2> QED BY <1>1, <2>1, ReviewAdds
<1>7. SetsSound'
  <2>1. \A s \in Sets : d \notin stored[s].decisions
    <3> SUFFICES ASSUME NEW s \in Sets, d \in stored[s].decisions PROVE FALSE
      OBVIOUS
    <3>1. s < d /\ d < s
      BY <1>4 DEF ScreeningInv, SetsSound, SetSound
    <3>2. s \in Nat /\ d \in Nat
      BY <1>4 DEF ScreeningInv, StoredSound, Sets, OfKind, Stored
    <3> QED BY <3>1, <3>2
  <2> QED BY <1>1, <1>3, <2>1, SetsStay DEF SetsSound
<1>8. /\ call \in ScreeningLocals /\ CallSound /\ IsInjective(call.todo)
      /\ call.decisions \subseteq Stored /\ call.counted \in [Dispositions -> SUBSET Candidates]
  BY <1>1 DEF ScreeningInv, CallSound, ScreeningLocals
<1>9. /\ Tail(call.todo) \in Seq(Candidates) /\ p \in Candidates
      /\ p \in ToSet(call.todo)
  BY <1>4, <1>8, TailSound DEF ScreeningLocals, Candidate
<1>10. /\ call' \in ScreeningLocals /\ call'.todo = Tail(call.todo) /\ call'.counted = counted
       /\ call'.failed = call.failed /\ call'.decisions = call.decisions
  <2>1. counted \in [Dispositions -> SUBSET Candidates]
    BY <1>8, <1>9
  <2>2. call' = [call EXCEPT !.todo = Tail(call.todo), !.counted = counted]
    BY <1>1, <1>8 DEF ScreeningLocals
  <2> HIDE DEF counted
  <2> QED BY <1>8, <1>9, <2>1, <2>2 DEF ScreeningLocals
<1>11. CandidateDone
  BY <1>1, <1>4, <1>5, <1>8, <1>10, CandidateCounted
<1>12. Earned(d, p, final)'
  <2>1. Latest + 1 \in ReviewsOf(d)' /\ stored'[Latest + 1].final = final
    BY <1>2 DEF ReviewsOf, OfKind
  <2>2. stored[d].matched => final # "include"
    BY <1>4, <1>5 DEF ScreeningInv, DecisionsSound
  <2>3. \A r \in ReviewsOf(d)' : stored'[r].by = "disapproval" => final = "uncertain"
    BY <1>2, <1>4, <1>5 DEF ReviewsOf, OfKind
  <2> QED BY <1>2, <1>3, <1>4, <2>1, <2>2, <2>3 DEF Earned
<1>13. AsEarned(call.counted, call.decisions)'
  <2> SUFFICES ASSUME NEW f \in Dispositions, NEW c \in call'.counted[f]
               PROVE  \E e \in call'.decisions : Earned(e, c, f)'
    BY DEF AsEarned
  <2>1. CASE c \in call.counted[f]
    BY <1>1, <1>4, <1>9, <1>10, <2>1, CountedStays
  <2>2. CASE c \notin call.counted[f]
    <3>1. f = final /\ c = p
      BY <1>8, <1>10, <2>2
    <3> QED BY <1>4, <1>10, <1>12, <3>1
  <2> QED BY <2>1, <2>2
<1> QED BY <1>1, <1>2, <1>3, <1>6, <1>7, <1>8, <1>10, <1>11, <1>13
        DEF ScreeningInv, CallSound, CandidateDone, DecidedSound, Once

(* The execution is put, then the set, which takes over what was counted.   *)
LEMMA RecordKeeps ==
    ASSUME ScreeningInv, Record
    PROVE  ScreeningInv'
<1> PICK a : a = [kind |-> "execution", decisions |-> call.decisions]
  OBVIOUS
<1>1. /\ at # "idle" /\ at' = "set" /\ Put(a)
      /\ call' = [call EXCEPT !.execution = Latest + 1]
  BY DEF Record, Goto, Latest
<1>2. StoredSound' /\ Latest \in Nat /\ Stored' = Stored \cup {Latest + 1}
  BY <1>1, PutAdds DEF ScreeningInv
<1>3. DecisionsSound' /\ ReviewsSound' /\ Sets' = Sets
  BY <1>1, PutStays
<1>4. SetsSound'
  BY <1>1, <1>3, SetsStay DEF SetsSound
<1>5. CallSound'
  <2>1. call \in ScreeningLocals /\ CallSound /\ Latest + 1 \in Nat
    BY <1>1, <1>2 DEF ScreeningInv, CallSound
  <2>2. /\ call' \in ScreeningLocals /\ call'.todo = call.todo /\ call'.counted = call.counted
        /\ call'.failed = call.failed /\ call'.decisions = call.decisions
    BY <1>1, <2>1 DEF ScreeningLocals
  <2>3. AsEarned(call.counted, call.decisions)'
    BY <1>1, <2>2, CountedStays DEF AsEarned
  <2> QED BY <1>1, <1>2, <2>1, <2>2, <2>3 DEF CallSound, Once
<1> QED BY <1>1, <1>2, <1>3, <1>4, <1>5 DEF ScreeningInv, DecidedSound

LEMMA PutSetKeeps ==
    ASSUME ScreeningInv, PutSet
    PROVE  ScreeningInv'
<1> PICK a : a = [kind |-> "set", counted |-> call.counted, failed |-> call.failed,
                  decisions |-> call.decisions]
  OBVIOUS
<1> PICK n : n = Latest + 1
  OBVIOUS
<1>1. at = "set" /\ at' = "idle" /\ Put(a)
  BY DEF PutSet, Return
<1>2. /\ StoredSound' /\ Latest \in Nat /\ Stored = 1 .. Latest
      /\ stored'[n] = a
  BY <1>1, PutAdds DEF ScreeningInv
<1>3. DecisionsSound' /\ ReviewsSound'
  BY <1>1, PutStays
<1>4. Sets' = Sets \cup {n}
  BY <1>1, PutOfKind DEF ScreeningInv, Sets
<1>5. SetSound(n)'
  <2>1. Once(call.counted, call.failed) /\ call.decisions \subseteq Stored
    BY <1>1 DEF ScreeningInv, CallSound
  <2>2. \A f \in Dispositions : \A c \in call.counted[f] :
           \E e \in call.decisions : Earned(e, c, f)'
    BY <1>1, CountedStays
  <2>3. \A d \in call.decisions : d < n
    BY <1>2, <2>1
  <2> QED BY <1>2, <2>1, <2>2, <2>3 DEF SetSound, Once, AsEarned
<1> QED BY <1>1, <1>2, <1>3, <1>4, <1>5, SetsStay
        DEF ScreeningInv, SetsSound, CallSound, DecidedSound

(* The screened literature follows from the decisions and their reviews,    *)
(* for any candidates, answers and policy, any number of runs and reviews   *)
(* by persons, and whenever the process dies.                               *)
THEOREM ScreeningCorrect == ScreeningSpec => []ScreenedAsDecided
<1>1. NothingStored => ScreeningInv
  <2> SUFFICES ASSUME NothingStored PROVE ScreeningInv
    OBVIOUS
  <2>1. StoredSound /\ at = "idle" /\ \A kind : OfKind(kind) = {}
    BY NothingIsStored
  <2> QED BY <2>1 DEF ScreeningInv, DecisionsSound, ReviewsSound, SetsSound, CallSound,
                      DecidedSound, Decisions, Sets
<1>2. ScreeningInv /\ [ScreeningNext]_researchVars => ScreeningInv'
  <2> SUFFICES ASSUME ScreeningInv, [ScreeningNext]_researchVars PROVE ScreeningInv'
    OBVIOUS
  <2>1. ASSUME NEW candidates \in CandidateLists, Screen(candidates) PROVE ScreeningInv'
    BY <2>1, ScreenKeeps
  <2>2. CASE BudgetStop
    <3>1. /\ at = "next" /\ at' = "record" /\ stored' = stored /\ call' = call
      BY <2>2 DEF BudgetStop, Goto
    <3>2. CallSound'
      BY <3>1, StoredStays DEF ScreeningInv, CallSound, Once, AsEarned
    <3> QED BY <3>1, <3>2, StoredStays DEF ScreeningInv, DecidedSound
  <2>3. CASE ReuseDecision
    BY <2>3, ReuseKeeps
  <2>4. CASE ScreenFails
    BY <2>4, FailedKeeps DEF ScreenFails, Goto
  <2>5. CASE LinkDecision
    BY <2>5, LinkKeeps
  <2>6. CASE NotReviewed
    BY <2>6, NotReviewedKeeps
  <2>14. CASE DecisionUnread
    BY <2>14, UnreadKeeps
  <2>15. ASSUME NEW approved \in BOOLEAN, ReviewLost(approved) PROVE ScreeningInv'
    BY <2>15, ReviewLostKeeps
  <2>7. CASE Record
    BY <2>7, RecordKeeps
  <2>8. CASE PutSet
    BY <2>8, PutSetKeeps
  <2>9. ASSUME NEW answer \in Answers, Decide(answer) PROVE ScreeningInv'
    BY <2>9, DecideKeeps
  <2>10. ASSUME NEW approved \in BOOLEAN, Review(approved) PROVE ScreeningInv'
    BY <2>10, ReviewKeeps
  <2>11. ASSUME NEW d \in Decisions, NEW final \in Dispositions, Override(d, final)
         PROVE  ScreeningInv'
    BY <2>11, OverrideKeeps
  <2>12. CASE Die
    <3>1. stored' = stored /\ at' = "idle"
      BY <2>12 DEF Die
    <3> QED BY <3>1, StoredStays DEF ScreeningInv, CallSound, DecidedSound
  <2>13. CASE UNCHANGED researchVars
    <3>1. stored' = stored /\ at' = at /\ call' = call
      BY <2>13 DEF researchVars
    <3>2. CallSound'
      BY <3>1, StoredStays DEF ScreeningInv, CallSound, Once, AsEarned
    <3>3. DecidedSound'
      BY <3>1, StoredStays DEF ScreeningInv, DecidedSound, Decisions, Sets, Candidate
    <3> QED BY <3>1, <3>2, <3>3, StoredStays DEF ScreeningInv
  <2> QED BY <2>1, <2>2, <2>3, <2>4, <2>5, <2>6, <2>7, <2>8, <2>9, <2>10, <2>11, <2>12, <2>13,
             <2>14, <2>15
          DEF ScreeningNext
<1>3. ScreeningInv => ScreenedAsDecided
  <2> SUFFICES ASSUME ScreeningInv, NEW s \in Sets, NEW f \in Dispositions,
                      NEW c \in stored[s].counted[f]
               PROVE  /\ c \notin stored[s].failed
                      /\ \A g \in Dispositions \ {f} : c \notin stored[s].counted[g]
                      /\ \E d \in stored[s].decisions : Earned(d, c, f)
    BY DEF ScreenedAsDecided, ScreeningInv, DecisionsSound, Earned
  <2> QED BY DEF ScreeningInv, SetsSound, SetSound, Once, AsEarned
<1> QED BY <1>1, <1>2, <1>3, PTL DEF ScreeningSpec

-----------------------------------------------------------------------------
(* Benchmarks                                                               *)
\* What is left of a sequence, and the places that are done.
LastOf(rest, all) ==
    /\ Len(rest) <= Len(all)
    /\ \A k \in 1 .. Len(rest) : rest[k] = all[Len(all) - Len(rest) + k]

Passed(rest, all) == 1 .. Len(all) - Len(rest)

(* A step takes the next of a sequence.                                     *)
LEMMA TailOfLast ==
    ASSUME NEW S, NEW rest \in Seq(S), NEW all \in Seq(S), LastOf(rest, all), rest # <<>>,
           NEW n, n = Len(all) - Len(rest) + 1
    PROVE  /\ n \in DOMAIN all /\ Head(rest) = all[n] /\ Head(rest) \in S
           /\ Tail(rest) \in Seq(S) /\ LastOf(Tail(rest), all)
           /\ Len(all) - Len(Tail(rest)) = n
           /\ n \notin Passed(rest, all)
           /\ Passed(Tail(rest), all) = Passed(rest, all) \cup {n}
           /\ Passed(rest, all) = 1 .. n - 1
<1>1. /\ Len(rest) \in Nat \ {0} /\ Len(all) \in Nat /\ DOMAIN all = 1 .. Len(all)
      /\ Head(rest) = rest[1] /\ Head(rest) \in S /\ Tail(rest) \in Seq(S)
      /\ Len(Tail(rest)) = Len(rest) - 1
      /\ \A i \in 1 .. Len(rest) - 1 : Tail(rest)[i] = rest[i + 1]
  OBVIOUS
<1>2. n \in 1 .. Len(all) /\ Len(all) - Len(Tail(rest)) = n
  BY <1>1 DEF LastOf
<1>3. rest[1] = all[n]
  BY <1>1 DEF LastOf
<1>4. LastOf(Tail(rest), all)
  <2>1. ASSUME NEW k \in 1 .. Len(rest) - 1
        PROVE  Tail(rest)[k] = all[n + k]
    <3>1. k + 1 \in 1 .. Len(rest) /\ Len(all) - Len(rest) + (k + 1) = n + k
      BY <1>1
    <3>2. rest[k + 1] = all[n + k]
      BY <3>1 DEF LastOf
    <3> QED BY <1>1, <3>2
  <2> QED BY <1>1, <1>2, <2>1 DEF LastOf
<1> QED BY <1>1, <1>2, <1>3, <1>4 DEF Passed

(* At first everything is left.                                             *)
LEMMA AllIsLast ==
    ASSUME NEW S, NEW all \in Seq(S)
    PROVE  LastOf(all, all) /\ Passed(all, all) = {} /\ Passed(<<>>, all) = DOMAIN all
BY DEF LastOf, Passed

Benchmarks == OfKind("benchmark")

\* A case of the benchmark with that id is stored.
There(id, case) == \E c \in CaseOf(case) : stored[c].benchmark = id

\* The cases of a benchmark that are stored are those of the definition.
Follows(b, d) ==
    /\ d.id = stored[b].id /\ Ids(d) = stored[b].cases
    /\ \A k \in DOMAIN d.cases : \A c \in CaseOf(d.cases[k].id) :
          stored[c].benchmark = d.id => stored[c].content = d.cases[k].content

\* An id has one artifact, a case has a benchmark, and a benchmark follows a definition,
\* of whose cases the first ones are stored.
RegisteredSound ==
    /\ \A b, c \in Benchmarks : stored[b].id = stored[c].id => b = c
    /\ \A c \in OfKind("case") : \E b \in Benchmarks : stored[b].id = stored[c].benchmark
    /\ \A c, e \in OfKind("case") : stored[c].id = stored[e].id => c = e
    /\ \A b \in Benchmarks :
          /\ \E d \in Definitions : Follows(b, d)
          /\ \A k \in DOMAIN stored[b].cases : There(stored[b].id, stored[b].cases[k]) =>
                \A j \in 1 .. k : There(stored[b].id, stored[b].cases[j])

CaseVerdicts == {"passed", "failed", "error", "skipped"}

\* A result passes its case only if every evaluator judged it, and fails it if one did.
ResultSound(r, case) ==
    /\ r \in OfKind("result") /\ stored[r].case \in Stored /\ stored[stored[r].case].id = case
    /\ stored[r].status \in CaseVerdicts /\ stored[r].verdicts \subseteq Stored
    /\ stored[r].status = "passed" =>
          /\ {stored[v].by : v \in stored[r].verdicts} = {e.id : e \in ToSet(Evaluators)}
          /\ \A v \in stored[r].verdicts : stored[v].verdict # "error"
    /\ stored[r].status = "failed" <=>
          \E v \in stored[r].verdicts : stored[v].verdict = "failed" /\ stored[v].deterministic

PassedOf(results) == {k \in DOMAIN results : stored[results[k]].status = "passed"}

ReportSound(r) ==
    /\ stored[r].benchmark \in Benchmarks
    /\ stored[r].results \in Seq(Nat)
    /\ DOMAIN stored[r].results = DOMAIN stored[stored[r].benchmark].cases
    /\ \A k \in DOMAIN stored[r].results :
          ResultSound(stored[r].results[k], stored[stored[r].benchmark].cases[k])
    /\ stored[r].passed = Cardinality(PassedOf(stored[r].results))
    /\ stored[r].status = "passed" <=> PassedOf(stored[r].results) = DOMAIN stored[r].results

ReportsSound == \A r \in OfKind("report") : ReportSound(r)

\* The step a call is at, or goes on with when its links are stored.
Phase == IF at = "link" THEN call.step ELSE at

Cases == UNION {ToSet(d.cases) : d \in Definitions}

RegistrationLocals ==
    [todo : Seq(Cases), definition : Definitions, links : SUBSET Nat, step : {"case"},
     fresh : BOOLEAN]

\* The cases that a registration is through with are stored as it has them.
RegistrationSound ==
    Phase = "case" =>
       /\ call \in RegistrationLocals
       /\ \E b \in Benchmarks :
             stored[b].id = call.definition.id /\ stored[b].cases = Ids(call.definition)
       /\ LastOf(call.todo, call.definition.cases)
       /\ \A k \in Passed(call.todo, call.definition.cases) :
             SameContent(call.definition.cases[k], call.definition)

RunLocals ==
    [benchmark : Nat, todo : Seq({c.id : c \in Cases}), results : Seq(Nat),
     ask : Seq(ToSet(Evaluators)), verdicts : SUBSET Nat, links : SUBSET Nat,
     step : {"run", "judge", "outcome"}, report : Nat]

\* Every case that a run is through with has its result.
RunSound ==
    Phase \in {"run", "judge", "report", "outcome"} =>
       /\ call \in RunLocals
       /\ call.benchmark \in Benchmarks
       /\ LastOf(call.todo, stored[call.benchmark].cases)
       /\ DOMAIN call.results = Passed(call.todo, stored[call.benchmark].cases)
       /\ IsInjective(call.results)
       /\ \A k \in DOMAIN call.results :
             ResultSound(call.results[k], stored[call.benchmark].cases[k])

\* The verdicts on the case are those of the evaluators that were asked about it.
JudgedBy(verdicts, asked) ==
    /\ \A v \in verdicts : \E k \in asked : stored[v].by = Evaluators[k].id
    /\ \A k \in asked : \E v \in verdicts : stored[v].by = Evaluators[k].id

JudgedSound ==
    Phase = "judge" =>
       /\ call.todo # <<>> /\ CaseOf(Head(call.todo)) # {}
       /\ LastOf(call.ask, Evaluators)
       /\ call.verdicts \subseteq Stored
       /\ \A v \in call.verdicts : stored[v].verdict \in CaseVerdicts
       /\ JudgedBy(call.verdicts, Passed(call.ask, Evaluators))

\* The links of a case, a result, a verdict or a run are stored.
LinksSound == at = "link" => call.step \in {"case", "run", "judge", "outcome"}

BenchmarkInv ==
    /\ StoredSound /\ RegisteredSound /\ ReportsSound
    /\ RegistrationSound /\ RunSound /\ JudgedSound /\ LinksSound

\* Everything stored stays.
Kept == Stored \subseteq Stored' /\ \A i \in Stored : stored'[i] = stored[i]

\* Neither a benchmark nor a case is added.
Settled == Kept /\ Benchmarks' = Benchmarks /\ OfKind("case")' = OfKind("case")

(* The results and the reports that are kept stay as sound as they were.    *)
LEMMA ResultsStay ==
    ASSUME ReportsSound, Kept
    PROVE  /\ \A r, x : ResultSound(r, x) => ResultSound(r, x)'
           /\ \A r \in OfKind("report") : ReportSound(r)'
<1> USE DEF Kept
<1>1. ASSUME NEW r, NEW x, ResultSound(r, x) PROVE ResultSound(r, x)'
  <2>1. r \in Stored /\ r \in OfKind("result")' /\ stored'[r] = stored[r]
    BY <1>1 DEF ResultSound, OfKind
  <2> QED BY <1>1, <2>1 DEF ResultSound
<1>2. ASSUME NEW r \in OfKind("report") PROVE ReportSound(r)'
  <2>1. ReportSound(r) /\ r \in Stored
    BY DEF ReportsSound, OfKind
  <2>2. stored'[r] = stored[r] /\ stored'[stored[r].benchmark] = stored[stored[r].benchmark]
    BY <2>1 DEF ReportSound, Benchmarks, OfKind
  <2>3. \A k \in DOMAIN stored[r].results :
           /\ stored[r].results[k] \in Stored
           /\ stored'[stored[r].results[k]] = stored[stored[r].results[k]]
    BY <2>1 DEF ReportSound, ResultSound, OfKind
  <2>4. PassedOf(stored[r].results)' = PassedOf(stored[r].results)
    BY <2>2, <2>3 DEF PassedOf
  <2>5. stored[r].benchmark \in Benchmarks'
    BY <2>1 DEF ReportSound, Benchmarks, OfKind
  <2> QED BY <1>1, <2>1, <2>2, <2>4, <2>5 DEF ReportSound
<1> QED BY <1>1, <1>2

(* What is settled stays as sound as it was.                                *)
LEMMA BenchmarksStay ==
    ASSUME BenchmarkInv, Settled
    PROVE  /\ RegisteredSound'
           /\ \A x : CaseOf(x)' = CaseOf(x)
           /\ \A r, x : ResultSound(r, x) => ResultSound(r, x)'
           /\ \A r \in OfKind("report") : ReportSound(r)'
           /\ \A b \in Benchmarks : b \in Stored /\ stored'[b] = stored[b]
           /\ \A x, d : SameContent(x, d)' <=> SameContent(x, d)
<1> USE DEF Settled, Kept
<1>1. \A kind : OfKind(kind) \subseteq Stored
  BY DEF OfKind
<1>2. \A x : CaseOf(x)' = CaseOf(x) /\ CaseOf(x) \subseteq Stored
  BY <1>1 DEF CaseOf
<1>3. \A b \in Benchmarks : b \in Stored /\ stored'[b] = stored[b]
  BY <1>1 DEF Benchmarks
<1>4. \A b \in Benchmarks : \A d : Follows(b, d) => Follows(b, d)'
  BY <1>2, <1>3 DEF Follows
<1>5. \A id, x : There(id, x)' <=> There(id, x)
  BY <1>2 DEF There
<1>6. RegisteredSound'
  BY <1>1, <1>3, <1>4, <1>5 DEF RegisteredSound, BenchmarkInv
<1>7. \A x, d : SameContent(x, d)' <=> SameContent(x, d)
  BY <1>2 DEF SameContent
<1> QED BY <1>2, <1>3, <1>6, <1>7, ResultsStay DEF BenchmarkInv

(* A step that stores nothing settles.                                      *)
LEMMA QuietSettles ==
    ASSUME BenchmarkInv, stored' = stored
    PROVE  Settled /\ StoredSound' /\ ReportsSound'
<1>1. StoredSound' /\ Stored' = Stored /\ \A kind : OfKind(kind)' = OfKind(kind)
  BY StoredStays DEF BenchmarkInv
<1>2. Settled
  BY <1>1 DEF Settled, Kept, Benchmarks
<1> QED BY <1>1, <1>2, BenchmarksStay DEF ReportsSound

(* So does one that puts something else.                                    *)
LEMMA PutSettles ==
    ASSUME BenchmarkInv, NEW a, Put(a), a.kind # "benchmark", a.kind # "case"
    PROVE  Settled /\ StoredSound' /\ (a.kind # "report" => ReportsSound')
<1>1. /\ StoredSound' /\ Stored' = Stored \cup {Latest + 1}
      /\ \A i \in Stored : stored'[i] = stored[i]
  BY PutAdds DEF BenchmarkInv
<1>2. \A kind : a.kind # kind => OfKind(kind)' = OfKind(kind)
  BY PutOfKind DEF BenchmarkInv
<1>3. Settled
  BY <1>1, <1>2 DEF Settled, Kept, Benchmarks
<1> QED BY <1>1, <1>2, <1>3, BenchmarksStay DEF ReportsSound

(* A call that ends leaves everything sound.                                *)
LEMMA BenchmarkReturns ==
    ASSUME BenchmarkInv, stored' = stored, at' = "idle"
    PROVE  BenchmarkInv'
<1>1. Phase' = "idle"
  BY DEF Phase
<1> QED BY <1>1, QuietSettles, BenchmarksStay
        DEF BenchmarkInv, RegistrationSound, RunSound, JudgedSound, LinksSound

(* A run goes on without a result more.                                     *)
LEMMA RunGoesOn ==
    ASSUME BenchmarkInv, Settled, Phase \in {"run", "judge", "report", "outcome"},
           call' \in RunLocals, call'.benchmark = call.benchmark, call'.todo = call.todo,
           call'.results = call.results
    PROVE  RunSound'
<1>1. /\ call.benchmark \in Benchmarks
      /\ LastOf(call.todo, stored[call.benchmark].cases)
      /\ DOMAIN call.results = Passed(call.todo, stored[call.benchmark].cases)
      /\ IsInjective(call.results)
      /\ \A k \in DOMAIN call.results :
            ResultSound(call.results[k], stored[call.benchmark].cases[k])
  BY DEF BenchmarkInv, RunSound
<1>2. stored'[call.benchmark] = stored[call.benchmark] /\ Benchmarks' = Benchmarks
  BY <1>1, BenchmarksStay DEF Settled
<1>3. \A k \in DOMAIN call.results :
         ResultSound(call.results[k], stored[call.benchmark].cases[k])'
  <2> SUFFICES ASSUME NEW k \in DOMAIN call.results
               PROVE  ResultSound(call.results[k], stored[call.benchmark].cases[k])'
    OBVIOUS
  <2> PICK r, x : r = call.results[k] /\ x = stored[call.benchmark].cases[k]
    OBVIOUS
  <2>1. ResultSound(r, x)'
    BY <1>1, BenchmarksStay
  <2> QED BY <1>2, <2>1
<1> QED BY <1>1, <1>2, <1>3 DEF RunSound

(* A call that goes on as it was, whatever became of its links.             *)
LEMMA CallGoesOn ==
    ASSUME BenchmarkInv, stored' = stored, Phase' = Phase,
           at' = "link" => at = "link" /\ call'.step = call.step,
           Phase = "case" => call' \in RegistrationLocals,
           Phase \in {"run", "judge", "report", "outcome"} => call' \in RunLocals,
           Phase = "case" => call'.definition = call.definition,
           Phase \in {"case", "run", "judge", "report", "outcome"} => call'.todo = call.todo,
           Phase \in {"run", "judge", "report", "outcome"} =>
              /\ call'.benchmark = call.benchmark /\ call'.results = call.results
              /\ call'.ask = call.ask /\ call'.verdicts = call.verdicts
    PROVE  BenchmarkInv'
<1>1. Settled /\ StoredSound' /\ ReportsSound' /\ Stored' = Stored
  BY QuietSettles, StoredStays DEF BenchmarkInv
<1>2. \A x, d : SameContent(x, d)' <=> SameContent(x, d)
  BY <1>1, BenchmarksStay
<1>3. RegistrationSound'
  BY <1>1, <1>2 DEF BenchmarkInv, RegistrationSound, Settled
<1>4. RunSound'
  <2>1. CASE Phase \in {"run", "judge", "report", "outcome"}
    BY <1>1, <2>1, RunGoesOn
  <2>2. CASE Phase \notin {"run", "judge", "report", "outcome"}
    BY <2>2 DEF RunSound
  <2> QED BY <2>1, <2>2
<1>5. JudgedSound'
  <2> SUFFICES ASSUME Phase = "judge" PROVE JudgedSound'
    BY DEF JudgedSound
  <2>1. CaseOf(Head(call.todo))' = CaseOf(Head(call.todo))
    <3> PICK x : x = Head(call.todo)
      OBVIOUS
    <3>1. CaseOf(x)' = CaseOf(x)
      BY <1>1, BenchmarksStay
    <3> QED BY <3>1
  <2>2. JudgedBy(call.verdicts, Passed(call.ask, Evaluators))'
    BY DEF BenchmarkInv, JudgedSound, JudgedBy
  <2> QED BY <1>1, <2>1, <2>2 DEF BenchmarkInv, JudgedSound
<1> QED BY <1>1, <1>3, <1>4, <1>5, BenchmarksStay DEF BenchmarkInv, LinksSound

(* The links of an artifact.                                                *)
LEMMA LinkSourcesKeeps ==
    ASSUME BenchmarkInv, LinkSources
    PROVE  BenchmarkInv'
<1>1. PICK source \in call.links :
         /\ call' = [call EXCEPT !.links = @ \ {source}]
         /\ at' = IF call.links = {source} THEN call.step ELSE "link"
  BY DEF LinkSources, Goto
<1>2. at = "link" /\ stored' = stored
  BY DEF LinkSources
<1>3. CASE Phase = "case"
  <2>1. call \in RegistrationLocals
    BY <1>3 DEF BenchmarkInv, RegistrationSound
  <2>2. /\ call' \in RegistrationLocals /\ call'.todo = call.todo
        /\ call'.definition = call.definition /\ call'.step = call.step
    BY <1>1, <2>1 DEF RegistrationLocals
  <2>3. Phase' = Phase
    BY <1>1, <1>2, <2>2 DEF Phase
  <2> QED BY <1>2, <1>3, <2>2, <2>3, CallGoesOn
<1>4. CASE Phase \in {"run", "judge", "report", "outcome"}
  <2>1. call \in RunLocals
    BY <1>4 DEF BenchmarkInv, RunSound
  <2>2. /\ call' \in RunLocals /\ call'.todo = call.todo /\ call'.step = call.step
        /\ call'.benchmark = call.benchmark /\ call'.results = call.results
        /\ call'.ask = call.ask /\ call'.verdicts = call.verdicts
    BY <1>1, <2>1 DEF RunLocals
  <2>3. Phase' = Phase
    BY <1>1, <1>2, <2>1, <2>2 DEF Phase, RunLocals
  <2> QED BY <1>2, <1>4, <2>2, <2>3, CallGoesOn
<1> QED BY <1>2, <1>3, <1>4 DEF BenchmarkInv, LinksSound, Phase

(* The links of a run, from itself; nothing else changes.                   *)
LEMMA QuietKeeps ==
    ASSUME BenchmarkInv, stored' = stored, at' = at, call' = call
    PROVE  BenchmarkInv'
<1>1. Phase' = Phase
  BY DEF Phase
<1> QED BY <1>1, CallGoesOn DEF BenchmarkInv, RegistrationSound, RunSound

(* The evaluators are asked about the next case.                            *)
LEMMA CaseRunsKeeps ==
    ASSUME BenchmarkInv, CaseRuns
    PROVE  BenchmarkInv'
<1>1. /\ at = "run" /\ call.todo # <<>> /\ CaseOf(Head(call.todo)) # {}
      /\ at' = "judge" /\ stored' = stored
      /\ call' = [call EXCEPT !.ask = Evaluators, !.verdicts = {}]
  BY DEF CaseRuns, Goto
<1>2. Phase = "run" /\ Phase' = "judge" /\ call \in RunLocals
  BY <1>1 DEF Phase, BenchmarkInv, RunSound
<1>3. /\ call' \in RunLocals /\ call'.todo = call.todo
      /\ call'.benchmark = call.benchmark /\ call'.results = call.results
      /\ call'.ask = Evaluators /\ call'.verdicts = {}
  BY <1>1, <1>2, EvaluatorsAssumption DEF RunLocals
<1>4. Settled /\ StoredSound' /\ ReportsSound'
  BY <1>1, QuietSettles
<1>5. RunSound'
  BY <1>2, <1>3, <1>4, RunGoesOn
<1>6. JudgedSound'
  <2>1. CaseOf(Head(call.todo))' = CaseOf(Head(call.todo))
    <3> PICK x : x = Head(call.todo)
      OBVIOUS
    <3>1. CaseOf(x)' = CaseOf(x)
      BY <1>4, BenchmarksStay
    <3> QED BY <1>3, <3>1
  <2>2. LastOf(Evaluators, Evaluators) /\ Passed(Evaluators, Evaluators) = {}
    BY EvaluatorsAssumption, AllIsLast
  <2> QED BY <1>1, <1>2, <1>3, <2>1, <2>2 DEF JudgedSound, JudgedBy
<1> QED BY <1>1, <1>2, <1>4, <1>5, <1>6, BenchmarksStay
        DEF BenchmarkInv, RegistrationSound, LinksSound

(* The run is put behind its report.                                        *)
LEMMA PutRunKeeps ==
    ASSUME BenchmarkInv, PutRun
    PROVE  BenchmarkInv'
<1> PICK a : a = [kind |-> "run", benchmark |-> call.benchmark, report |-> call.report]
  OBVIOUS
<1>1. /\ at = "report" /\ at' = "link" /\ Put(a)
      /\ call' = [call EXCEPT !.links = {call.benchmark}, !.step = "outcome"]
  BY DEF PutRun, Goto
<1>2. Phase = "report" /\ call \in RunLocals
  BY <1>1 DEF Phase, BenchmarkInv, RunSound
<1>3. /\ call' \in RunLocals /\ call'.todo = call.todo /\ call'.step = "outcome"
      /\ call'.benchmark = call.benchmark /\ call'.results = call.results
  BY <1>1, <1>2 DEF RunLocals
<1>4. Phase' = "outcome"
  BY <1>1, <1>3 DEF Phase
<1>5. Settled /\ StoredSound' /\ ReportsSound'
  BY <1>1, PutSettles
<1>6. RunSound'
  BY <1>2, <1>3, <1>5, RunGoesOn
<1> QED BY <1>3, <1>4, <1>5, <1>6, BenchmarksStay
        DEF BenchmarkInv, RegistrationSound, LinksSound, JudgedSound

(* The cases of a benchmark are those of a definition.                      *)
LEMMA BenchmarkCases ==
    ASSUME BenchmarkInv, NEW b \in Benchmarks
    PROVE  stored[b].cases \in Seq({c.id : c \in Cases})
<1>1. PICK d \in Definitions : Ids(d) = stored[b].cases
  BY DEF BenchmarkInv, RegisteredSound, Follows
<1>2. d.cases \in Seq(ToSet(d.cases)) /\ ToSet(d.cases) \subseteq Cases
  BY DefinitionsAssumption DEF Cases
<1>3. Ids(d) \in Seq({c.id : c \in Cases})
  BY <1>2 DEF Ids, ToSet
<1> QED BY <1>1, <1>3

(* The case a run is about to deal with, one of those of its benchmark.     *)
LEMMA NextCase ==
    ASSUME BenchmarkInv, Phase \in {"run", "judge"}, call.todo # <<>>
    PROVE  LET cases == stored[call.benchmark].cases
               n == Len(cases) - Len(call.todo) + 1
           IN  /\ n \in Nat /\ Head(call.todo) = cases[n]
               /\ Tail(call.todo) \in Seq({c.id : c \in Cases}) /\ LastOf(Tail(call.todo), cases)
               /\ Passed(Tail(call.todo), cases) = 1 .. n
               /\ DOMAIN call.results = 1 .. n - 1 /\ Len(call.results) = n - 1
<1> DEFINE cases == stored[call.benchmark].cases
           n == Len(cases) - Len(call.todo) + 1
<1>1. /\ call \in RunLocals /\ call.benchmark \in Benchmarks /\ LastOf(call.todo, cases)
      /\ DOMAIN call.results = Passed(call.todo, cases)
  BY DEF BenchmarkInv, RunSound
<1>2. cases \in Seq({c.id : c \in Cases})
  BY <1>1, BenchmarkCases
<1>3. call.todo \in Seq({c.id : c \in Cases}) /\ call.results \in Seq(Nat)
  BY <1>1 DEF RunLocals
<1>4. /\ n \in DOMAIN cases /\ Head(call.todo) = cases[n]
      /\ Tail(call.todo) \in Seq({c.id : c \in Cases}) /\ LastOf(Tail(call.todo), cases)
      /\ Passed(Tail(call.todo), cases) = Passed(call.todo, cases) \cup {n}
      /\ Passed(call.todo, cases) = 1 .. n - 1
  <2> PICK S, rest, all, m :
         S = {c.id : c \in Cases} /\ rest = call.todo /\ all = cases /\ m = n
    OBVIOUS
  <2>1. /\ all \in Seq(S) /\ rest \in Seq(S) /\ LastOf(rest, all) /\ rest # <<>>
        /\ m = Len(all) - Len(rest) + 1
    BY <1>1, <1>2, <1>3
  <2>2. /\ m \in DOMAIN all /\ Head(rest) = all[m]
        /\ Tail(rest) \in Seq(S) /\ LastOf(Tail(rest), all)
        /\ Passed(Tail(rest), all) = Passed(rest, all) \cup {m}
        /\ Passed(rest, all) = 1 .. m - 1
    BY ONLY <2>1, TailOfLast
  <2> HIDE DEF cases, n
  <2> QED BY <2>2
<1>5. n \in Nat /\ n >= 1
  <2>1. DOMAIN cases = 1 .. Len(cases) /\ Len(cases) \in Nat
    BY <1>2
  <2> HIDE DEF n
  <2> QED BY <1>4, <2>1
<1>6. (1 .. n - 1) \cup {n} = 1 .. n
  <2> HIDE DEF n
  <2> QED BY <1>5
<1>7. Len(call.results) = n - 1
  <2>1. DOMAIN call.results = 1 .. n - 1
    BY <1>1, <1>4
  <2>2. Len(call.results) \in Nat /\ DOMAIN call.results = 1 .. Len(call.results)
    BY <1>3
  <2> HIDE DEF n
  <2> QED BY <1>5, <2>1, <2>2
<1> QED BY <1>1, <1>4, <1>5, <1>6, <1>7

(* A case that is run, or asked about, is stored, under its id.             *)
LEMMA CaseFound ==
    ASSUME CaseOf(Head(call.todo)) # {}, StoredSound
    PROVE  TheCase \in Stored /\ TheCase \in Nat /\ stored[TheCase].id = Head(call.todo)
BY DEF TheCase, CaseOf, OfKind, StoredSound, Stored

(* A result of the next case adds to a run.                                 *)
LEMMA ResultAdds ==
    ASSUME BenchmarkInv, Settled, Phase \in {"run", "judge"}, call.todo # <<>>,
           NEW r \in Nat, r \notin Stored, NEW x, x = Head(call.todo), ResultSound(r, x)',
           call' \in RunLocals, call'.benchmark = call.benchmark,
           call'.todo = Tail(call.todo), call'.results = Append(call.results, r)
    PROVE  RunSound'
<1> PICK cases, n, b : cases = stored[call.benchmark].cases /\ b = call.benchmark
                       /\ n = Len(cases) - Len(call.todo) + 1
  OBVIOUS
<1>1. /\ n \in Nat /\ x = cases[n] /\ LastOf(Tail(call.todo), cases)
      /\ Passed(Tail(call.todo), cases) = 1 .. n
      /\ DOMAIN call.results = 1 .. n - 1 /\ Len(call.results) = n - 1
  BY NextCase
<1>0. n \in Nat
  BY <1>1
<1>2. /\ call.results \in Seq(Nat) /\ b \in Benchmarks /\ IsInjective(call.results)
      /\ \A k \in DOMAIN call.results : ResultSound(call.results[k], cases[k])
  BY DEF BenchmarkInv, RunSound, RunLocals
<1>3. b \in Benchmarks' /\ stored'[b] = stored[b]
  BY <1>2, BenchmarksStay DEF Settled
<1>4. /\ DOMAIN call'.results = 1 .. n /\ call'.results[n] = r
      /\ \A k \in 1 .. n - 1 : call'.results[k] = call.results[k]
  <2> PICK results : results = call.results
    OBVIOUS
  <2>1. results \in Seq(Nat) /\ Len(results) = n - 1 /\ n \in Nat
    BY <1>1, <1>2
  <2>2. /\ DOMAIN Append(results, r) = 1 .. n /\ Append(results, r)[n] = r
        /\ \A k \in 1 .. n - 1 : Append(results, r)[k] = results[k]
    BY ONLY <2>1, r \in Nat
  <2> QED BY <2>2
<1>5. \A k \in DOMAIN call.results : call.results[k] \in Stored
  BY <1>2 DEF ResultSound, OfKind
<1>6. IsInjective(call'.results)
  <2>1. ASSUME NEW i \in 1 .. n, NEW j \in 1 .. n, call'.results[i] = call'.results[j], i < j
        PROVE  FALSE
    <3>1. i \in 1 .. n - 1 /\ (j # n => j \in 1 .. n - 1)
      BY ONLY <1>0, <2>1, i \in 1 .. n, j \in 1 .. n
    <3>2. CASE j = n
      BY <1>1, <1>4, <1>5, <2>1, <3>1, <3>2
    <3>3. CASE j # n
      <4> PICK results : results = call.results
        OBVIOUS
      <4>1. results[i] = results[j] /\ {i, j} \subseteq DOMAIN results /\ IsInjective(results)
        BY <1>1, <1>2, <1>4, <2>1, <3>1, <3>3
      <4>2. i = j
        BY ONLY <4>1 DEF IsInjective
      <4> QED BY ONLY <1>0, <2>1, <4>2, i \in 1 .. n, j \in 1 .. n
    <3> QED BY <3>2, <3>3
  <2>2. \A i, j \in 1 .. n : i < j \/ j < i \/ i = j
    BY ONLY <1>0
  <2> QED BY <1>4, <2>1, <2>2 DEF IsInjective
<1>7. ASSUME NEW k \in 1 .. n PROVE ResultSound(call.results[k], cases[k])'
  <2>1. CASE k = n
    BY <1>1, <1>4, <2>1
  <2>2. CASE k # n
    <3>1. k \in 1 .. n - 1
      BY ONLY <1>0, <2>2, k \in 1 .. n
    <3> PICK q, y : q = call.results[k] /\ y = cases[k]
      OBVIOUS
    <3>2. ResultSound(q, y)
      BY <1>1, <1>2, <3>1
    <3>3. ResultSound(q, y)'
      BY <3>2, BenchmarksStay
    <3> QED BY <1>4, <3>1, <3>3
  <2> QED BY <2>1, <2>2
<1> QED BY <1>1, <1>3, <1>4, <1>6, <1>7 DEF RunSound

(* The workflow of a case raises.                                           *)
LEMMA CaseCrashesKeeps ==
    ASSUME BenchmarkInv, CaseCrashes
    PROVE  BenchmarkInv'
<1> PICK n, x, c : n = Latest + 1 /\ x = Head(call.todo) /\ c = TheCase
  OBVIOUS
<1> PICK a : a = [kind |-> "result", case |-> c, status |-> "error", verdicts |-> {}]
  OBVIOUS
<1>1. /\ at = "run" /\ call.todo # <<>> /\ CaseOf(x) # {} /\ at' = "link" /\ Put(a)
      /\ call' = [call EXCEPT !.todo = Tail(@), !.links = {c}, !.step = "run",
                              !.results = Append(@, n)]
  BY DEF CaseCrashes, Goto, WithCrashed, Latest
<1>2. Phase = "run" /\ call \in RunLocals
  BY <1>1 DEF Phase, BenchmarkInv, RunSound
<1>3. /\ n \in Nat /\ n \notin Stored /\ Stored' = Stored \cup {n} /\ stored'[n] = a
      /\ \A i \in Stored : stored'[i] = stored[i]
  BY <1>1, PutAdds DEF BenchmarkInv
<1>4. Settled /\ StoredSound' /\ ReportsSound'
  BY <1>1, PutSettles
<1>5. c \in Stored /\ c \in Nat /\ stored[c].id = x
  BY <1>1, CaseFound DEF BenchmarkInv
<1>6. ResultSound(n, x)'
  BY <1>3, <1>5 DEF ResultSound, OfKind, CaseVerdicts
<1>7. Tail(call.todo) \in Seq({y.id : y \in Cases}) /\ Append(call.results, n) \in Seq(Nat)
  BY <1>1, <1>2, <1>3, NextCase DEF RunLocals
<1>8. /\ call' \in RunLocals /\ call'.todo = Tail(call.todo) /\ call'.step = "run"
      /\ call'.benchmark = call.benchmark /\ call'.results = Append(call.results, n)
  BY <1>1, <1>2, <1>5, <1>7 DEF RunLocals
<1>9. RunSound'
  BY <1>1, <1>2, <1>3, <1>4, <1>6, <1>8, ResultAdds
<1>10. Phase' = "run"
  BY <1>1, <1>8 DEF Phase
<1> QED BY <1>4, <1>8, <1>9, <1>10, BenchmarksStay
        DEF BenchmarkInv, RegistrationSound, LinksSound, JudgedSound

(* One evaluator judges the case.                                           *)
LEMMA JudgeKeeps ==
    ASSUME BenchmarkInv, NEW verdict \in CaseVerdicts, Judge(verdict)
    PROVE  BenchmarkInv'
<1> PICK n, x, c, e : n = Latest + 1 /\ x = Head(call.todo) /\ c = TheCase /\ e = Head(call.ask)
  OBVIOUS
<1> PICK a : a = [kind |-> "verdict", case |-> c, verdict |-> verdict, by |-> e.id,
                  deterministic |-> e.deterministic]
  OBVIOUS
<1>1. /\ at = "judge" /\ call.ask # <<>> /\ at' = "link" /\ Put(a)
      /\ call' = [call EXCEPT !.ask = Tail(@), !.verdicts = @ \cup {n}, !.links = {c},
                              !.step = "judge"]
  BY DEF Judge, Goto, Latest
<1>2. Phase = "judge" /\ call \in RunLocals
  BY <1>1 DEF Phase, BenchmarkInv, RunSound
<1>3. /\ call.todo # <<>> /\ CaseOf(x) # {} /\ LastOf(call.ask, Evaluators)
      /\ call.verdicts \subseteq Stored
      /\ \A v \in call.verdicts : stored[v].verdict \in CaseVerdicts
      /\ JudgedBy(call.verdicts, Passed(call.ask, Evaluators))
  BY <1>2 DEF BenchmarkInv, JudgedSound
<1>4. /\ n \in Nat /\ n \notin Stored /\ Stored' = Stored \cup {n} /\ stored'[n] = a
      /\ \A i \in Stored : stored'[i] = stored[i]
  BY <1>1, PutAdds DEF BenchmarkInv
<1>5. Settled /\ StoredSound' /\ ReportsSound'
  BY <1>1, PutSettles
<1>6. c \in Nat
  BY <1>3, CaseFound DEF BenchmarkInv
<1> PICK m : m = Len(Evaluators) - Len(call.ask) + 1
  OBVIOUS
<1>7. /\ e = Evaluators[m] /\ Tail(call.ask) \in Seq(ToSet(Evaluators))
      /\ LastOf(Tail(call.ask), Evaluators)
      /\ Passed(Tail(call.ask), Evaluators) = Passed(call.ask, Evaluators) \cup {m}
  <2> PICK S, rest, all : S = ToSet(Evaluators) /\ rest = call.ask /\ all = Evaluators
    OBVIOUS
  <2>1. /\ rest \in Seq(S) /\ all \in Seq(S) /\ LastOf(rest, all) /\ rest # <<>>
        /\ m = Len(all) - Len(rest) + 1
    BY <1>1, <1>2, <1>3, EvaluatorsAssumption DEF RunLocals
  <2>2. /\ Head(rest) = all[m] /\ Tail(rest) \in Seq(S) /\ LastOf(Tail(rest), all)
        /\ Passed(Tail(rest), all) = Passed(rest, all) \cup {m}
    BY ONLY <2>1, TailOfLast
  <2> QED BY <2>2
<1>8. /\ call' \in RunLocals /\ call'.todo = call.todo /\ call'.step = "judge"
      /\ call'.benchmark = call.benchmark /\ call'.results = call.results
      /\ call'.ask = Tail(call.ask) /\ call'.verdicts = call.verdicts \cup {n}
  BY <1>1, <1>2, <1>4, <1>6, <1>7 DEF RunLocals
<1>9. RunSound'
  BY <1>2, <1>5, <1>8, RunGoesOn
<1>10. Phase' = "judge"
  BY <1>1, <1>8 DEF Phase
<1>11. JudgedSound'
  <2>1. CaseOf(x)' = CaseOf(x)
    BY <1>5, BenchmarksStay
  <2>2. \A v \in call'.verdicts : stored'[v].verdict \in CaseVerdicts
    BY <1>3, <1>4, <1>8
  <2>3. JudgedBy(call.verdicts, Passed(call.ask, Evaluators))'
    <3> PICK verdicts, asked : verdicts = call.verdicts /\ asked = Passed(call.ask, Evaluators)
      OBVIOUS
    <3>1. JudgedBy(verdicts, asked) /\ \A v \in verdicts : stored'[v] = stored[v]
      BY <1>3, <1>4
    <3>2. stored'[n].by = Evaluators[m].id
      <4>1. a.by = e.id
        OBVIOUS
      <4> QED BY <1>4, <1>7, <4>1
    <3>3. JudgedBy(verdicts \cup {n}, asked \cup {m})'
      BY ONLY <3>1, <3>2 DEF JudgedBy
    <3> QED BY <1>7, <1>8, <3>3
  <2>4. call'.verdicts \subseteq Stored'
    BY <1>3, <1>4, <1>8
  <2> QED BY <1>3, <1>7, <1>8, <2>1, <2>2, <2>3, <2>4 DEF JudgedSound
<1> QED BY <1>5, <1>8, <1>9, <1>10, <1>11, BenchmarksStay
        DEF BenchmarkInv, RegistrationSound, LinksSound

(* All evaluators have judged the case: it has its result.                  *)
LEMMA ScoreKeeps ==
    ASSUME BenchmarkInv, Score
    PROVE  BenchmarkInv'
<1> PICK n, x, c, verdicts : /\ n = Latest + 1 /\ x = Head(call.todo) /\ c = TheCase
                             /\ verdicts = call.verdicts
  OBVIOUS
<1> PICK status : status = CaseStatus({stored[v] : v \in verdicts})
  OBVIOUS
<1> PICK a : a = [kind |-> "result", case |-> c, verdicts |-> verdicts, status |-> status]
  OBVIOUS
<1>1. /\ at = "judge" /\ call.ask = <<>> /\ at' = "link" /\ Put(a)
      /\ call' = [call EXCEPT !.todo = Tail(@), !.links = {c} \cup verdicts, !.step = "run",
                              !.results = Append(@, n)]
  BY DEF Score, Goto, Latest
<1>2. Phase = "judge" /\ call \in RunLocals
  BY <1>1 DEF Phase, BenchmarkInv, RunSound
<1>3. /\ call.todo # <<>> /\ CaseOf(x) # {} /\ verdicts \subseteq Stored
      /\ \A v \in verdicts : stored[v].verdict \in CaseVerdicts
      /\ JudgedBy(verdicts, Passed(call.ask, Evaluators))
  BY <1>2 DEF BenchmarkInv, JudgedSound
<1>4. /\ n \in Nat /\ n \notin Stored /\ Stored' = Stored \cup {n} /\ stored'[n] = a
      /\ \A i \in Stored : stored'[i] = stored[i]
  BY <1>1, PutAdds DEF BenchmarkInv
<1>5. Settled /\ StoredSound' /\ ReportsSound'
  BY <1>1, PutSettles
<1>6. c \in Stored /\ c \in Nat /\ stored[c].id = x /\ verdicts \subseteq Nat
  BY <1>2, <1>3, CaseFound DEF BenchmarkInv, RunLocals
<1>7. {stored[v].by : v \in verdicts} = {e.id : e \in ToSet(Evaluators)}
  <2>1. Passed(call.ask, Evaluators) = DOMAIN Evaluators
    BY <1>1, EvaluatorsAssumption, AllIsLast
  <2>2. JudgedBy(verdicts, DOMAIN Evaluators)
    BY <1>3, <2>1
  <2> QED BY ONLY <2>2 DEF JudgedBy, ToSet
<1>8. /\ status \in CaseVerdicts
      /\ status = "passed" => \A v \in verdicts : stored[v].verdict # "error"
      /\ status = "failed" <=>
            \E v \in verdicts : stored[v].verdict = "failed" /\ stored[v].deterministic
  BY <1>3 DEF CaseStatus, CaseVerdicts
<1>9. ResultSound(n, x)'
  <2>1. \A v \in verdicts : v \in Stored' /\ stored'[v] = stored[v]
    BY <1>3, <1>4
  <2>2. {stored'[v].by : v \in verdicts} = {e.id : e \in ToSet(Evaluators)}
    BY <1>7, <2>1
  <2>3. n \in OfKind("result")' /\ stored'[c] = stored[c] /\ c \in Stored'
    BY <1>4, <1>6 DEF OfKind
  <2>4. /\ stored'[n].case = c /\ stored'[n].verdicts = verdicts /\ stored'[n].status = status
        /\ stored'[c].id = x /\ verdicts \subseteq Stored'
    BY <1>4, <1>6, <2>1, <2>3
  <2>5. status = "passed" => \A v \in verdicts : stored'[v].verdict # "error"
    BY <1>8, <2>1
  <2>6. status = "failed" <=>
           \E v \in verdicts : stored'[v].verdict = "failed" /\ stored'[v].deterministic
    BY <1>8, <2>1
  <2> QED BY <1>8, <2>2, <2>3, <2>4, <2>5, <2>6 DEF ResultSound
<1>10. Tail(call.todo) \in Seq({y.id : y \in Cases}) /\ Append(call.results, n) \in Seq(Nat)
  BY <1>2, <1>3, <1>4, NextCase DEF RunLocals
<1>11. /\ call' \in RunLocals /\ call'.todo = Tail(call.todo) /\ call'.step = "run"
       /\ call'.benchmark = call.benchmark /\ call'.results = Append(call.results, n)
  BY <1>1, <1>2, <1>6, <1>10 DEF RunLocals
<1>12. RunSound'
  BY <1>2, <1>3, <1>4, <1>5, <1>9, <1>11, ResultAdds
<1>13. Phase' = "run"
  BY <1>1, <1>11 DEF Phase
<1> QED BY <1>5, <1>11, <1>12, <1>13, BenchmarksStay
        DEF BenchmarkInv, RegistrationSound, LinksSound, JudgedSound

(* There are as many places with a passed result as passed results.         *)
LEMMA PassedOnce ==
    ASSUME NEW results \in Seq(Nat), IsInjective(results)
    PROVE  Cardinality({r \in ToSet(results) : stored[r].status = "passed"})
              = Cardinality(PassedOf(results))
<1> DEFINE S == PassedOf(results)
           T == {r \in ToSet(results) : stored[r].status = "passed"}
           f == [k \in S |-> results[k]]
<1>1. DOMAIN results = 1 .. Len(results) /\ Len(results) \in Nat
  OBVIOUS
<1>2. IsFiniteSet(S)
  <2>1. IsFiniteSet(1 .. Len(results))
    BY <1>1, FS_Interval
  <2>2. S \subseteq 1 .. Len(results)
    BY <1>1 DEF PassedOf
  <2> HIDE DEF S
  <2> QED BY <2>1, <2>2, FS_Subset
<1>3. \A k \in S : k \in DOMAIN results /\ results[k] \in T
  BY DEF PassedOf, ToSet
<1>4. \A r \in T : \E k \in S : results[k] = r
  BY DEF PassedOf, ToSet
<1>5. \A j, k \in S : results[j] = results[k] => j = k
  BY <1>3 DEF IsInjective
<1>6. ExistsBijection(S, T)
  <2> HIDE DEF S, T
  <2>1. f \in [S -> T]
    BY <1>3
  <2>2. f \in Injection(S, T) /\ f \in Surjection(S, T)
    BY <1>4, <1>5, <2>1 DEF Injection, Surjection, IsInjective
  <2> QED BY <2>2 DEF ExistsBijection, Bijection
<1> QED BY <1>2, <1>6, FS_Bijection

(* A report of a run that is through with its cases.                        *)
LEMMA PutReportKeeps ==
    ASSUME BenchmarkInv, PutReport
    PROVE  BenchmarkInv'
<1> PICK n, b, results : n = Latest + 1 /\ b = call.benchmark /\ results = call.results
  OBVIOUS
<1> PICK status, passed :
       /\ status = ReportStatus(results)
       /\ passed = Cardinality({r \in ToSet(results) : stored[r].status = "passed"})
  OBVIOUS
<1> PICK a : a = [kind |-> "report", benchmark |-> b, results |-> results,
                  total |-> Len(results), status |-> status, passed |-> passed]
  OBVIOUS
<1>1. /\ at = "run" /\ call.todo = <<>> /\ at' = "report" /\ Put(a)
      /\ call' = [call EXCEPT !.report = n]
  BY DEF PutReport, Goto, Latest
<1>2. Phase = "run" /\ Phase' = "report" /\ call \in RunLocals
  BY <1>1 DEF Phase, BenchmarkInv, RunSound
<1>3. /\ n \in Nat /\ n \notin Stored /\ Stored' = Stored \cup {n} /\ stored'[n] = a
      /\ \A i \in Stored : stored'[i] = stored[i]
  BY <1>1, PutAdds DEF BenchmarkInv
<1>4. Settled /\ StoredSound'
  BY <1>1, PutSettles
<1>5. /\ call' \in RunLocals /\ call'.todo = call.todo /\ call'.benchmark = call.benchmark
      /\ call'.results = call.results
  BY <1>1, <1>2, <1>3 DEF RunLocals
<1>6. RunSound'
  BY <1>2, <1>4, <1>5, RunGoesOn
<1>7. /\ results \in Seq(Nat) /\ IsInjective(results) /\ b \in Benchmarks
      /\ DOMAIN results = Passed(<<>>, stored[b].cases)
      /\ \A k \in DOMAIN results : ResultSound(results[k], stored[b].cases[k])
  BY <1>1, <1>2 DEF BenchmarkInv, RunSound, RunLocals
<1>8. DOMAIN results = DOMAIN stored[b].cases
  BY <1>7, BenchmarkCases, AllIsLast
<1>9. b \in Stored /\ stored'[b] = stored[b]
  BY <1>7, <1>4, BenchmarksStay
<1>10. \A k \in DOMAIN results : /\ stored'[results[k]] = stored[results[k]]
                                /\ ResultSound(results[k], stored[b].cases[k])'
  <2> SUFFICES ASSUME NEW k \in DOMAIN results
               PROVE  /\ stored'[results[k]] = stored[results[k]]
                      /\ ResultSound(results[k], stored[b].cases[k])'
    OBVIOUS
  <2> PICK r, x : r = results[k] /\ x = stored[b].cases[k]
    OBVIOUS
  <2>1. ResultSound(r, x) /\ r \in Stored
    BY <1>7 DEF ResultSound, OfKind
  <2>2. ResultSound(r, x)'
    BY <1>4, <2>1, BenchmarksStay
  <2> QED BY <1>3, <1>9, <2>1, <2>2
<1>11. passed = Cardinality(PassedOf(results))
  BY <1>7, PassedOnce
<1>12. status = "passed" <=> PassedOf(results) = DOMAIN results
  <2>1. \A k \in DOMAIN results : stored[results[k]].status \in CaseVerdicts
    BY <1>7 DEF ResultSound
  <2>2. ToSet(results) = {results[k] : k \in DOMAIN results}
    BY DEF ToSet
  <2> QED BY <2>1, <2>2 DEF ReportStatus, PassedOf, CaseVerdicts
<1>13. PassedOf(results)' = PassedOf(results)
  BY <1>10 DEF PassedOf
<1>14. ReportSound(n)'
  <2>1. b \in Benchmarks'
    BY <1>4, <1>7 DEF Settled
  <2> QED BY <1>3, <1>7, <1>8, <1>9, <1>10, <1>11, <1>12, <1>13, <2>1 DEF ReportSound
<1>15. OfKind("report")' = OfKind("report") \cup {n}
  BY <1>3 DEF OfKind
<1> QED BY <1>2, <1>4, <1>6, <1>14, <1>15, <1>1, BenchmarksStay
        DEF BenchmarkInv, ReportsSound, RegistrationSound, LinksSound, JudgedSound

(* A run starts with all the cases of its benchmark.                        *)
LEMMA RunBenchmarkKeeps ==
    ASSUME BenchmarkInv, NEW b \in Stored, RunBenchmark(b)
    PROVE  BenchmarkInv'
<1> PICK cases : cases = stored[b].cases
  OBVIOUS
<1>1. /\ b \in Benchmarks /\ stored' = stored /\ at' = "run"
      /\ call' = [benchmark |-> b, todo |-> cases, results |-> <<>>, ask |-> <<>>,
                  verdicts |-> {}, links |-> {}, step |-> "run", report |-> 0]
  BY DEF RunBenchmark, Call, Benchmarks
<1>2. Phase' = "run" /\ Settled /\ StoredSound' /\ ReportsSound'
  BY <1>1, QuietSettles DEF Phase
<1>3. cases \in Seq({c.id : c \in Cases})
  BY <1>1, BenchmarkCases
<1>4. LastOf(cases, cases) /\ Passed(cases, cases) = {}
  BY <1>3, AllIsLast
<1>5. /\ call' \in RunLocals /\ call'.benchmark = b /\ call'.todo = cases
      /\ call'.results = <<>>
  <2>1. b \in Nat
    BY DEF BenchmarkInv, StoredSound, Stored
  <2> QED BY <1>1, <1>3, <2>1 DEF RunLocals
<1>6. RunSound'
  <2>1. DOMAIN call'.results = {} /\ IsInjective(call'.results)
    BY <1>5 DEF IsInjective
  <2>2. b \in Benchmarks' /\ stored'[b].cases = cases
    BY <1>1, <1>2 DEF Settled
  <2> QED BY <1>4, <1>5, <2>1, <2>2 DEF RunSound
<1> QED BY <1>1, <1>2, <1>6, BenchmarksStay
        DEF BenchmarkInv, RegistrationSound, LinksSound, JudgedSound

(* A registration of a new benchmark, which has no cases yet.               *)
LEMMA RegisterKeeps ==
    ASSUME BenchmarkInv, NEW d \in Definitions, Register(d)
    PROVE  BenchmarkInv'
<1> PICK n, a : /\ n = Latest + 1
                /\ a = [kind |-> "benchmark", id |-> d.id, cases |-> Ids(d)]
  OBVIOUS
<1>1. /\ BenchmarkOf(d.id) = {} /\ Put(a) /\ at' = "case"
      /\ call' = [todo |-> d.cases, definition |-> d, links |-> {}, step |-> "case",
                  fresh |-> TRUE]
  BY DEF Register, Call
<1>2. /\ n \in Nat /\ n \notin Stored /\ Stored' = Stored \cup {n} /\ stored'[n] = a
      /\ \A i \in Stored : stored'[i] = stored[i] /\ StoredSound'
  BY <1>1, PutAdds DEF BenchmarkInv
<1>3. Kept /\ StoredSound'
  BY <1>1, <1>2, PutAdds DEF Kept, BenchmarkInv
<1>4. /\ Benchmarks' = Benchmarks \cup {n} /\ OfKind("case")' = OfKind("case")
      /\ OfKind("report")' = OfKind("report")
  BY <1>1, PutOfKind DEF BenchmarkInv, Benchmarks
<1>5. \A x : CaseOf(x)' = CaseOf(x) /\ CaseOf(x) \subseteq OfKind("case")
  BY <1>2, <1>4 DEF CaseOf, OfKind
<1>6. \A b \in Benchmarks : b \in Stored /\ stored'[b] = stored[b] /\ stored[b].id # d.id
  BY <1>1, <1>2 DEF Benchmarks, OfKind, BenchmarkOf
<1>7. \A c \in OfKind("case") : c \in Stored /\ stored'[c] = stored[c] /\ stored[c].benchmark # d.id
  BY <1>2, <1>6 DEF BenchmarkInv, RegisteredSound, OfKind
<1>8. \A id, x : There(id, x)' <=> There(id, x)
  BY <1>5, <1>7 DEF There
<1>9. \A b \in Benchmarks, e \in Definitions : Follows(b, e) => Follows(b, e)'
  BY <1>5, <1>6, <1>7 DEF Follows
<1>10. Follows(n, d)'
  BY <1>2, <1>5, <1>7 DEF Follows
<1>11. \A x : ~ There(d.id, x)
  BY <1>5, <1>7 DEF There
<1>12. RegisteredSound'
  <2>1. \A b, c \in Benchmarks' : stored'[b].id = stored'[c].id => b = c
    BY <1>2, <1>4, <1>6 DEF BenchmarkInv, RegisteredSound
  <2>2. /\ \A c \in OfKind("case")' : \E b \in Benchmarks' : stored'[b].id = stored'[c].benchmark
        /\ \A c, e \in OfKind("case")' : stored'[c].id = stored'[e].id => c = e
    BY <1>4, <1>6, <1>7 DEF BenchmarkInv, RegisteredSound
  <2>3. ASSUME NEW b \in Benchmarks'
        PROVE  /\ \E e \in Definitions : Follows(b, e)'
               /\ \A k \in DOMAIN stored'[b].cases : There(stored[b].id, stored[b].cases[k])' =>
                     \A j \in 1 .. k : There(stored[b].id, stored[b].cases[j])'
    <3>1. CASE b = n
      BY <1>2, <1>8, <1>10, <1>11, <3>1
    <3>2. CASE b \in Benchmarks
      BY <1>6, <1>8, <1>9, <3>2 DEF BenchmarkInv, RegisteredSound
    <3> QED BY <1>4, <3>1, <3>2
  <2> QED BY <2>1, <2>2, <2>3 DEF RegisteredSound
<1>13. RegistrationSound'
  <2>1. call' \in RegistrationLocals
    BY <1>1, DefinitionsAssumption DEF RegistrationLocals, Cases
  <2>2. LastOf(d.cases, d.cases) /\ Passed(d.cases, d.cases) = {}
    BY DefinitionsAssumption, AllIsLast
  <2>3. n \in Benchmarks' /\ stored'[n].id = d.id /\ stored'[n].cases = Ids(d)
    BY <1>2, <1>4
  <2> QED BY <1>1, <2>1, <2>2, <2>3 DEF RegistrationSound
<1>14. ReportsSound'
  BY <1>3, <1>4, ResultsStay DEF BenchmarkInv, ReportsSound
<1>15. Phase' = "case"
  BY <1>1 DEF Phase
<1> QED BY <1>1, <1>3, <1>12, <1>13, <1>14, <1>15
        DEF BenchmarkInv, RunSound, LinksSound, JudgedSound

(* A registration of a benchmark that has these cases already.              *)
LEMMA RegisterAgainKeeps ==
    ASSUME BenchmarkInv, NEW d \in Definitions, RegisterAgain(d)
    PROVE  BenchmarkInv'
<1>1. /\ stored' = stored /\ at' = "case"
      /\ call' = [todo |-> d.cases, definition |-> d, links |-> {}, step |-> "case",
                  fresh |-> FALSE]
  BY DEF RegisterAgain, Call
<1>2. PICK b \in Benchmarks : stored[b].id = d.id /\ stored[b].cases = Ids(d)
  BY DEF RegisterAgain, BenchmarkOf, Benchmarks
<1>3. Settled /\ StoredSound' /\ ReportsSound' /\ Phase' = "case"
  BY <1>1, QuietSettles DEF Phase
<1>4. call' \in RegistrationLocals
  BY <1>1, DefinitionsAssumption DEF RegistrationLocals, Cases
<1>5. LastOf(d.cases, d.cases) /\ Passed(d.cases, d.cases) = {}
  BY DefinitionsAssumption, AllIsLast
<1>6. b \in Benchmarks' /\ stored'[b] = stored[b]
  BY <1>1, <1>2, <1>3 DEF Settled
<1>7. RegistrationSound'
  BY <1>1, <1>2, <1>4, <1>5, <1>6 DEF RegistrationSound
<1> QED BY <1>1, <1>3, <1>7, BenchmarksStay
        DEF BenchmarkInv, RunSound, LinksSound, JudgedSound

(* The cases of a definition.                                               *)
LEMMA CasesOf ==
    ASSUME NEW d \in Definitions
    PROVE  /\ DOMAIN d.cases = 1 .. Len(d.cases) /\ Len(d.cases) \in Nat
           /\ DOMAIN Ids(d) = DOMAIN d.cases
           /\ \A j \in DOMAIN d.cases : Ids(d)[j] = d.cases[j].id
           /\ \A i, j \in DOMAIN d.cases : d.cases[i].id = d.cases[j].id => i = j
<1>1. d.cases \in Seq(ToSet(d.cases)) /\ IsInjective(Ids(d))
  BY DefinitionsAssumption
<1>2. DOMAIN Ids(d) = DOMAIN d.cases /\ \A j \in DOMAIN d.cases : Ids(d)[j] = d.cases[j].id
  BY DEF Ids
<1>3. DOMAIN d.cases = 1 .. Len(d.cases) /\ Len(d.cases) \in Nat
  BY <1>1
<1> QED BY <1>1, <1>2, <1>3 DEF IsInjective

(* A case that is missing is added to its benchmark, behind the ones that   *)
(* are there.                                                               *)
LEMMA PutCaseKeeps ==
    ASSUME BenchmarkInv, PutCase
    PROVE  BenchmarkInv'
<1> PICK n, x, d, k : /\ n = Latest + 1 /\ x = Head(call.todo) /\ d = call.definition
                      /\ k = Len(d.cases) - Len(call.todo) + 1
  OBVIOUS
<1> PICK a, links : /\ a = [kind |-> "case", id |-> x.id, content |-> x.content, benchmark |-> d.id]
                    /\ links = BenchmarkOf(d.id)
  OBVIOUS
<1>0. a.kind = "case" /\ a.id = x.id /\ a.content = x.content /\ a.benchmark = d.id
  OBVIOUS
<1>1. /\ at = "case" /\ call.todo # <<>> /\ CaseOf(x.id) = {} /\ Put(a) /\ at' = "link"
      /\ call' = [call EXCEPT !.todo = Tail(@), !.links = links]
  BY DEF PutCase, Goto
<1>2. /\ call \in RegistrationLocals /\ LastOf(call.todo, d.cases) /\ d \in Definitions
      /\ \A j \in Passed(call.todo, d.cases) : SameContent(d.cases[j], d)
  BY <1>1 DEF BenchmarkInv, RegistrationSound, RegistrationLocals, Phase
<1>3. PICK b \in Benchmarks : stored[b].id = d.id /\ stored[b].cases = Ids(d)
  BY <1>1 DEF BenchmarkInv, RegistrationSound, Phase
<1>4. /\ n \in Nat /\ n \notin Stored /\ Stored' = Stored \cup {n} /\ stored'[n] = a
      /\ \A i \in Stored : stored'[i] = stored[i]
  BY <1>1, PutAdds DEF BenchmarkInv
<1>5. Kept /\ StoredSound'
  BY <1>1, <1>4, PutAdds DEF Kept, BenchmarkInv
<1>6. /\ Benchmarks' = Benchmarks /\ OfKind("case")' = OfKind("case") \cup {n}
      /\ OfKind("report")' = OfKind("report")
  BY <1>1, PutOfKind DEF BenchmarkInv, Benchmarks
<1>7. /\ k \in DOMAIN d.cases /\ x = d.cases[k]
      /\ Tail(call.todo) \in Seq(Cases) /\ LastOf(Tail(call.todo), d.cases)
      /\ Passed(Tail(call.todo), d.cases) = Passed(call.todo, d.cases) \cup {k}
      /\ Passed(call.todo, d.cases) = 1 .. k - 1
  <2> PICK S, rest, all : S = Cases /\ rest = call.todo /\ all = d.cases
    OBVIOUS
  <2>1. /\ rest \in Seq(S) /\ all \in Seq(S) /\ LastOf(rest, all) /\ rest # <<>>
        /\ k = Len(all) - Len(rest) + 1
    <3>1. d.cases \in Seq(ToSet(d.cases)) /\ ToSet(d.cases) \subseteq Cases
      BY <1>2, DefinitionsAssumption DEF Cases
    <3>2. d.cases \in Seq(Cases)
      BY <3>1
    <3> QED BY <1>1, <1>2, <3>2 DEF RegistrationLocals
  <2>2. /\ k \in DOMAIN all /\ Head(rest) = all[k]
        /\ Tail(rest) \in Seq(S) /\ LastOf(Tail(rest), all)
        /\ Passed(Tail(rest), all) = Passed(rest, all) \cup {k}
        /\ Passed(rest, all) = 1 .. k - 1
    BY ONLY <2>1, TailOfLast
  <2> QED BY <2>2
<1>8. /\ DOMAIN d.cases = 1 .. Len(d.cases) /\ Len(d.cases) \in Nat
      /\ DOMAIN Ids(d) = DOMAIN d.cases
      /\ \A j \in DOMAIN d.cases : Ids(d)[j] = d.cases[j].id
      /\ \A i, j \in DOMAIN d.cases : d.cases[i].id = d.cases[j].id => i = j
  BY <1>2, CasesOf
<1>9. /\ \A y : CaseOf(y) \subseteq OfKind("case")
      /\ \A c \in OfKind("case") : c \in Stored /\ stored'[c] = stored[c] /\ stored[c].id # x.id
  BY <1>1, <1>4 DEF CaseOf, OfKind
<1>10. \A y : CaseOf(y)' = IF y = x.id THEN {n} ELSE CaseOf(y)
  BY <1>1, <1>4, <1>6, <1>9 DEF CaseOf
<1>11. ASSUME NEW id, NEW y PROVE There(id, y)' <=> There(id, y) \/ (id = d.id /\ y = x.id)
  <2>1. CASE y = x.id
    <3>1. CaseOf(y)' = {n} /\ CaseOf(y) = {} /\ stored'[n].benchmark = d.id
      BY <1>1, <1>4, <1>10, <2>1
    <3> QED BY <2>1, <3>1 DEF There
  <2>2. CASE y # x.id
    <3>1. CaseOf(y)' = CaseOf(y) /\ \A c \in CaseOf(y) : stored'[c] = stored[c]
      BY <1>9, <1>10, <2>2
    <3> QED BY <2>2, <3>1 DEF There
  <2> QED BY <2>1, <2>2
<1>12. \A c \in Benchmarks : c \in Stored /\ stored'[c] = stored[c]
  BY <1>4 DEF Benchmarks, OfKind
<1>13. ASSUME NEW j \in DOMAIN d.cases, There(d.id, d.cases[j].id) PROVE j \in 1 .. k - 1
  <2>1. There(d.id, Ids(d)[j]) /\ j \in DOMAIN Ids(d)
    BY <1>8, <1>13
  <2>2. \A i \in 1 .. j : There(d.id, Ids(d)[i])
    BY <1>3, <2>1 DEF BenchmarkInv, RegisteredSound
  <2>3. Ids(d)[k] = x.id /\ ~ There(d.id, x.id)
    BY <1>1, <1>7, <1>8 DEF There
  <2>4. k \notin 1 .. j
    BY <2>2, <2>3
  <2>5. j \in Nat /\ k \in Nat /\ j >= 1 /\ k >= 1
    BY <1>7, <1>8
  <2> QED BY ONLY <2>4, <2>5
<1>14. Follows(b, d)'
  <2>1. ASSUME NEW j \in DOMAIN d.cases, NEW c \in CaseOf(d.cases[j].id)',
               stored'[c].benchmark = d.id
        PROVE  stored'[c].content = d.cases[j].content
    <3>1. CASE d.cases[j].id = x.id
      <4>1. c = n /\ j = k
        BY <1>7, <1>8, <1>10, <3>1
      <4> QED BY <1>0, <1>4, <1>7, <4>1
    <3>2. CASE d.cases[j].id # x.id
      <4>1. c \in CaseOf(d.cases[j].id) /\ c \in OfKind("case") /\ stored'[c] = stored[c]
        BY <1>9, <1>10, <3>2
      <4>2. SameContent(d.cases[j], d)
        <5>1. There(d.id, d.cases[j].id)
          BY <2>1, <4>1 DEF There
        <5>2. j \in Passed(call.todo, d.cases)
          BY <1>7, <1>13, <5>1
        <5> QED BY <1>2, <5>2
      <4>3. PICK i \in CaseOf(d.cases[j].id) : stored[i].content = d.cases[j].content
        BY <4>2 DEF SameContent
      <4>4. i = c
        BY <4>1, <4>3 DEF CaseOf, BenchmarkInv, RegisteredSound
      <4> QED BY <4>1, <4>3, <4>4
    <3> QED BY <3>1, <3>2
  <2> QED BY <1>3, <1>12, <2>1 DEF Follows
<1>15. ASSUME NEW c \in Benchmarks, stored[c].id # d.id, NEW e \in Definitions, Follows(c, e)
       PROVE  Follows(c, e)'
  BY <1>4, <1>9, <1>10, <1>12, <1>15 DEF Follows
<1>16. \A j \in Passed(Tail(call.todo), d.cases) : SameContent(d.cases[j], d)'
  <2> SUFFICES ASSUME NEW j \in 1 .. k - 1 \cup {k} PROVE SameContent(d.cases[j], d)'
    BY <1>7
  <2>1. CASE j = k
    <3>1. n \in CaseOf(x.id)' /\ stored'[n].content = x.content /\ stored'[n].benchmark = d.id
      BY <1>0, <1>4, <1>10
    <3> QED BY <1>7, <2>1, <3>1 DEF SameContent
  <2>2. CASE j \in 1 .. k - 1
    <3>1. PICK i \in CaseOf(d.cases[j].id) :
             stored[i].content = d.cases[j].content /\ stored[i].benchmark = d.id
      BY <1>2, <1>7, <2>2 DEF SameContent
    <3>2. d.cases[j].id # x.id
      BY <1>9, <3>1 DEF CaseOf
    <3> QED BY <1>9, <1>10, <3>1, <3>2 DEF SameContent
  <2> QED BY <2>1, <2>2
<1>17. RegisteredSound'
  <2>1. \A c, e \in Benchmarks' : stored'[c].id = stored'[e].id => c = e
    BY <1>6, <1>12 DEF BenchmarkInv, RegisteredSound
  <2>2. \A c \in OfKind("case")' : \E e \in Benchmarks' : stored'[e].id = stored'[c].benchmark
    BY <1>3, <1>4, <1>6, <1>9, <1>12 DEF BenchmarkInv, RegisteredSound
  <2>3. \A c, e \in OfKind("case")' : stored'[c].id = stored'[e].id => c = e
    BY <1>4, <1>6, <1>9 DEF BenchmarkInv, RegisteredSound
  <2>4. ASSUME NEW c \in Benchmarks
        PROVE  /\ \E e \in Definitions : Follows(c, e)'
               /\ \A i \in DOMAIN stored'[c].cases : There(stored[c].id, stored[c].cases[i])' =>
                     \A j \in 1 .. i : There(stored[c].id, stored[c].cases[j])'
    <3>1. CASE stored[c].id = d.id
      <4>1. c = b
        BY <1>3, <3>1 DEF BenchmarkInv, RegisteredSound
      <4>2. ASSUME NEW j \in 1 .. k PROVE There(d.id, d.cases[j].id)'
        <5>1. CASE j = k
          BY <1>7, <1>11, <5>1
        <5>2. CASE j # k
          <6>1. j \in Passed(call.todo, d.cases)
            <7>1. k \in Nat
              BY <1>7, <1>8
            <7>2. j \in 1 .. k - 1
              BY ONLY <5>2, <7>1, j \in 1 .. k
            <7> QED BY <1>7, <7>2
          <6>2. There(d.id, d.cases[j].id)
            BY <1>2, <6>1 DEF SameContent, There
          <6> QED BY <1>11, <6>2
        <5> QED BY <5>1, <5>2
      <4>3. ASSUME NEW i \in DOMAIN d.cases, There(d.id, d.cases[i].id)', NEW j \in 1 .. i
            PROVE  j \in 1 .. k
        <5>1. CASE d.cases[i].id = x.id
          <6>1. i = k
            BY <1>7, <1>8, <5>1
          <6> QED BY <4>3, <6>1
        <5>2. CASE d.cases[i].id # x.id
          <6>1. i \in 1 .. k - 1
            BY <1>11, <1>13, <4>3, <5>2
          <6>2. k \in Nat
            BY <1>7, <1>8
          <6> QED BY ONLY <6>1, <6>2, j \in 1 .. i
        <5> QED BY <5>1, <5>2
      <4>4. \A i \in DOMAIN d.cases : There(d.id, d.cases[i].id)' =>
               \A j \in 1 .. i : There(d.id, d.cases[j].id)'
        BY <4>2, <4>3
      <4>5. stored'[b].id = d.id /\ stored'[b].cases = Ids(d)
        BY <1>3, <1>12
      <4> QED BY SMTT(20), <1>2, <1>8, <1>14, <4>1, <4>4, <4>5
    <3>2. CASE stored[c].id # d.id
      <4>1. \E e \in Definitions : Follows(c, e)'
        BY <1>15, <3>2 DEF BenchmarkInv, RegisteredSound
      <4> QED BY <1>11, <1>12, <3>2, <4>1 DEF BenchmarkInv, RegisteredSound
    <3> QED BY <3>1, <3>2
  <2> QED BY <1>6, <2>1, <2>2, <2>3, <2>4 DEF RegisteredSound
<1>18. /\ call' \in RegistrationLocals /\ call'.todo = Tail(call.todo) /\ call'.definition = d
       /\ call'.step = "case"
  <2>1. links \subseteq Nat
    BY DEF BenchmarkInv, StoredSound, Stored, OfKind, BenchmarkOf
  <2> QED BY <1>1, <1>2, <1>7, <2>1 DEF RegistrationLocals
<1>19. RegistrationSound'
  BY <1>3, <1>6, <1>7, <1>12, <1>16, <1>18 DEF RegistrationSound
<1>20. ReportsSound'
  BY <1>5, <1>6, ResultsStay DEF BenchmarkInv, ReportsSound
<1>21. Phase' = "case"
  BY <1>1, <1>18 DEF Phase
<1> QED BY <1>5, <1>17, <1>18, <1>19, <1>20, <1>21
        DEF BenchmarkInv, RunSound, LinksSound, JudgedSound

(* A case that is there as the definition has it is passed over.            *)
LEMMA CaseThereKeeps ==
    ASSUME BenchmarkInv, CaseThere
    PROVE  BenchmarkInv'
<1> PICK x, d, k : /\ x = Head(call.todo) /\ d = call.definition
                   /\ k = Len(d.cases) - Len(call.todo) + 1
  OBVIOUS
<1>1. /\ at = "case" /\ call.todo # <<>> /\ SameContent(x, d) /\ at' = "case"
      /\ stored' = stored /\ call' = [call EXCEPT !.todo = Tail(@)]
  BY DEF CaseThere, Goto
<1>2. /\ call \in RegistrationLocals /\ LastOf(call.todo, d.cases) /\ d \in Definitions
      /\ \A j \in Passed(call.todo, d.cases) : SameContent(d.cases[j], d)
  BY <1>1 DEF BenchmarkInv, RegistrationSound, RegistrationLocals, Phase
<1>3. PICK b \in Benchmarks : stored[b].id = d.id /\ stored[b].cases = Ids(d)
  BY <1>1 DEF BenchmarkInv, RegistrationSound, Phase
<1>4. Settled /\ StoredSound' /\ ReportsSound' /\ Phase' = "case"
  BY <1>1, QuietSettles DEF Phase
<1>5. /\ x = d.cases[k] /\ Tail(call.todo) \in Seq(Cases) /\ LastOf(Tail(call.todo), d.cases)
      /\ Passed(Tail(call.todo), d.cases) = Passed(call.todo, d.cases) \cup {k}
  <2> PICK S, rest, all : S = Cases /\ rest = call.todo /\ all = d.cases
    OBVIOUS
  <2>1. /\ rest \in Seq(S) /\ all \in Seq(S) /\ LastOf(rest, all) /\ rest # <<>>
        /\ k = Len(all) - Len(rest) + 1
    <3>1. d.cases \in Seq(ToSet(d.cases)) /\ ToSet(d.cases) \subseteq Cases
      BY <1>2, DefinitionsAssumption DEF Cases
    <3>2. d.cases \in Seq(Cases)
      BY <3>1
    <3> QED BY <1>1, <1>2, <3>2 DEF RegistrationLocals
  <2>2. /\ k \in DOMAIN all /\ Head(rest) = all[k]
        /\ Tail(rest) \in Seq(S) /\ LastOf(Tail(rest), all)
        /\ Passed(Tail(rest), all) = Passed(rest, all) \cup {k}
        /\ Passed(rest, all) = 1 .. k - 1
    BY ONLY <2>1, TailOfLast
  <2> QED BY <2>2
<1>6. call' \in RegistrationLocals /\ call'.todo = Tail(call.todo) /\ call'.definition = d
  BY <1>1, <1>2, <1>5 DEF RegistrationLocals
<1>7. \A j \in Passed(Tail(call.todo), d.cases) : SameContent(d.cases[j], d)
  BY <1>1, <1>2, <1>5
<1>8. \A y : SameContent(y, d)' <=> SameContent(y, d)
  BY <1>4, BenchmarksStay
<1>9. b \in Benchmarks' /\ stored'[b] = stored[b]
  BY <1>3, <1>4, BenchmarksStay DEF Settled
<1>10. RegistrationSound'
  BY <1>3, <1>5, <1>6, <1>7, <1>8, <1>9 DEF RegistrationSound
<1> QED BY <1>1, <1>4, <1>10, BenchmarksStay
        DEF BenchmarkInv, RunSound, LinksSound, JudgedSound

(* What a sound report says of its benchmark and of its results.            *)
LEMMA ReportRead ==
    ASSUME BenchmarkInv, NEW r, ReportSound(r)
    PROVE  LET report == stored[r]
               results == [k \in DOMAIN report.results |-> stored[report.results[k]]]
               passes == {k \in DOMAIN results : results[k].status = "passed"}
           IN  /\ [k \in DOMAIN results |-> stored[results[k].case].id]
                      = stored[report.benchmark].cases
               /\ report.passed = Cardinality(passes)
               /\ report.status = "passed" <=> passes = DOMAIN results
               /\ \A k \in DOMAIN results : \E x : ResultSound(report.results[k], x)
<1> DEFINE report == stored[r]
           results == [k \in DOMAIN report.results |-> stored[report.results[k]]]
           passes == {k \in DOMAIN results : results[k].status = "passed"}
           cases == stored[report.benchmark].cases
<1>1. /\ DOMAIN results = DOMAIN cases
      /\ \A k \in DOMAIN results :
            ResultSound(report.results[k], cases[k]) /\ stored[results[k].case].id = cases[k]
  BY DEF ReportSound, ResultSound
<1>2. cases = [k \in DOMAIN cases |-> cases[k]]
  <2>1. cases \in Seq({c.id : c \in Cases})
    BY BenchmarkCases DEF ReportSound
  <2> HIDE DEF cases
  <2> QED BY <2>1
<1>3. passes = PassedOf(report.results)
  BY DEF PassedOf
<1>4. [k \in DOMAIN results |-> stored[results[k].case].id] = cases
  <2> HIDE DEF cases, results
  <2> QED BY <1>1, <1>2
<1> QED BY <1>1, <1>3, <1>4 DEF ReportSound

(* Whatever was registered, refused, run or broken off, the cases of every  *)
(* benchmark are those of one definition, and every report is about all the *)
(* cases of its benchmark and passes what every evaluator let pass.         *)
THEOREM BenchmarksCorrect == BenchmarkSpec => []ReportsAreWhole
<1>1. NothingStored => BenchmarkInv
  BY NothingIsStored
     DEF BenchmarkInv, RegisteredSound, ReportsSound, Benchmarks, RegistrationSound, RunSound,
         JudgedSound, LinksSound, Phase
<1>2. BenchmarkInv /\ [BenchmarkNext]_researchVars => BenchmarkInv'
  <2> SUFFICES ASSUME BenchmarkInv, [BenchmarkNext]_researchVars PROVE BenchmarkInv'
    OBVIOUS
  <2>1. ASSUME NEW d \in Definitions, Register(d) PROVE BenchmarkInv'
    BY <2>1, RegisterKeeps
  <2>2. ASSUME NEW d \in Definitions, RegisterAgain(d) PROVE BenchmarkInv'
    BY <2>2, RegisterAgainKeeps
  <2>3. ASSUME NEW d \in Definitions, RegisterRefused(d) PROVE BenchmarkInv'
    BY <2>3, QuietKeeps DEF RegisterRefused
  <2>4. CASE PutCase
    BY <2>4, PutCaseKeeps
  <2>5. CASE CaseThere
    BY <2>5, CaseThereKeeps
  <2>6. CASE CaseRefused \/ Registered \/ CaseMissing \/ RunReturns \/ BenchmarkRaises
    <3>1. stored' = stored /\ at' = "idle"
      BY <2>6 DEF CaseRefused, Registered, CaseMissing, RunReturns, BenchmarkRaises, Return
    <3> QED BY <3>1, BenchmarkReturns
  <2>7. ASSUME NEW b \in Stored, RunBenchmark(b) PROVE BenchmarkInv'
    BY <2>7, RunBenchmarkKeeps
  <2>8. CASE CaseCrashes
    BY <2>8, CaseCrashesKeeps
  <2>9. CASE CaseRuns
    BY <2>9, CaseRunsKeeps
  <2>10. ASSUME NEW v \in CaseVerdicts, Judge(v) PROVE BenchmarkInv'
    BY <2>10, JudgeKeeps
  <2>11. CASE Score
    BY <2>11, ScoreKeeps
  <2>12. CASE PutReport
    BY <2>12, PutReportKeeps
  <2>13. CASE PutRun
    BY <2>13, PutRunKeeps
  <2>14. CASE LinkSources
    BY <2>14, LinkSourcesKeeps
  <2>15. CASE LinkOutcome
    <3>1. stored' = stored /\ at' = at /\ call' = call
      BY <2>15 DEF LinkOutcome, Goto
    <3> QED BY <3>1, QuietKeeps
  <2>16. CASE Die
    BY <2>16, BenchmarkReturns DEF Die
  <2>17. CASE UNCHANGED researchVars
    BY <2>17, QuietKeeps DEF researchVars
  <2> QED BY <2>1, <2>2, <2>3, <2>4, <2>5, <2>6, <2>7, <2>8, <2>9, <2>10, <2>11, <2>12, <2>13,
             <2>14, <2>15, <2>16, <2>17 DEF BenchmarkNext, CaseVerdicts
<1>3. BenchmarkInv => ReportsAreWhole
  <2> SUFFICES ASSUME BenchmarkInv PROVE ReportsAreWhole
    OBVIOUS
  <2>1. \A b \in OfKind("benchmark") : \E d \in Definitions : Follows(b, d)
    BY DEF BenchmarkInv, RegisteredSound, Benchmarks
  <2>2. ASSUME NEW r \in OfKind("report")
        PROVE  LET report == stored[r]
                   results == [k \in DOMAIN report.results |-> stored[report.results[k]]]
                   passes == {k \in DOMAIN results : results[k].status = "passed"}
               IN  /\ [k \in DOMAIN results |-> stored[results[k].case].id]
                          = stored[report.benchmark].cases
                   /\ report.passed = Cardinality(passes)
                   /\ report.status = "passed" <=> passes = DOMAIN results
                   /\ \A k \in DOMAIN results : \E x : ResultSound(report.results[k], x)
    BY ReportRead DEF BenchmarkInv, ReportsSound
  <2> QED BY ZenonT(40), <2>1, <2>2 DEF ReportsAreWhole, Follows, ResultSound
<1> QED BY <1>1, <1>2, <1>3, PTL DEF BenchmarkSpec

-----------------------------------------------------------------------------
(* Identities                                                               *)
\* The identities that stay in force when the links under way are stored.
InForce == Active \ call.olds

\* The groups of the call that have their identity.
GroupsDone == Groups(call.papers) \ call.todo

IdentityLocals ==
    [papers : SUBSET Papers, unread : Unreadable, current : SUBSET Nat, found : SUBSET Nat,
     todo : SUBSET SUBSET Papers, members : SUBSET Papers, olds : SUBSET Nat,
     results : SUBSET Nat]

\* Only what is stored is superseded, and by what is stored.
SupersededSound ==
    /\ \A i \in Stored : Members(i) \subseteq Papers
    /\ \A i, j : <<i, j, "supersedes">> \in prov => i \in Stored /\ j \in Stored

\* While the links of a new identity are stored, it is in force and has the members of those
\* that it is about to supersede, as far as they load.
ResolvingSound ==
    at # "idle" =>
       /\ call \in IdentityLocals
       /\ call.current \subseteq Stored /\ call.olds \subseteq call.current
       /\ call.todo \subseteq Groups(call.papers)
       /\ at = "groups" => call.olds = {}
       /\ at = "links" =>
             /\ Latest \in Active /\ Latest \notin call.current
             /\ \A i \in call.olds : Members(i) \subseteq Members(Latest) \cup call.unread

\* What a call read of an identity is still together, and so is every group that is done.
TogetherSound ==
    at # "idle" =>
       /\ \A i \in call.current : \E j \in InForce : Members(i) \cap call.papers \subseteq Members(j)
       /\ \A g \in GroupsDone : \E j \in InForce : g \subseteq Members(j)

\* A call that reads all identities in force, apart from each other, and whose groups meet in none.
Clear == call.found = call.current /\ Disjoint(call.found) /\ ~Bridged

\* What such a call leaves in force is what it read, without what its groups took in, and
\* what its groups made of it.
ApartSound ==
    at # "idle" /\ Clear =>
       /\ Disjoint(InForce)
       /\ \A j \in InForce : j \in call.current \/ \E g \in GroupsDone : Members(j) = Merged(g)
       /\ \A i \in call.results : i \in InForce /\ \E g \in GroupsDone : Members(i) = Merged(g)
       /\ \A i \in call.current :
             i \in InForce \/ \E g \in GroupsDone : i \in Overlapping(g) \cup Included(Merged(g))

IdentityInv ==
    StoredSound /\ SupersededSound /\ ResolvingSound /\ TogetherSound /\ ApartSound

(* Chains of shared identifiers lead back and can be joined.                *)
LEMMA AlikeChains ==
    ASSUME NEW papers, NEW p \in papers, NEW q \in papers, Reaches(papers, Alike(papers), p, q)
    PROVE  /\ Reaches(papers, Alike(papers), q, p)
           /\ \A r : Reaches(papers, Alike(papers), q, r) => Reaches(papers, Alike(papers), p, r)
<1> DEFINE E == Alike(papers)
<1>1. \A e \in E : e[1] \in papers /\ e[2] \in papers /\ <<e[2], e[1]>> \in E
  BY DEF Alike, Share
<1>2. ASSUME NEW R \in SUBSET papers, q \in R, ClosedUnder(E, R), p \notin R
      PROVE  FALSE
  <2>1. ClosedUnder(E, papers \ R)
    BY <1>1, <1>2 DEF ClosedUnder
  <2>2. papers \ R \in SUBSET papers /\ p \in papers \ R
    BY <1>2
  <2>3. q \in papers \ R
    BY <2>1, <2>2 DEF Reaches
  <2> QED BY <1>2, <2>3
<1> QED BY <1>2 DEF Reaches

(* The groups are not empty and have no paper in common, and a paper that   *)
(* shares an identifier with one of a group is in it.                       *)
LEMMA GroupsApart ==
    ASSUME NEW papers
    PROVE  /\ \A g \in Groups(papers) : g \subseteq papers /\ g # {}
           /\ \A g, h \in Groups(papers) : g # h => g \cap h = {}
           /\ \A g \in Groups(papers) : \A p \in g, q \in papers : Share(p, q) => q \in g
<1> DEFINE Joined(p, q) == Reaches(papers, Alike(papers), p, q)
<1>1. \A p : Joined(p, p)
  BY DEF Reaches
<1>2. \A p, q \in papers : Joined(p, q) =>
         Joined(q, p) /\ \A r : Joined(q, r) => Joined(p, r)
  BY AlikeChains
<1>3. \A p, q \in papers : Share(p, q) => Joined(p, q)
  <2> SUFFICES ASSUME NEW p \in papers, NEW q \in papers, Share(p, q)
               PROVE  Joined(p, q)
    OBVIOUS
  <2>1. <<p, q>> \in Alike(papers)
    BY DEF Alike
  <2> QED BY <2>1 DEF Reaches, ClosedUnder
<1>4. \A g \in Groups(papers) : \E p \in papers : \A q : q \in g <=> q \in papers /\ Joined(p, q)
  BY <1>1 DEF Groups, GroupOf
<1> HIDE DEF Joined
<1>5. \A g \in Groups(papers) : g \subseteq papers /\ g # {}
  BY <1>1, <1>4
<1>6. ASSUME NEW g \in Groups(papers), NEW h \in Groups(papers), NEW z \in g \cap h
      PROVE  g = h
  <2>1. PICK p \in papers : \A q : q \in g <=> q \in papers /\ Joined(p, q)
    BY <1>4
  <2>2. PICK r \in papers : \A q : q \in h <=> q \in papers /\ Joined(r, q)
    BY <1>4
  <2>3. Joined(p, r) /\ Joined(r, p)
    BY <1>2, <1>6, <2>1, <2>2
  <2> QED BY <1>2, <2>1, <2>2, <2>3
<1>7. ASSUME NEW g \in Groups(papers), NEW p \in g, NEW q \in papers, Share(p, q)
      PROVE  q \in g
  BY <1>2, <1>3, <1>4, <1>5, <1>7
<1> QED BY <1>5, <1>6, <1>7

(* What a call makes of a group depends on what it read only.               *)
LEMMA CallReads ==
    ASSUME call.current \subseteq Stored,
           call'.papers = call.papers, call'.unread = call.unread,
           call'.current = call.current, call'.found = call.found,
           \A i \in Stored : Members(i)' = Members(i)
    PROVE  /\ \A g : Overlapping(g)' = Overlapping(g) /\ Merged(g)' = Merged(g)
           /\ \A m : Included(m)' = Included(m)
           /\ Clear' <=> Clear
<1>1. \A i \in call.current : Members(i)' = Members(i)
  OBVIOUS
<1>2. ASSUME NEW g PROVE Overlapping(g)' = Overlapping(g)
  <2>1. \A i : i \in Overlapping(g)' <=> i \in Overlapping(g)
    BY <1>1 DEF Overlapping
  <2> QED BY <2>1
<1>3. ASSUME NEW g PROVE Merged(g)' = Merged(g)
  <2>1. \A i \in Overlapping(g) : Members(i)' = Members(i)
    BY <1>1 DEF Overlapping
  <2>2. \A p : p \in Merged(g)' <=> p \in Merged(g)
    BY <1>2, <2>1 DEF Merged
  <2> QED BY <2>2
<1>4. ASSUME NEW m PROVE Included(m)' = Included(m)
  <2>1. \A i : i \in Included(m)' <=> i \in Included(m)
    BY <1>1 DEF Included
  <2> QED BY <2>1
<1>5. Bridged' <=> Bridged
  BY <1>1 DEF Bridged
<1>6. Clear' <=> Clear
  BY <1>1, <1>5 DEF Clear, Disjoint
<1> QED BY <1>2, <1>3, <1>4, <1>6

(* In a clear call, what two groups make of themselves is apart, a group    *)
(* takes in what it meets, and what one group has found is taken in by no   *)
(* other.                                                                   *)
LEMMA ClearCalls ==
    ASSUME Clear, NEW g \in Groups(call.papers)
    PROVE  /\ g # {} /\ g \subseteq Merged(g)
           /\ \A h \in Groups(call.papers) : g # h => Merged(g) \cap Merged(h) = {}
           /\ \A i \in call.current : i \notin Overlapping(g) /\ Members(i) # Merged(g) =>
                 Members(i) \cap Merged(g) = {}
           /\ \A i \in call.current : Members(i) = Merged(g) =>
                 \A h \in Groups(call.papers) : g # h =>
                    i \notin Overlapping(h) /\ i \notin Included(Merged(h))
<1>1. \A h \in Groups(call.papers) : h \subseteq call.papers /\ h # {} /\ h \subseteq Merged(h)
  BY GroupsApart DEF Merged
<1>2. \A h \in Groups(call.papers) : g # h =>
         g \cap h = {} /\ \A i \in call.current : Members(i) \cap g = {} \/ Members(i) \cap h = {}
  BY GroupsApart DEF Clear, Bridged
<1>3. \A i, j \in call.current : i # j => Members(i) \cap Members(j) = {}
  BY DEF Clear, Disjoint
<1>4. \A h : \A p \in Merged(h) : p \in h \/ \E i \in Overlapping(h) : p \in Members(i)
  BY DEF Merged
<1>5. \A h : \A i : i \in Overlapping(h) <=>
         i \in call.current /\ Members(i) # h /\ Members(i) \cap h # {}
  BY DEF Overlapping
<1>6. ASSUME NEW h \in Groups(call.papers), g # h, NEW p \in Merged(g) \cap Merged(h)
      PROVE  FALSE
  <2>1. CASE p \in g /\ p \in h
    BY <1>2, <1>6, <2>1
  <2>2. CASE p \in g /\ p \notin h
    <3>1. PICK i \in Overlapping(h) : p \in Members(i)
      BY <1>4, <1>6, <2>2
    <3> QED BY <1>2, <1>5, <1>6, <2>2, <3>1
  <2>3. CASE p \notin g /\ p \in h
    <3>1. PICK i \in Overlapping(g) : p \in Members(i)
      BY <1>4, <1>6, <2>3
    <3> QED BY <1>2, <1>5, <1>6, <2>3, <3>1
  <2>4. CASE p \notin g /\ p \notin h
    <3>1. PICK i \in Overlapping(g) : p \in Members(i)
      BY <1>4, <1>6, <2>4
    <3>2. PICK j \in Overlapping(h) : p \in Members(j)
      BY <1>4, <1>6, <2>4
    <3>3. i = j
      BY <1>3, <1>5, <3>1, <3>2
    <3> QED BY <1>2, <1>5, <1>6, <3>1, <3>2, <3>3
  <2> QED BY <2>1, <2>2, <2>3, <2>4
<1>7. ASSUME NEW i \in call.current, i \notin Overlapping(g), Members(i) # Merged(g),
             NEW p \in Members(i) \cap Merged(g)
      PROVE  FALSE
  <2>1. CASE p \in g
    <3>1. Members(i) = g
      BY <1>5, <1>7, <2>1
    <3>2. \A j \in Overlapping(g) : FALSE
      BY <1>3, <1>5, <1>7, <3>1
    <3> QED BY <1>7, <3>1, <3>2 DEF Merged
  <2>2. CASE p \notin g
    <3>1. PICK j \in Overlapping(g) : p \in Members(j)
      BY <1>4, <1>7, <2>2
    <3> QED BY <1>3, <1>5, <1>7, <3>1
  <2> QED BY <2>1, <2>2
<1>8. ASSUME NEW i \in call.current, Members(i) = Merged(g), NEW h \in Groups(call.papers), g # h
      PROVE  i \notin Overlapping(h) /\ i \notin Included(Merged(h))
  <2>1. i \notin Overlapping(h)
    BY <1>1, <1>2, <1>5, <1>8
  <2>2. i \notin Included(Merged(h))
    BY <1>1, <1>6, <1>8 DEF Included
  <2> QED BY <2>1, <2>2
<1> QED BY <1>1, <1>6, <1>7, <1>8

(* Where nothing is stored but links that supersede nobody, what is said of *)
(* the identities in force stays.                                           *)
LEMMA InForceStays ==
    ASSUME IdentityInv, at # "idle", stored' = stored, InForce' = InForce,
           GroupsDone' = GroupsDone, call'.papers = call.papers, call'.unread = call.unread,
           call'.current = call.current, call'.found = call.found, call'.results = call.results
    PROVE  TogetherSound' /\ ApartSound'
<1>1. call.current \subseteq Stored /\ \A i : Members(i)' = Members(i)
  BY DEF IdentityInv, ResolvingSound, Members
<1>2. /\ \A g : Overlapping(g)' = Overlapping(g) /\ Merged(g)' = Merged(g)
      /\ \A m : Included(m)' = Included(m)
      /\ Clear' <=> Clear
  BY <1>1, CallReads
<1>3. TogetherSound'
  BY <1>1 DEF IdentityInv, TogetherSound
<1>4. ApartSound'
  <2> DEFINE Is(i, g) == i \in Overlapping(g) \cup Included(Merged(g))
  <2>1. \A i, g : Is(i, g)' <=> Is(i, g)
    BY <1>2
  <2>2. Disjoint(InForce)' <=> Disjoint(InForce)
    BY <1>1 DEF Disjoint
  <2>3. ApartSound
    BY DEF IdentityInv
  <2> QED BY ONLY <1>1, <1>2, <2>1, <2>2, <2>3, at # "idle", InForce' = InForce,
                  GroupsDone' = GroupsDone, call'.current = call.current,
                  call'.results = call.results DEF ApartSound
<1> QED BY <1>3, <1>4

(* The identities of a store with one more artifact.                        *)
LEMMA PutIdentity ==
    ASSUME StoredSound, SupersededSound, NEW a, Put(a), prov' = prov
    PROVE  /\ Active' = Active \cup {Latest + 1} /\ Latest + 1 \notin Stored
           /\ Latest' = Latest + 1 /\ Stored' = Stored \cup {Latest + 1}
           /\ \A i \in Stored : Members(i)' = Members(i)
           /\ Members(Latest)' = a.members
<1>1. /\ Stored' = Stored \cup {Latest + 1} /\ Latest + 1 \notin Stored
      /\ \A i \in Stored : stored'[i] = stored[i]
      /\ stored'[Latest + 1] = a
      /\ Latest \in Nat /\ Stored = 1 .. Latest
  BY PutAdds
<1>2. Latest' = Latest + 1
  BY <1>1, PutAdds DEF Latest, Put, StoredSound
<1>3. \A i : i \in Superseded' <=> i \in Superseded
  BY <1>1 DEF Superseded, SupersededSound
<1>4. \A i : i \in Active' <=> i \in Active \cup {Latest + 1}
  BY <1>1, <1>3 DEF Active, Superseded, SupersededSound
<1> QED BY <1>1, <1>2, <1>4 DEF Members

(* A call reads the identities that are current.                            *)
LEMMA ResolveKeeps ==
    ASSUME IdentityInv, NEW papers \in SUBSET Papers, NEW unread \in Unreadable,
           Resolve(papers, unread)
    PROVE  IdentityInv'
<1> DEFINE valid == papers \ unread
<1>1. /\ stored' = stored /\ prov' = prov /\ at' = "groups"
      /\ call' = [papers |-> valid, unread |-> unread, current |-> Current, found |-> Active,
                  todo |-> Groups(valid), members |-> {}, olds |-> {}, results |-> {}]
  BY DEF Resolve, Call
<1>2. Current \subseteq Active /\ Active \subseteq Stored /\ Stored \subseteq Nat
  BY DEF Current, Existing, Active, Stored, IdentityInv, StoredSound
<1>3. Groups(valid) \in SUBSET SUBSET Papers
  BY GroupsApart
<1>4. /\ Stored' = Stored /\ Active' = Active /\ Latest' = Latest
      /\ \A i : Members(i)' = Members(i)
  BY <1>1 DEF Stored, Active, Superseded, Latest, Members
<1>5. StoredSound' /\ SupersededSound'
  BY <1>1, <1>4 DEF IdentityInv, StoredSound, SupersededSound
<1>6. /\ call'.papers = valid /\ call'.current = Current /\ call'.found = Active
      /\ call'.todo = Groups(valid) /\ call'.olds = {} /\ call'.results = {}
  BY <1>1
<1>7. call' \in IdentityLocals
  <2> HIDE DEF valid
  <2>1. valid \in SUBSET Papers
    BY DEF valid
  <2> QED BY <1>1, <1>2, <1>3, <2>1 DEF IdentityLocals
<1>8. ResolvingSound'
  BY <1>1, <1>2, <1>4, <1>6, <1>7 DEF ResolvingSound
<1>9. InForce' = Active /\ GroupsDone' = {}
  BY <1>4, <1>6 DEF InForce, GroupsDone
<1>10. TogetherSound'
  BY <1>2, <1>4, <1>6, <1>9 DEF TogetherSound
<1>11. ApartSound'
  <2> SUFFICES ASSUME Clear' PROVE Disjoint(InForce)' /\ Current = Active
    BY <1>6, <1>9 DEF ApartSound
  <2>1. Current = Active /\ Disjoint(call.found)'
    BY <1>6 DEF Clear
  <2> QED BY <1>4, <1>6, <1>9, <2>1 DEF Disjoint
<1> QED BY <1>5, <1>8, <1>10, <1>11 DEF IdentityInv

(* A group that has its identity in what the call read.                     *)
LEMMA ReusedKeeps ==
    ASSUME IdentityInv, NEW group \in call.todo, Reuse(group)
    PROVE  IdentityInv'
<1>1. PICK i \in call.current :
         /\ Members(i) = Merged(group)
         /\ call' = [call EXCEPT !.todo = @ \ {group}, !.results = @ \cup {i}]
  BY DEF Reuse
<1>2. at = "groups" /\ at' = "groups" /\ stored' = stored /\ prov' = prov
  BY DEF Reuse, Goto
<1>3. /\ call \in IdentityLocals /\ call.current \subseteq Stored /\ call.olds = {}
      /\ call.todo \subseteq Groups(call.papers)
  BY <1>2 DEF IdentityInv, ResolvingSound
<1>4. /\ call'.papers = call.papers /\ call'.unread = call.unread
      /\ call'.current = call.current /\ call'.found = call.found
      /\ call'.todo = call.todo \ {group} /\ call'.olds = call.olds
      /\ call'.results = call.results \cup {i} /\ call' \in IdentityLocals
  BY <1>1, <1>3 DEF IdentityLocals
<1>5. /\ Stored' = Stored /\ Active' = Active /\ Latest' = Latest
      /\ \A j : Members(j)' = Members(j)
  BY <1>2 DEF Stored, Active, Superseded, Latest, Members
<1>6. StoredSound' /\ SupersededSound'
  BY <1>2, <1>5 DEF IdentityInv, StoredSound, SupersededSound
<1>7. ResolvingSound'
  BY <1>2, <1>3, <1>4, <1>5 DEF ResolvingSound
<1>8. InForce' = InForce /\ GroupsDone' = GroupsDone \cup {group} /\ group \notin GroupsDone
  BY <1>3, <1>4, <1>5 DEF InForce, GroupsDone
<1>9. TogetherSound'
  <2>1. group \subseteq Members(i) \cap call.papers
    BY <1>1, <1>3, GroupsApart DEF Merged
  <2>2. PICK j \in InForce : Members(i) \cap call.papers \subseteq Members(j)
    BY <1>2 DEF IdentityInv, TogetherSound
  <2> QED BY <1>2, <1>4, <1>5, <1>8, <2>1, <2>2 DEF IdentityInv, TogetherSound
<1>10. ApartSound'
  <2>1. /\ \A g : Overlapping(g)' = Overlapping(g) /\ Merged(g)' = Merged(g)
        /\ \A m : Included(m)' = Included(m)
        /\ Clear' <=> Clear
    BY <1>3, <1>4, <1>5, CallReads
  <2> SUFFICES ASSUME Clear PROVE ApartSound'
    BY <2>1 DEF ApartSound
  <2>2. i \in InForce
    <3>1. \A g \in GroupsDone : i \notin Overlapping(g) /\ i \notin Included(Merged(g))
      BY <1>1, <1>3, <1>8, ClearCalls DEF GroupsDone
    <3> QED BY <1>2, <3>1 DEF IdentityInv, ApartSound
  <2>3. Disjoint(InForce)' <=> Disjoint(InForce)
    BY <1>5, <1>8 DEF Disjoint
  <2>4. \A j, g : j \in (Overlapping(g) \cup Included(Merged(g)))'
                   <=> j \in Overlapping(g) \cup Included(Merged(g))
    BY <2>1
  <2>5. ApartSound /\ Clear /\ at = "groups"
    BY <1>2 DEF IdentityInv
  <2> QED BY ONLY <1>1, <1>4, <1>5, <1>8, <2>1, <2>2, <2>3, <2>4, <2>5 DEF ApartSound
<1> QED BY <1>6, <1>7, <1>9, <1>10 DEF IdentityInv

(* A group gets an identity, with the members of those it takes in.         *)
LEMMA CreateKeeps ==
    ASSUME IdentityInv, NEW group \in call.todo, Create(group)
    PROVE  IdentityInv'
<1> DEFINE taken == Overlapping(group) \cup Included(Merged(group))
<1>0. PICK new : new = Latest + 1
  OBVIOUS
<1>1. /\ \A i \in call.current : Members(i) # Merged(group)
      /\ Put([kind |-> "identity", members |-> Merged(group)]) /\ prov' = prov
      /\ call' = [call EXCEPT !.todo = @ \ {group},
                              !.members = Merged(group),
                              !.olds = taken,
                              !.results = @ \cup {new}]
      /\ at = "groups" /\ at' = "links"
  BY <1>0 DEF Create, Goto, Latest
<1>2. /\ call \in IdentityLocals /\ call.current \subseteq Stored /\ call.olds = {}
      /\ call.todo \subseteq Groups(call.papers) /\ call.papers \subseteq Papers
      /\ StoredSound /\ SupersededSound
  BY <1>1 DEF IdentityInv, ResolvingSound, IdentityLocals
<1>3. /\ Active' = Active \cup {new} /\ new \notin Stored
      /\ Latest' = new /\ Stored' = Stored \cup {new}
      /\ \A i \in Stored : Members(i)' = Members(i)
      /\ Members(Latest)' = Merged(group)
      /\ StoredSound' /\ new \in Nat
  BY <1>0, <1>1, <1>2, PutIdentity, PutAdds
<1>4. /\ taken \subseteq call.current /\ group \subseteq Merged(group)
      /\ \A i \in call.current : Members(i) \subseteq Papers
  BY <1>2, GroupsApart DEF Overlapping, Included, Merged, SupersededSound
<1>5. Merged(group) \subseteq Papers
  BY <1>2, <1>4, GroupsApart DEF Merged, Overlapping
<1>6. /\ call'.papers = call.papers /\ call'.unread = call.unread
      /\ call'.current = call.current /\ call'.found = call.found
      /\ call'.todo = call.todo \ {group} /\ call'.olds = taken
      /\ call'.results = call.results \cup {new} /\ call' \in IdentityLocals
  <2> HIDE DEF taken
  <2>1. taken \in SUBSET Nat /\ new \in Nat
    BY <1>2, <1>3, <1>4 DEF IdentityLocals
  <2> QED BY <1>1, <1>2, <1>5, <2>1 DEF IdentityLocals
<1>7. \A i \in taken : /\ Members(i) \subseteq Merged(group) \cup call.unread
                       /\ Members(i) \cap call.papers \subseteq Merged(group)
  BY DEF Overlapping, Included, Merged
<1>8. SupersededSound'
  <2>1. \A i \in Stored' : Members(i)' \subseteq Papers
    BY <1>2, <1>3, <1>5 DEF SupersededSound
  <2> QED BY <1>1, <1>2, <1>3, <2>1 DEF SupersededSound
<1> HIDE DEF taken
<1>9. ResolvingSound'
  BY <1>1, <1>2, <1>3, <1>4, <1>6, <1>7 DEF ResolvingSound
<1>10. /\ InForce' = (InForce \ taken) \cup {new} /\ new \notin InForce
       /\ InForce \subseteq Stored
       /\ GroupsDone' = GroupsDone \cup {group} /\ group \notin GroupsDone
       /\ Members(new)' = Merged(group)
  <2>1. Active \subseteq Stored
    BY DEF Active
  <2>2. Members(new)' = Merged(group)
    BY <1>3 DEF Members
  <2> QED BY <1>2, <1>3, <1>4, <1>6, <2>1, <2>2 DEF InForce, GroupsDone
<1>11. TogetherSound'
  <2>1. ASSUME NEW j \in InForce
        PROVE  \E k \in InForce' : Members(j) \cap call.papers \subseteq Members(k)'
    <3>1. CASE j \in taken
      BY <1>7, <1>10, <3>1
    <3>2. CASE j \notin taken
      BY <1>3, <1>10, <3>2
    <3> QED BY <3>1, <3>2
  <2>2. ASSUME NEW i \in call.current
        PROVE  \E k \in InForce' : Members(i)' \cap call.papers \subseteq Members(k)'
    <3>1. PICK j \in InForce : Members(i) \cap call.papers \subseteq Members(j)
      BY <1>1 DEF IdentityInv, TogetherSound
    <3>2. PICK k \in InForce' : Members(j) \cap call.papers \subseteq Members(k)'
      BY <2>1
    <3>3. Members(i)' = Members(i)
      BY <1>2, <1>3
    <3> QED BY <3>1, <3>2, <3>3
  <2>3. ASSUME NEW g \in GroupsDone
        PROVE  \E k \in InForce' : g \subseteq Members(k)'
    <3>1. PICK j \in InForce : g \subseteq Members(j)
      BY <1>1 DEF IdentityInv, TogetherSound
    <3>2. PICK k \in InForce' : Members(j) \cap call.papers \subseteq Members(k)'
      BY <2>1
    <3>3. g \subseteq call.papers
      BY GroupsApart DEF GroupsDone
    <3> QED BY <3>1, <3>2, <3>3
  <2>4. \E k \in InForce' : group \subseteq Members(k)'
    BY <1>4, <1>10
  <2> QED BY <1>6, <1>10, <2>2, <2>3, <2>4 DEF TogetherSound
<1>12. ApartSound'
  <2>1. /\ \A g : Overlapping(g)' = Overlapping(g) /\ Merged(g)' = Merged(g)
        /\ \A m : Included(m)' = Included(m)
        /\ Clear' <=> Clear
    BY <1>2, <1>3, <1>6, CallReads
  <2> SUFFICES ASSUME Clear PROVE ApartSound'
    BY <2>1 DEF ApartSound
  <2>2. /\ Disjoint(InForce)
        /\ \A j \in InForce : j \in call.current \/ \E g \in GroupsDone : Members(j) = Merged(g)
        /\ \A i \in call.results : i \in InForce /\ \E g \in GroupsDone : Members(i) = Merged(g)
        /\ \A i \in call.current :
              i \in InForce \/ \E g \in GroupsDone : i \in Overlapping(g) \cup Included(Merged(g))
    BY <1>1 DEF IdentityInv, ApartSound
  <2>3. GroupsDone \subseteq Groups(call.papers) /\ group \in Groups(call.papers)
    BY <1>2 DEF GroupsDone
  <2>4. ASSUME NEW j \in InForce, j \notin taken
        PROVE  Members(j) \cap Merged(group) = {}
    <3>1. CASE j \in call.current
      BY <1>1, <2>3, <2>4, <3>1, ClearCalls DEF taken
    <3>2. CASE j \notin call.current
      <4>1. PICK g \in GroupsDone : Members(j) = Merged(g)
        BY <2>2, <3>2
      <4> QED BY <1>10, <2>3, <4>1, ClearCalls
    <3> QED BY <3>1, <3>2
  <2>5. Disjoint(InForce)'
    <3>1. \A i, j \in InForce : i # j => Members(i) \cap Members(j) = {}
      BY <2>2 DEF Disjoint
    <3> SUFFICES ASSUME NEW i \in InForce', NEW j \in InForce', i # j
                 PROVE  Members(i)' \cap Members(j)' = {}
      BY DEF Disjoint
    <3> QED BY <1>3, <1>10, <2>4, <3>1
  <2>6. ASSUME NEW i \in call.results
        PROVE  i \in InForce' /\ \E g \in GroupsDone : Members(i)' = Merged(g)
    <3>1. PICK g \in GroupsDone : i \in InForce /\ Members(i) = Merged(g)
      BY <2>2
    <3>2. i \notin taken
      BY <1>4, <1>10, <2>3, <3>1, ClearCalls DEF taken
    <3> QED BY <1>3, <1>10, <3>1, <3>2
  <2>7. ASSUME NEW j \in InForce'
        PROVE  \/ j \in call.current
               \/ \E g \in GroupsDone \cup {group} : Members(j)' = Merged(g)
    BY <1>3, <1>10, <2>2
  <2>8. ASSUME NEW i \in call.current, i \notin InForce'
        PROVE  \E g \in GroupsDone \cup {group} : i \in Overlapping(g) \cup Included(Merged(g))
    <3>1. CASE i \in InForce
      BY <1>10, <2>8, <3>1 DEF taken
    <3>2. CASE i \notin InForce
      BY <2>2, <3>2
    <3> QED BY <3>1, <3>2
  <2> QED BY <1>6, <1>10, <2>1, <2>5, <2>6, <2>7, <2>8 DEF ApartSound
<1> QED BY <1>3, <1>8, <1>9, <1>11, <1>12 DEF IdentityInv

(* Links from members supersede nobody; a link to the new identity does.    *)
LEMMA LinksKeep ==
    ASSUME IdentityInv, LinkMember \/ Supersede \/ GroupSettled
    PROVE  IdentityInv'
<1>1. /\ at = "links" /\ at' \in {"links", "groups"} /\ stored' = stored
      /\ call \in IdentityLocals /\ call.current \subseteq Stored
      /\ call.olds \subseteq call.current /\ call.todo \subseteq Groups(call.papers)
      /\ Latest \in Active /\ Latest \notin call.current
      /\ \A i \in call.olds : Members(i) \subseteq Members(Latest) \cup call.unread
  BY DEF LinkMember, Supersede, GroupSettled, Goto, IdentityInv, ResolvingSound
<1>2. /\ Stored' = Stored /\ Latest' = Latest /\ \A i : Members(i)' = Members(i)
      /\ Stored \subseteq Nat /\ Latest \in Stored
  BY <1>1 DEF Stored, Latest, Members, Active, IdentityInv, StoredSound
<1>3. \E old : /\ call'.papers = call.papers /\ call'.unread = call.unread
               /\ call'.current = call.current /\ call'.found = call.found
               /\ call'.todo = call.todo /\ call'.results = call.results
               /\ call' \in IdentityLocals
               /\ call'.olds = call.olds \ {old}
               /\ old \notin call.olds => Active' = Active
               /\ old \in call.olds => Active' = Active \ {old}
               /\ SupersededSound'
               /\ at' = "groups" => call'.olds = {}
  <2>1. CASE LinkMember
    <3>1. PICK p : /\ prov' = prov \cup {<<p, Latest, "derived_from">>}
                   /\ call' = [call EXCEPT !.members = @ \ {p}] /\ at' = "links"
      BY <2>1 DEF LinkMember, Goto
    <3>2. /\ call'.papers = call.papers /\ call'.unread = call.unread
          /\ call'.current = call.current /\ call'.found = call.found
          /\ call'.todo = call.todo /\ call'.results = call.results
          /\ call'.olds = call.olds /\ call' \in IdentityLocals
      BY <1>1, <3>1 DEF IdentityLocals
    <3>3. \A i, j : <<i, j, "supersedes">> \in prov' <=> <<i, j, "supersedes">> \in prov
      BY <3>1
    <3>4. Active' = Active /\ SupersededSound'
      BY <1>2, <3>3 DEF Active, Superseded, SupersededSound, IdentityInv
    <3>5. Latest \notin call.olds
      BY <1>1
    <3> QED BY <3>1, <3>2, <3>4, <3>5
  <2>2. CASE Supersede
    <3>1. PICK old : old = Min(call.olds)
      OBVIOUS
    <3>2. old \in call.olds /\ old \in Stored
      <4>1. call.olds \in SUBSET Nat /\ call.olds # {}
        BY <1>1, <1>2, <2>2 DEF Supersede
      <4> QED BY <1>1, <3>1, <4>1, FirstPlace
    <3>3. /\ prov' = prov \cup {<<old, Latest, "supersedes">>}
          /\ call' = [call EXCEPT !.olds = @ \ {old}] /\ at' = "links"
      BY <2>2, <3>1 DEF Supersede, Goto
    <3>4. /\ call'.papers = call.papers /\ call'.unread = call.unread
          /\ call'.current = call.current /\ call'.found = call.found
          /\ call'.todo = call.todo /\ call'.results = call.results
          /\ call'.olds = call.olds \ {old} /\ call' \in IdentityLocals
      BY <1>1, <3>3 DEF IdentityLocals
    <3>5. \A i, j : <<i, j, "supersedes">> \in prov'
                       <=> <<i, j, "supersedes">> \in prov \/ (i = old /\ j = Latest)
      BY <3>3
    <3>6. \A i : i \in Active' <=> i \in Active /\ i # old
      BY <1>2, <3>5 DEF Active, Superseded
    <3>7. SupersededSound'
      BY <1>2, <3>2, <3>5 DEF SupersededSound, IdentityInv
    <3> QED BY <3>2, <3>3, <3>4, <3>6, <3>7
  <2>3. CASE GroupSettled
    <3>1. call' = call /\ prov' = prov /\ call.olds = {}
      BY <2>3 DEF GroupSettled
    <3>2. Active' = Active /\ SupersededSound'
      BY <1>2, <3>1 DEF Active, Superseded, SupersededSound, IdentityInv
    <3> QED BY <1>1, <3>1, <3>2
  <2> QED BY <2>1, <2>2, <2>3
<1>4. PICK old : /\ call'.papers = call.papers /\ call'.unread = call.unread
                 /\ call'.current = call.current /\ call'.found = call.found
                 /\ call'.todo = call.todo /\ call'.results = call.results
                 /\ call' \in IdentityLocals
                 /\ call'.olds = call.olds \ {old}
                 /\ old \notin call.olds => Active' = Active
                 /\ old \in call.olds => Active' = Active \ {old}
                 /\ SupersededSound'
                 /\ at' = "groups" => call'.olds = {}
  BY <1>3
<1>5. InForce' = InForce /\ GroupsDone' = GroupsDone
  BY <1>4 DEF InForce, GroupsDone
<1>6. ResolvingSound'
  BY <1>1, <1>2, <1>4 DEF ResolvingSound
<1>7. StoredSound'
  BY <1>1 DEF IdentityInv, StoredSound
<1>8. TogetherSound' /\ ApartSound'
  BY <1>1, <1>4, <1>5, InForceStays
<1> QED BY <1>4, <1>6, <1>7, <1>8 DEF IdentityInv

(* A call that ends leaves the identities as they are.                      *)
LEMMA CallEndKeeps ==
    ASSUME IdentityInv, stored' = stored, prov' = prov, at' = "idle"
    PROVE  IdentityInv'
<1>1. Stored' = Stored /\ \A i : Members(i)' = Members(i)
  BY DEF Stored, Members
<1>2. SupersededSound' /\ StoredSound'
  BY <1>1 DEF IdentityInv, SupersededSound, StoredSound
<1> QED BY <1>2 DEF IdentityInv, ResolvingSound, TogetherSound, ApartSound

(* IdentityInv is inductive.                                                *)
LEMMA IdentityInductive ==
    /\ NothingStored => IdentityInv
    /\ IdentityInv /\ [IdentityNext]_researchVars => IdentityInv'
<1>1. ASSUME NothingStored PROVE IdentityInv
  <2>1. StoredSound /\ at = "idle" /\ stored = <<>> /\ prov = {}
    BY <1>1, NothingIsStored DEF NothingStored
  <2>2. SupersededSound
    BY <2>1 DEF SupersededSound, Stored
  <2> QED BY <2>1, <2>2 DEF IdentityInv, ResolvingSound, TogetherSound, ApartSound
<1>2. ASSUME IdentityInv, [IdentityNext]_researchVars PROVE IdentityInv'
  <2>1. ASSUME NEW papers \in (SUBSET Papers) \ {{}}, NEW unread \in Unreadable,
               Resolve(papers, unread)
        PROVE  IdentityInv'
    BY <1>2, <2>1, ResolveKeeps
  <2>2. ASSUME NEW group \in call.todo, Reuse(group) \/ Create(group)
        PROVE  IdentityInv'
    BY <1>2, <2>2, ReusedKeeps, CreateKeeps
  <2>3. CASE LinkMember \/ Supersede \/ GroupSettled
    BY <1>2, <2>3, LinksKeep
  <2>4. CASE Resolved \/ Die
    BY <1>2, <2>4, CallEndKeeps DEF Resolved, Return, Die
  <2>5. CASE UNCHANGED researchVars
    <3>1. /\ stored' = stored /\ prov' = prov /\ at' = at /\ call' = call
      BY <2>5 DEF researchVars
    <3>2. CASE at = "idle"
      BY <1>2, <3>1, <3>2, CallEndKeeps
    <3>3. CASE at # "idle"
      <4>1. /\ Stored' = Stored /\ Active' = Active /\ Latest' = Latest
            /\ \A i : Members(i)' = Members(i)
        BY <3>1 DEF Stored, Active, Superseded, Latest, Members
      <4>2. InForce' = InForce /\ GroupsDone' = GroupsDone
        BY <3>1, <4>1 DEF InForce, GroupsDone
      <4>3. TogetherSound' /\ ApartSound'
        BY <1>2, <3>1, <3>3, <4>2, InForceStays
      <4>4. StoredSound' /\ SupersededSound' /\ ResolvingSound'
        BY <1>2, <3>1, <4>1 DEF IdentityInv, StoredSound, SupersededSound, ResolvingSound
      <4> QED BY <4>3, <4>4 DEF IdentityInv
    <3> QED BY <3>2, <3>3
  <2> QED BY <1>2, <2>1, <2>2, <2>3, <2>4, <2>5 DEF IdentityNext
<1> QED BY <1>1, <1>2

(* Papers joined by a chain of identifiers end up in one identity that is   *)
(* in force, for any papers and identifiers, any order of the groups, any   *)
(* records that fail to load, and whenever the process dies.                *)
THEOREM IdentitiesTogether == IdentitySpec => []ResolvedTogether
<1>1. IdentityInv => ResolvedTogether
  <2> SUFFICES ASSUME IdentityInv, at = "groups", NEW group \in GroupsDone
               PROVE  /\ \E i \in Active : group \subseteq Members(i)
                      /\ \A p \in group, q \in call.papers : Share(p, q) => q \in group
    BY DEF ResolvedTogether, GroupsDone
  <2>1. \E j \in InForce : group \subseteq Members(j)
    BY DEF IdentityInv, TogetherSound
  <2>2. group \in Groups(call.papers)
    BY DEF GroupsDone
  <2> QED BY <2>1, <2>2, GroupsApart DEF InForce
<1> QED BY <1>1, IdentityInductive, PTL DEF IdentitySpec

(* No paper falls out of its identity, and a clear call leaves every paper  *)
(* in one identity at most and returns identities that are in force.        *)
THEOREM IdentitiesStay == IdentitySpec => [][KeepsIdentities]_researchVars
<1>1. IdentityInv /\ [IdentityNext]_researchVars => [KeepsIdentities]_researchVars
  <2> SUFFICES ASSUME IdentityInv, IdentityNext PROVE KeepsIdentities
    OBVIOUS
  <2>1. ASSUME at = "groups", Clear
        PROVE  Disjoint(Active) /\ call.results \subseteq Active
    <3>1. InForce = Active
      BY <2>1 DEF InForce, IdentityInv, ResolvingSound
    <3> QED BY <2>1, <3>1 DEF IdentityInv, ApartSound
  <2>2. ASSUME NEW i \in Active, NEW p \in Members(i), p \notin call.unread
        PROVE  \E j \in Active' : p \in stored'[j].members
    <3>1. ASSUME NEW a, Put(a), prov' = prov
          PROVE  i \in Active' /\ stored'[i] = stored[i]
      <4>1. Active \subseteq Stored
        BY DEF Active
      <4> QED BY <3>1, <4>1, PutIdentity, PutAdds DEF IdentityInv
    <3>2. ASSUME stored' = stored, \A j, k : <<j, k, "supersedes">> \in prov' =>
                                                <<j, k, "supersedes">> \in prov
          PROVE  i \in Active'
      BY <3>2 DEF Active, Superseded, Stored
    <3>3. CASE Supersede
      <4>1. PICK old : old = Min(call.olds)
        OBVIOUS
      <4>2. /\ stored' = stored /\ prov' = prov \cup {<<old, Latest, "supersedes">>}
            /\ at = "links" /\ call.olds # {}
        BY <3>3, <4>1 DEF Supersede
      <4>3. /\ call.olds \subseteq call.current /\ call.current \subseteq Stored
            /\ Latest \in Active /\ Latest \notin call.current
            /\ \A j \in call.olds : Members(j) \subseteq Members(Latest) \cup call.unread
        BY <4>2 DEF IdentityInv, ResolvingSound
      <4>4. old \in call.olds
        <5>1. call.olds \in SUBSET Nat
          BY <4>3 DEF Stored, IdentityInv, StoredSound
        <5> QED BY <4>1, <4>2, <5>1, FirstPlace
      <4>5. \A j : j \in Active /\ j # old => j \in Active'
        BY <4>2 DEF Active, Superseded, Stored
      <4>6. Latest \in Active' /\ Latest # old
        BY <4>3, <4>4, <4>5
      <4> QED BY <2>2, <4>2, <4>3, <4>4, <4>5, <4>6 DEF Members
    <3>4. CASE LinkMember
      BY <2>2, <3>2, <3>4 DEF LinkMember, Members
    <3>5. CASE GroupSettled \/ Resolved \/ Die
      BY <2>2, <3>2, <3>5 DEF GroupSettled, Resolved, Die, Members
    <3>6. ASSUME NEW papers \in (SUBSET Papers) \ {{}}, NEW unread \in Unreadable,
                 Resolve(papers, unread)
          PROVE  \E j \in Active' : p \in stored'[j].members
      BY <2>2, <3>2, <3>6 DEF Resolve, Members
    <3>7. ASSUME NEW group \in call.todo, Reuse(group)
          PROVE  \E j \in Active' : p \in stored'[j].members
      BY <2>2, <3>2, <3>7 DEF Reuse, Members
    <3>8. ASSUME NEW group \in call.todo, Create(group)
          PROVE  \E j \in Active' : p \in stored'[j].members
      BY <2>2, <3>1, <3>8 DEF Create, Members
    <3> QED BY <3>3, <3>4, <3>5, <3>6, <3>7, <3>8 DEF IdentityNext
  <2> QED BY <2>1, <2>2 DEF KeepsIdentities, Clear, Members
<1> QED BY <1>1, IdentityInductive, PTL DEF IdentitySpec

-----------------------------------------------------------------------------
(* Mechanisms                                                               *)
\* The step that a call is at, or goes on with after the links of what it put.
Resumes == IF at = "link" THEN call.step ELSE at

MechanismSteps ==
    {"gap", "generate", "analysis", "done", "critique", "critiqued", "select", "selected"}

\* A call knows what has been stored for its candidate or selection, and what not.
MechanismCallSound ==
    at # "idle" =>
       /\ DOMAIN call = DOMAIN Locals
       /\ Resumes \in MechanismSteps /\ call.then \in {"done", "select"}
       /\ Resumes \in {"generate", "analysis"} =>
             call.selection \in OfKind("selection") /\ MayGenerate(call.selection)
       /\ Resumes = "generate" => Generations(call.selection) = {}
       /\ Resumes \in {"critique", "critiqued", "select", "selected"} =>
             call.candidate \in OfKind("candidate")
       /\ Resumes = "critique" => CritiquesOf(call.candidate) = {}
       /\ Resumes \in {"critiqued", "select"} => CritiquesOf(call.candidate) # {}
       /\ Resumes = "select" \/ (Resumes \in {"critique", "critiqued"} /\ call.then = "select") =>
             MechanismsOf(call.candidate) = {}

\* Candidates are generated for approved selections, mechanisms are candidates'.
CandidatesSound ==
    /\ \A c \in OfKind("candidate") :
          stored[c].selection \in OfKind("selection") /\ MayGenerate(stored[c].selection)
    /\ \A m \in OfKind("mechanism") :
          /\ stored[m].candidate \in OfKind("candidate")
          /\ stored[m].critiques \subseteq OfKind("mechanism_critique")
    /\ \A k \in OfKind("mechanism_critique") : stored[k].candidate \in OfKind("candidate")

\* Every artifact has a kind.
KindsKnown == \A i \in Stored : "kind" \in DOMAIN stored[i]

MechanismInv ==
    StoredSound /\ KindsKnown /\ MechanismCallSound /\ CandidatesSound /\ MechanismsEarned

\* The artifacts that mechanisms are about.
MechanismKinds == {"selection", "generation", "candidate", "mechanism_critique", "mechanism"}

\* A step that stores none of these.
KindsStay ==
    /\ StoredSound' /\ Stored \subseteq Stored'
    /\ \A i \in Stored : stored'[i] = stored[i]
    /\ \A kind \in MechanismKinds : OfKind(kind)' = OfKind(kind)

LEMMA QuietKeepsKinds ==
    ASSUME StoredSound, UNCHANGED stored
    PROVE  KindsStay /\ \A kind : OfKind(kind)' = OfKind(kind)
<1>1. Stored' = Stored
  BY DEF Stored
<1>2. \A kind : OfKind(kind)' = OfKind(kind)
  BY <1>1 DEF OfKind
<1> QED BY <1>1, <1>2 DEF KindsStay, StoredSound, ToSet

LEMMA OtherKeepsKinds ==
    ASSUME StoredSound, NEW a, Put(a), a.kind \notin MechanismKinds
    PROVE  KindsStay
<1>1. \A kind \in MechanismKinds : OfKind(kind)' = OfKind(kind)
  <2> TAKE kind \in MechanismKinds
  <2>1. a.kind # kind
    OBVIOUS
  <2> QED BY <2>1, PutOfKind
<1> QED BY <1>1, PutAdds DEF KindsStay

(* Such a step changes nothing of what is said of them.                     *)
LEMMA KindsKeep ==
    ASSUME MechanismInv, KindsStay
    PROVE  /\ CandidatesSound' /\ MechanismsEarned'
           /\ \A s : Generations(s)' = Generations(s)
           /\ \A s \in Stored : MayGenerate(s)' = MayGenerate(s)
           /\ \A c : CritiquesOf(c)' = CritiquesOf(c) /\ MechanismsOf(c)' = MechanismsOf(c)
<1>1. \A kind \in MechanismKinds : \A i \in OfKind(kind) :
         i \in Stored /\ stored'[i] = stored[i] /\ i \in OfKind(kind)'
  BY DEF KindsStay, OfKind
<1>2. /\ OfKind("selection")' = OfKind("selection")
      /\ OfKind("generation")' = OfKind("generation")
      /\ OfKind("candidate")' = OfKind("candidate")
      /\ OfKind("mechanism_critique")' = OfKind("mechanism_critique")
      /\ OfKind("mechanism")' = OfKind("mechanism")
  BY DEF KindsStay, MechanismKinds
<1>3. /\ \A i \in OfKind("selection") : stored'[i] = stored[i]
      /\ \A i \in OfKind("generation") : stored'[i] = stored[i]
      /\ \A i \in OfKind("candidate") : stored'[i] = stored[i]
      /\ \A i \in OfKind("mechanism_critique") : stored'[i] = stored[i]
      /\ \A i \in OfKind("mechanism") : stored'[i] = stored[i]
  BY <1>1 DEF MechanismKinds
<1>4. \A s : Generations(s)' = Generations(s)
  BY <1>2, <1>3 DEF Generations
<1>5. \A c : CritiquesOf(c)' = CritiquesOf(c) /\ MechanismsOf(c)' = MechanismsOf(c)
  BY <1>2, <1>3 DEF CritiquesOf, MechanismsOf
<1>6. CandidatesSound'
  BY <1>2, <1>3 DEF CandidatesSound, MayGenerate, MechanismInv
<1>7. Standing' = Standing
  BY <1>2, <1>3 DEF Standing
<1>8. MechanismsEarned'
  <2>1. \A m \in OfKind("mechanism") :
           /\ stored[m].candidate \in OfKind("candidate")
           /\ stored[stored[m].candidate].selection \in OfKind("selection")
    BY DEF MechanismInv, CandidatesSound
  <2>2. ASSUME NEW m \in OfKind("mechanism")
        PROVE  /\ stored'[stored'[stored'[m].candidate].selection].status = "approved"
               /\ stored'[m].critiques # {}
               /\ \A k \in stored'[m].critiques :
                     k < m /\ stored'[k].candidate = stored'[m].candidate
    <3>1. /\ stored[stored[stored[m].candidate].selection].status = "approved"
          /\ stored[m].critiques # {}
          /\ \A k \in stored[m].critiques :
                k \in OfKind("mechanism_critique") /\ k < m /\ stored[k].candidate = stored[m].candidate
      BY DEF MechanismInv, MechanismsEarned, CandidatesSound
    <3> QED BY <1>3, <2>1, <3>1
  <2>3. \A x, y \in OfKind("generation") :
          /\ stored'[x].selection = stored'[y].selection
          /\ stored'[x].created # <<>> /\ stored'[y].created # <<>>
          => x = y
    BY <1>3 DEF MechanismInv, MechanismsEarned
  <2>4. /\ \A k, l \in OfKind("mechanism_critique") :
              stored'[k].candidate = stored'[l].candidate => k = l
        /\ \A k, l \in OfKind("mechanism") : stored'[k].candidate = stored'[l].candidate => k = l
    BY <1>3 DEF MechanismInv, MechanismsEarned
  <2>5. \A s, t \in Standing : s = t
    BY DEF MechanismInv, MechanismsEarned
  <2> QED BY <1>2, <1>7, <2>2, <2>3, <2>4, <2>5 DEF MechanismsEarned
<1>9. \A s \in Stored : MayGenerate(s)' = MayGenerate(s)
  BY DEF MayGenerate, KindsStay
<1> QED BY <1>4, <1>5, <1>6, <1>8, <1>9

LEMMA FieldsOfCall ==
    DOMAIN Locals = {"links", "step", "gap", "selection", "todo", "made", "rejected",
                     "candidate", "critiques", "new", "then"}
  BY DEF Locals

(* The call after a put: it has its links before it, and the rest as it was *)
(* told to keep.                                                            *)
LEMMA PutThenLinks ==
    ASSUME NEW artifact, NEW links, NEW step, NEW locals, DOMAIN locals = DOMAIN Locals,
           step # "link", PutWithLinks(artifact, links, step, locals)
    PROVE  /\ DOMAIN call' = DOMAIN Locals /\ call'.links = links
           /\ at' = "link" /\ Resumes' = step
           /\ call'.gap = locals.gap /\ call'.selection = locals.selection
           /\ call'.made = locals.made /\ call'.candidate = locals.candidate
           /\ call'.new = locals.new /\ call'.then = locals.then
           /\ Put(artifact) /\ prov' = prov /\ deaths' = deaths
<1>1. call' = [locals EXCEPT !.links = links, !.step = step] /\ at' = "link"
  BY DEF PutWithLinks, Goto
<1>2. /\ DOMAIN call' = DOMAIN Locals /\ call'.links = links /\ call'.step = step
      /\ call'.gap = locals.gap /\ call'.selection = locals.selection
      /\ call'.made = locals.made /\ call'.candidate = locals.candidate
      /\ call'.new = locals.new /\ call'.then = locals.then
  BY <1>1, FieldsOfCall
<1> QED BY <1>1, <1>2 DEF Resumes, PutWithLinks, Goto

(* A step that stores nothing keeps what is stored sound.                   *)
LEMMA QuietMechanisms ==
    ASSUME MechanismInv, UNCHANGED stored, MechanismCallSound'
    PROVE  MechanismInv'
<1>1. KindsKnown'
  BY DEF MechanismInv, KindsKnown, Stored
<1> QED BY <1>1, QuietKeepsKinds, KindsKeep DEF MechanismInv, KindsStay

LEMMA IdleMechanisms ==
    ASSUME MechanismInv, UNCHANGED stored, at' = "idle"
    PROVE  MechanismInv'
  BY QuietMechanisms DEF MechanismCallSound

(* A call begins.                                                           *)
LEMMA CallBegins ==
    ASSUME MechanismInv, UNCHANGED stored, NEW step, NEW locals, Call(step, locals),
           DOMAIN locals = DOMAIN Locals, step \in MechanismSteps \ {"analysis", "critiqued"},
           locals.then \in {"done", "select"},
           step = "generate" =>
              /\ locals.selection \in OfKind("selection") /\ MayGenerate(locals.selection)
              /\ Generations(locals.selection) = {},
           step \in {"critique", "select", "selected"} => locals.candidate \in OfKind("candidate"),
           step = "critique" => CritiquesOf(locals.candidate) = {},
           step = "select" => CritiquesOf(locals.candidate) # {},
           step = "select" \/ locals.then = "select" => MechanismsOf(locals.candidate) = {}
    PROVE  MechanismInv'
<1>1. at' = step /\ call' = locals /\ Resumes' = step
  BY DEF Call, Resumes, MechanismSteps
<1>2. OfKind("selection")' = OfKind("selection") /\ OfKind("candidate")' = OfKind("candidate")
      /\ stored' = stored
  BY QuietKeepsKinds DEF MechanismInv
<1>3. /\ Generations(locals.selection)' = Generations(locals.selection)
      /\ CritiquesOf(locals.candidate)' = CritiquesOf(locals.candidate)
      /\ MechanismsOf(locals.candidate)' = MechanismsOf(locals.candidate)
  BY QuietKeepsKinds, KindsKeep DEF MechanismInv
<1>4. MechanismCallSound'
  BY <1>1, <1>2, <1>3 DEF MechanismCallSound, MayGenerate, Generations, CritiquesOf, MechanismsOf
<1> QED BY <1>4, QuietMechanisms

LEMMA GenerateKeeps ==
    ASSUME MechanismInv, NEW selection \in OfKind("selection"), NEW proposals,
           Generate(selection, proposals)
    PROVE  MechanismInv'
<1> DEFINE locals == [Locals EXCEPT !.selection = selection, !.todo = proposals]
<1>1. Call("generate", locals) /\ UNCHANGED stored
  BY DEF Generate
<1>2. DOMAIN locals = DOMAIN Locals /\ locals.selection = selection /\ locals.then = "done"
  BY FieldsOfCall DEF Locals
<1>3. Generations(selection) = {} /\ MayGenerate(selection)
  BY DEF Generate
<1> HIDE DEF locals
<1> QED BY <1>1, <1>2, <1>3, CallBegins DEF MechanismSteps

LEMMA CritiqueKeeps ==
    ASSUME MechanismInv, NEW candidate \in OfKind("candidate"), Critique(candidate)
    PROVE  MechanismInv'
<1> DEFINE locals == [Locals EXCEPT !.candidate = candidate]
<1>1. Call("critique", locals) /\ UNCHANGED stored /\ CritiquesOf(candidate) = {}
  BY DEF Critique
<1>2. DOMAIN locals = DOMAIN Locals /\ locals.candidate = candidate /\ locals.then = "done"
  BY FieldsOfCall DEF Locals
<1> HIDE DEF locals
<1> QED BY <1>1, <1>2, CallBegins DEF MechanismSteps

LEMMA SelectMechanismKeeps ==
    ASSUME MechanismInv, NEW candidate \in OfKind("candidate"), SelectMechanism(candidate)
    PROVE  MechanismInv'
<1> DEFINE locals == [Locals EXCEPT !.candidate = candidate, !.then = "select"]
<1>1. /\ Call(IF CritiquesOf(candidate) = {} THEN "critique" ELSE "select", locals)
      /\ UNCHANGED stored /\ MechanismsOf(candidate) = {}
  BY DEF SelectMechanism, FirstStep
<1>2. DOMAIN locals = DOMAIN Locals /\ locals.candidate = candidate /\ locals.then = "select"
  BY FieldsOfCall DEF Locals
<1> HIDE DEF locals
<1>3. CASE CritiquesOf(candidate) = {}
  BY <1>1, <1>2, <1>3, CallBegins DEF MechanismSteps
<1>4. CASE CritiquesOf(candidate) # {}
  BY <1>1, <1>2, <1>4, CallBegins DEF MechanismSteps
<1> QED BY <1>3, <1>4

LEMMA LinkNextKeeps ==
    ASSUME MechanismInv, LinkNext
    PROVE  MechanismInv'
<1>1. /\ at = "link" /\ UNCHANGED stored /\ DOMAIN call = DOMAIN Locals
      /\ call' = [call EXCEPT !.links = Tail(call.links)]
      /\ at' = IF Len(call.links) = 1 THEN call.step ELSE "link"
      /\ call.step \in MechanismSteps
  BY DEF LinkNext, Goto, MechanismInv, MechanismCallSound, Resumes
<1>2. /\ call'.step = call.step /\ DOMAIN call' = DOMAIN Locals
      /\ call'.selection = call.selection /\ call'.candidate = call.candidate
      /\ call'.then = call.then
  BY <1>1, FieldsOfCall
<1>3. Resumes' = Resumes /\ at' # "idle" /\ at # "idle"
  BY <1>1, <1>2 DEF Resumes, MechanismSteps
<1>4. OfKind("selection")' = OfKind("selection") /\ OfKind("candidate")' = OfKind("candidate")
  BY <1>1, QuietKeepsKinds DEF MechanismInv
<1>5. /\ \A s : Generations(s)' = Generations(s)
      /\ \A c : CritiquesOf(c)' = CritiquesOf(c) /\ MechanismsOf(c)' = MechanismsOf(c)
  BY <1>1, QuietKeepsKinds, KindsKeep DEF MechanismInv
<1>6. /\ Generations(call.selection)' = Generations(call.selection)
      /\ CritiquesOf(call.candidate)' = CritiquesOf(call.candidate)
      /\ MechanismsOf(call.candidate)' = MechanismsOf(call.candidate)
      /\ MayGenerate(call.selection)' = MayGenerate(call.selection)
  <2>1. PICK s, c : s = call.selection /\ c = call.candidate
    OBVIOUS
  <2>2. /\ Generations(s)' = Generations(s)
        /\ CritiquesOf(c)' = CritiquesOf(c) /\ MechanismsOf(c)' = MechanismsOf(c)
    BY <1>5
  <2> QED BY <1>1, <1>2, <2>1, <2>2 DEF Generations, CritiquesOf, MechanismsOf, MayGenerate
<1>7. MechanismCallSound'
  <2>1. MechanismCallSound
    BY DEF MechanismInv
  <2>2. (Resumes \in MechanismSteps)' = (Resumes \in MechanismSteps) /\ DOMAIN Locals' = DOMAIN Locals
    BY <1>3 DEF MechanismSteps, Locals
  <2> QED BY <1>1, <1>2, <1>3, <1>4, <1>6, <2>1, <2>2 DEF MechanismCallSound
<1> QED BY <1>1, <1>7, QuietMechanisms

(* What is stored stays as sound as it was, whatever comes after it.        *)
LEMMA OldStays ==
    ASSUME MechanismInv, \A i \in Stored : stored'[i] = stored[i]
    PROVE  /\ \A kind : \A i \in OfKind(kind) : i \in Stored /\ stored'[i] = stored[i]
           /\ \A c \in OfKind("candidate") :
                 /\ stored'[c].selection \in OfKind("selection")
                 /\ stored'[stored'[c].selection].status = "approved"
           /\ \A k \in OfKind("mechanism_critique") : stored'[k].candidate \in OfKind("candidate")
           /\ \A m \in OfKind("mechanism") :
                 /\ stored'[m].candidate \in OfKind("candidate")
                 /\ stored'[m].critiques \subseteq OfKind("mechanism_critique")
                 /\ stored'[stored'[stored'[m].candidate].selection].status = "approved"
                 /\ stored'[m].critiques # {}
                 /\ \A k \in stored'[m].critiques :
                       k < m /\ stored'[k].candidate = stored'[m].candidate
           /\ \A x, y \in OfKind("generation") :
                 /\ stored'[x].selection = stored'[y].selection
                 /\ stored'[x].created # <<>> /\ stored'[y].created # <<>>
                 => x = y
           /\ \A k, l \in OfKind("mechanism_critique") :
                 stored'[k].candidate = stored'[l].candidate => k = l
           /\ \A k, l \in OfKind("mechanism") : stored'[k].candidate = stored'[l].candidate => k = l
<1>1. \A kind : \A i \in OfKind(kind) : i \in Stored /\ stored'[i] = stored[i]
  BY DEF OfKind
<1>2. CandidatesSound /\ MechanismsEarned
  BY DEF MechanismInv
<1>3. \A c \in OfKind("candidate") :
         /\ stored'[c].selection \in OfKind("selection")
         /\ stored'[stored'[c].selection].status = "approved"
  BY <1>1, <1>2 DEF CandidatesSound, MayGenerate
<1>4. \A k \in OfKind("mechanism_critique") : stored'[k].candidate \in OfKind("candidate")
  BY <1>1, <1>2 DEF CandidatesSound
<1>5. ASSUME NEW m \in OfKind("mechanism")
      PROVE  /\ stored'[m].candidate \in OfKind("candidate")
             /\ stored'[m].critiques \subseteq OfKind("mechanism_critique")
             /\ stored'[m].critiques # {}
             /\ \A k \in stored'[m].critiques :
                   k < m /\ stored'[k].candidate = stored'[m].candidate
  <2>1. /\ stored[m].candidate \in OfKind("candidate") /\ stored'[m] = stored[m]
        /\ stored[m].critiques \subseteq OfKind("mechanism_critique")
        /\ stored[m].critiques # {}
        /\ \A k \in stored[m].critiques : k < m /\ stored[k].candidate = stored[m].candidate
    BY <1>1, <1>2 DEF CandidatesSound, MechanismsEarned
  <2>2. \A k \in stored[m].critiques : stored'[k] = stored[k]
    BY <1>1, <2>1
  <2> QED BY <2>1, <2>2
<1>6. \A x, y \in OfKind("generation") :
         /\ stored'[x].selection = stored'[y].selection
         /\ stored'[x].created # <<>> /\ stored'[y].created # <<>>
         => x = y
  BY <1>1, <1>2 DEF MechanismsEarned
<1>7. /\ \A k, l \in OfKind("mechanism_critique") :
            stored'[k].candidate = stored'[l].candidate => k = l
      /\ \A k, l \in OfKind("mechanism") : stored'[k].candidate = stored'[l].candidate => k = l
  BY <1>1, <1>2 DEF MechanismsEarned
<1> QED BY <1>1, <1>3, <1>4, <1>5, <1>6, <1>7

\* The kinds of the others, when one artifact is stored.
OthersStay(kind) ==
    /\ OfKind(kind)' = OfKind(kind) \cup {Latest + 1}
    /\ \A other \in MechanismKinds \ {kind} : OfKind(other)' = OfKind(other)

LEMMA PutMechanismKind ==
    ASSUME MechanismInv, NEW a, Put(a)
    PROVE  /\ StoredSound' /\ Latest \in Nat /\ stored'[Latest + 1] = a
           /\ "kind" \in DOMAIN a => KindsKnown'
           /\ \A i \in Stored : stored'[i] = stored[i] /\ i \in 1 .. Latest
           /\ OthersStay(a.kind)
<1>1. StoredSound
  BY DEF MechanismInv
<1>2. OthersStay(a.kind)
  <2>1. OfKind(a.kind)' = OfKind(a.kind) \cup {Latest + 1}
    BY <1>1, PutOfKind
  <2>2. ASSUME NEW other \in MechanismKinds \ {a.kind}
        PROVE  OfKind(other)' = OfKind(other)
    BY <1>1, PutOfKind
  <2> QED BY <2>1, <2>2 DEF OthersStay
<1>3. /\ StoredSound' /\ Latest \in Nat /\ stored'[Latest + 1] = a
      /\ Stored = 1 .. Latest /\ Stored' = Stored \cup {Latest + 1}
      /\ \A i \in Stored : stored'[i] = stored[i]
  BY <1>1, PutAdds
<1>4. "kind" \in DOMAIN a => KindsKnown'
  BY <1>3 DEF MechanismInv, KindsKnown
<1> QED BY <1>2, <1>3, <1>4

LEMMA PutOtherKeeps ==
    ASSUME MechanismInv, at # "idle", NEW a, NEW links, NEW step, a.kind \notin MechanismKinds,
           "kind" \in DOMAIN a,
           PutWithLinks(a, links, step, call), step \in {"done", "select"},
           step = "select" => at = "critiqued" /\ call.then = "select"
    PROVE  MechanismInv'
<1>1. DOMAIN call = DOMAIN Locals /\ call.then \in {"done", "select"} /\ step # "link"
  BY DEF MechanismInv, MechanismCallSound
<1>2. /\ DOMAIN call' = DOMAIN Locals /\ at' = "link" /\ Resumes' = step /\ Put(a)
      /\ call'.candidate = call.candidate /\ call'.then = call.then
  BY <1>1, PutThenLinks
<1>3. KindsStay
  BY <1>2, OtherKeepsKinds DEF MechanismInv
<1>4. CandidatesSound' /\ MechanismsEarned'
  BY <1>3, KindsKeep
<1>5. OfKind("candidate")' = OfKind("candidate")
  BY <1>3 DEF KindsStay, MechanismKinds
<1>6. /\ CritiquesOf(call.candidate)' = CritiquesOf(call.candidate)
      /\ MechanismsOf(call.candidate)' = MechanismsOf(call.candidate)
  <2>1. PICK c : c = call.candidate
    OBVIOUS
  <2>2. CritiquesOf(c)' = CritiquesOf(c) /\ MechanismsOf(c)' = MechanismsOf(c)
    BY <1>3, KindsKeep
  <2> QED BY <1>2, <2>1, <2>2 DEF CritiquesOf, MechanismsOf
<1>7. step = "select" => /\ Resumes = "critiqued" /\ call.candidate \in OfKind("candidate")
                         /\ CritiquesOf(call.candidate) # {} /\ MechanismsOf(call.candidate) = {}
  BY DEF MechanismInv, MechanismCallSound, Resumes
<1>8. DOMAIN Locals' = DOMAIN Locals /\ step \in MechanismSteps
  BY DEF Locals, MechanismSteps
<1>9. MechanismCallSound'
  BY <1>1, <1>2, <1>5, <1>6, <1>7, <1>8 DEF MechanismCallSound, MechanismSteps
<1>10. KindsKnown'
  BY <1>2, PutMechanismKind
<1> QED BY <1>3, <1>4, <1>9, <1>10 DEF MechanismInv, KindsStay

LEMMA PutSelectedGapKeeps ==
    ASSUME MechanismInv, PutSelectedGap
    PROVE  MechanismInv'
  BY PutOtherKeeps DEF PutSelectedGap, MechanismKinds

LEMMA PutAnalysisKeeps ==
    ASSUME MechanismInv, PutAnalysis
    PROVE  MechanismInv'
  BY PutOtherKeeps DEF PutAnalysis, MechanismKinds

(* Every set of places up to one has a last.                                *)
LEMMA LastPlace ==
    ASSUME NEW n \in Nat, NEW S \in SUBSET (1 .. n), S # {}
    PROVE  Max(S) \in S /\ \A x \in S : x <= Max(S)
<1> DEFINE T == {n - x : x \in S}
<1>1. T \in SUBSET Nat /\ T # {}
  OBVIOUS
<1>2. PICK t \in T : \A y \in T : ~ (<<y, t>> \in OpToRel(<, Nat))
  BY <1>1, WFMin, NatLessThanWellFounded
<1>3. \A y \in T : ~ (y < t) /\ y \in Nat
  BY <1>1, <1>2 DEF OpToRel
<1>4. PICK m \in S : t = n - m
  BY <1>2
<1>5. \A x \in S : x <= m
  <2> TAKE x \in S
  <2>1. n - x \in T
    OBVIOUS
  <2>2. ~ (n - x < n - m)
    BY <1>3, <1>4, <2>1
  <2> QED BY <2>2
<1> QED BY <1>5 DEF Max

(* The analysis in force is one of the selection's.                         *)
LEMMA CurrentIsOne ==
    ASSUME StoredSound, NEW s, CurrentAnalysis(s) # 0
    PROVE  CurrentAnalysis(s) \in Analyses(s) /\ CurrentAnalysis(s) \in Nat
<1> DEFINE leaves == {a \in Analyses(s) : \A l \in prov : l[1] = a => l[3] # "supersedes"}
           S == IF leaves = {} THEN Analyses(s) ELSE leaves
<1>1. S # {} /\ S \subseteq Analyses(s) /\ CurrentAnalysis(s) = Max(S)
  <2>1. Analyses(s) # {} /\ CurrentAnalysis(s) = Max(S)
    BY DEF CurrentAnalysis
  <2>2. leaves \subseteq Analyses(s)
    OBVIOUS
  <2> HIDE DEF leaves
  <2> QED BY <2>1, <2>2
<1>2. Latest \in Nat /\ S \in SUBSET (1 .. Latest)
  <2>1. Len(stored) \in Nat /\ DOMAIN stored = 1 .. Len(stored)
    BY DEF StoredSound
  <2>2. Analyses(s) \subseteq DOMAIN stored
    BY DEF Analyses, OfKind, Stored
  <2>3. S \subseteq DOMAIN stored
    BY <1>1, <2>2
  <2> HIDE DEF S
  <2> QED BY <2>1, <2>3 DEF Latest
<1> HIDE DEF S
<1>3. PICK n \in Nat : S \in SUBSET (1 .. n)
  BY <1>2
<1>4. PICK m \in S : m = Max(S)
  BY <1>1, <1>3, LastPlace
<1>5. m \in 1 .. n
  BY <1>3
<1> QED BY <1>1, <1>4, <1>5

\* The version that an update of the analysis puts.
Version(old, critique, mechanism) ==
    [old EXCEPT !.critiques = @ \cup critique,
                !.mechanism = IF mechanism = 0 THEN @ ELSE mechanism,
                !.status = CASE mechanism # 0 -> "selected"
                             [] mechanism = 0 /\ @ = "generated" -> "critiqued"
                             [] OTHER -> @]

LEMMA UpdateAnalysisKeeps ==
    ASSUME MechanismInv, NEW critique, NEW mechanism, NEW then,
           UpdateAnalysis(critique, mechanism, then),
           \/ at = "critiqued" /\ then = call.then
           \/ at = "selected" /\ then = "done"
    PROVE  MechanismInv'
<1> DEFINE s == stored[call.candidate].selection
           old == stored[CurrentAnalysis(s)]
<1>1. then \in {"done", "select"} /\ then # "link"
  BY DEF MechanismInv, MechanismCallSound
<1>2. CASE CurrentAnalysis(s) = 0
  <2>1. at' = then /\ UNCHANGED <<stored, call>>
    BY <1>2 DEF UpdateAnalysis, Goto
  <2>2. \A kind : OfKind(kind)' = OfKind(kind)
    BY <2>1, QuietKeepsKinds DEF MechanismInv
  <2>3. /\ CritiquesOf(call.candidate)' = CritiquesOf(call.candidate)
        /\ MechanismsOf(call.candidate)' = MechanismsOf(call.candidate)
    BY <2>1, <2>2 DEF CritiquesOf, MechanismsOf
  <2>4. Resumes' = then /\ (then = "select" => Resumes = "critiqued" /\ call.then = "select")
    BY <1>1, <2>1 DEF Resumes
  <2>5. MechanismCallSound'
    BY <1>1, <2>1, <2>2, <2>3, <2>4 DEF MechanismInv, MechanismCallSound, MechanismSteps, Locals, Resumes
  <2> QED BY <2>1, <2>5, QuietMechanisms
<1>3. CASE CurrentAnalysis(s) # 0
  <2>1. PICK a, links : a = Version(old, critique, mechanism)
                        /\ links = <<<<CurrentAnalysis(s), "supersedes">>>>
    OBVIOUS
  <2>2. PutWithLinks(a, links, then, call)
    BY <1>3, <2>1 DEF UpdateAnalysis, Version
  <2>3. CurrentAnalysis(s) \in OfKind("analysis")
    BY <1>3, CurrentIsOne DEF MechanismInv, Analyses
  <2>4. old.kind = "analysis" /\ "kind" \in DOMAIN old
    BY <2>3 DEF OfKind, MechanismInv, KindsKnown
  <2> HIDE DEF old
  <2>5. a.kind = "analysis" /\ "kind" \in DOMAIN a
    BY <2>1, <2>4 DEF Version
  <2>6. at # "idle" /\ (then = "select" => at = "critiqued" /\ call.then = "select")
    OBVIOUS
  <2> QED BY <1>1, <2>2, <2>5, <2>6, PutOtherKeeps DEF MechanismKinds
<1> QED BY <1>2, <1>3

(* What is stored stays sound when the artifact that is added is.           *)
LEMMA AddKeeps ==
    ASSUME MechanismInv, NEW a, Put(a), "kind" \in DOMAIN a,
           a.kind = "selection" => Standing = {},
           a.kind = "generation" /\ a.created # <<>> => Generations(a.selection) = {},
           a.kind = "candidate" => a.selection \in OfKind("selection") /\ MayGenerate(a.selection),
           a.kind = "mechanism_critique" =>
              a.candidate \in OfKind("candidate") /\ CritiquesOf(a.candidate) = {},
           a.kind = "mechanism" =>
              /\ a.candidate \in OfKind("candidate") /\ MechanismsOf(a.candidate) = {}
              /\ a.critiques # {} /\ a.critiques = CritiquesOf(a.candidate)
    PROVE  StoredSound' /\ KindsKnown' /\ CandidatesSound' /\ MechanismsEarned'
<1> PICK n : n = Latest + 1
  OBVIOUS
<1>1. /\ StoredSound' /\ KindsKnown' /\ n \in Nat /\ stored'[n] = a /\ n \notin Stored
      /\ \A i \in Stored : stored'[i] = stored[i] /\ i \in Nat /\ i < n
  <2>1. /\ Latest \in Nat /\ stored'[n] = a
        /\ \A i \in Stored : stored'[i] = stored[i] /\ i \in 1 .. Latest
    BY PutMechanismKind
  <2>2. StoredSound' /\ KindsKnown'
    BY PutMechanismKind
  <2> QED BY <2>1, <2>2
<1>2. \A kind \in MechanismKinds :
         OfKind(kind)' = IF a.kind = kind THEN OfKind(kind) \cup {n} ELSE OfKind(kind)
  BY PutMechanismKind DEF OthersStay
<1>3. /\ OfKind("selection")' = IF a.kind = "selection" THEN OfKind("selection") \cup {n}
                                                        ELSE OfKind("selection")
      /\ OfKind("generation")' = IF a.kind = "generation" THEN OfKind("generation") \cup {n}
                                                          ELSE OfKind("generation")
      /\ OfKind("candidate")' = IF a.kind = "candidate" THEN OfKind("candidate") \cup {n}
                                                        ELSE OfKind("candidate")
      /\ OfKind("mechanism_critique")' =
            IF a.kind = "mechanism_critique" THEN OfKind("mechanism_critique") \cup {n}
                                             ELSE OfKind("mechanism_critique")
      /\ OfKind("mechanism")' = IF a.kind = "mechanism" THEN OfKind("mechanism") \cup {n}
                                                        ELSE OfKind("mechanism")
  BY <1>2 DEF MechanismKinds
<1>4. \A kind : \A i \in OfKind(kind) :
         i \in Stored /\ stored'[i] = stored[i] /\ i \in Nat /\ i < n /\ i # n
  BY <1>1 DEF OfKind
<1>5. a.kind = "candidate" =>
         a.selection \in OfKind("selection") /\ stored'[a.selection].status = "approved"
  BY <1>4 DEF MayGenerate
<1>6. a.kind = "mechanism" =>
         /\ a.candidate \in OfKind("candidate") /\ a.critiques # {}
         /\ a.critiques \subseteq OfKind("mechanism_critique")
         /\ \A k \in a.critiques : k < n /\ stored'[k].candidate = a.candidate
  BY <1>4 DEF CritiquesOf
<1>7. CandidatesSound'
  <2>1. \A c \in OfKind("candidate")' :
           stored'[c].selection \in OfKind("selection")' /\ stored'[stored'[c].selection].status = "approved"
    BY <1>1, <1>3, <1>5, OldStays
  <2>2. \A k \in OfKind("mechanism_critique")' : stored'[k].candidate \in OfKind("candidate")'
    BY <1>1, <1>3, OldStays
  <2>3. \A m \in OfKind("mechanism")' :
           /\ stored'[m].candidate \in OfKind("candidate")'
           /\ stored'[m].critiques \subseteq OfKind("mechanism_critique")'
    BY <1>1, <1>3, <1>6, OldStays
  <2> QED BY <2>1, <2>2, <2>3 DEF CandidatesSound, MayGenerate
<1>8. ASSUME NEW m \in OfKind("mechanism")'
      PROVE  /\ stored'[stored'[stored'[m].candidate].selection].status = "approved"
             /\ stored'[m].critiques # {}
             /\ \A k \in stored'[m].critiques : k < m /\ stored'[k].candidate = stored'[m].candidate
  <2>1. CASE m \in OfKind("mechanism")
    BY <1>1, <2>1, OldStays
  <2>2. CASE m \notin OfKind("mechanism")
    <3>1. m = n /\ a.kind = "mechanism"
      BY <1>3, <2>2
    <3>2. stored'[stored'[a.candidate].selection].status = "approved"
      BY <1>1, <1>6, <3>1, OldStays
    <3> QED BY <1>1, <1>6, <3>1, <3>2
  <2> QED BY <2>1, <2>2
<1>9. \A s, t \in Standing' : s = t
  <2>1. \A s \in Standing' : s \in Standing \/ (s = n /\ a.kind = "selection")
    BY <1>3, <1>4 DEF Standing
  <2>2. \A s, t \in Standing : s = t
    BY DEF MechanismInv, MechanismsEarned
  <2> QED BY <2>1, <2>2
<1>10. /\ \A k, l \in OfKind("mechanism_critique")' : stored'[k].candidate = stored'[l].candidate => k = l
       /\ \A k, l \in OfKind("mechanism")' : stored'[k].candidate = stored'[l].candidate => k = l
  <2>1. a.kind = "mechanism_critique" =>
           \A k \in OfKind("mechanism_critique") : stored'[k].candidate # a.candidate
    BY <1>4 DEF CritiquesOf
  <2>2. a.kind = "mechanism" => \A k \in OfKind("mechanism") : stored'[k].candidate # a.candidate
    BY <1>4 DEF MechanismsOf
  <2>3. /\ \A k, l \in OfKind("mechanism_critique") : stored'[k].candidate = stored'[l].candidate => k = l
        /\ \A k, l \in OfKind("mechanism") : stored'[k].candidate = stored'[l].candidate => k = l
    BY <1>1, OldStays
  <2> QED BY <1>1, <1>3, <2>1, <2>2, <2>3
<1>11. \A x, y \in OfKind("generation")' :
          /\ stored'[x].selection = stored'[y].selection
          /\ stored'[x].created # <<>> /\ stored'[y].created # <<>>
          => x = y
  <2>1. a.kind = "generation" /\ a.created # <<>> =>
           \A x \in OfKind("generation") :
              stored'[x].created # <<>> => stored'[x].selection # a.selection
    BY <1>4 DEF Generations
  <2>2. \A x, y \in OfKind("generation") :
           /\ stored'[x].selection = stored'[y].selection
           /\ stored'[x].created # <<>> /\ stored'[y].created # <<>>
           => x = y
    BY <1>1, OldStays
  <2> QED BY <1>1, <1>3, <2>1, <2>2
<1> QED BY <1>1, <1>7, <1>8, <1>9, <1>10, <1>11 DEF MechanismsEarned

LEMMA SelectGapKeeps ==
    ASSUME MechanismInv, NEW named, NEW approved, SelectGap(named, approved)
    PROVE  MechanismInv'
<1>1. PICK a : a = [kind |-> "selection", gap |-> Chosen(named),
                    status |-> IF approved THEN "approved" ELSE "rejected"]
  OBVIOUS
<1>2. Put(a) /\ a.kind = "selection" /\ "kind" \in DOMAIN a /\ Standing = {}
  BY <1>1 DEF SelectGap
<1>3. StoredSound' /\ KindsKnown' /\ CandidatesSound' /\ MechanismsEarned'
  BY <1>2, AddKeeps
<1>4. at' = "link" /\ DOMAIN call' = DOMAIN Locals /\ call'.step = "gap" /\ call'.then = "done"
  BY FieldsOfCall DEF SelectGap, Locals
<1>5. MechanismCallSound'
  BY <1>4 DEF MechanismCallSound, Resumes, MechanismSteps, Locals
<1> QED BY <1>3, <1>5 DEF MechanismInv

LEMMA GenerationFailsKeeps ==
    ASSUME MechanismInv, NEW selection, GenerationFails(selection)
    PROVE  MechanismInv'
<1>1. PICK a : a = [kind |-> "generation", selection |-> selection, created |-> <<>>, rejected |-> 0]
  OBVIOUS
<1>2. Put(a) /\ a.kind = "generation" /\ a.created = <<>> /\ "kind" \in DOMAIN a
  BY <1>1 DEF GenerationFails
<1>3. StoredSound' /\ KindsKnown' /\ CandidatesSound' /\ MechanismsEarned'
  BY <1>2, AddKeeps
<1>4. at' = "idle"
  BY DEF GenerationFails
<1> QED BY <1>3, <1>4 DEF MechanismInv, MechanismCallSound

LEMMA PutCandidateKeeps ==
    ASSUME MechanismInv, PutCandidate
    PROVE  MechanismInv'
<1>1. /\ at = "generate" /\ DOMAIN call = DOMAIN Locals /\ call.then \in {"done", "select"}
      /\ call.selection \in OfKind("selection") /\ MayGenerate(call.selection)
      /\ Generations(call.selection) = {}
  BY DEF PutCandidate, MechanismInv, MechanismCallSound, Resumes
<1>2. CASE Head(call.todo)
  <2>1. PICK a, links, locals :
           /\ a = [kind |-> "candidate", selection |-> call.selection]
           /\ links = From(<<stored[call.selection].gap>>)
           /\ locals = [call EXCEPT !.todo = Tail(@), !.made = Append(@, Len(stored) + 1)]
    OBVIOUS
  <2>2. PutWithLinks(a, links, "generate", locals)
    BY <1>2, <2>1 DEF PutCandidate
  <2>3. /\ DOMAIN locals = DOMAIN Locals /\ locals.selection = call.selection
        /\ locals.then = call.then
    BY <1>1, <2>1, FieldsOfCall
  <2>4. /\ DOMAIN call' = DOMAIN Locals /\ at' = "link" /\ Resumes' = "generate" /\ Put(a)
        /\ call'.selection = call.selection /\ call'.then = call.then
    BY <2>2, <2>3, PutThenLinks
  <2>5. a.kind = "candidate" /\ a.selection = call.selection /\ "kind" \in DOMAIN a
    BY <2>1
  <2>6. StoredSound' /\ KindsKnown' /\ CandidatesSound' /\ MechanismsEarned'
    BY <1>1, <2>4, <2>5, AddKeeps
  <2>7. /\ OthersStay("candidate") /\ \A i \in Stored : stored'[i] = stored[i]
    BY <2>4, <2>5, PutMechanismKind
  <2>8. /\ OfKind("selection")' = OfKind("selection")
        /\ OfKind("generation")' = OfKind("generation")
        /\ \A kind : \A i \in OfKind(kind) : stored'[i] = stored[i]
    BY <2>7 DEF OthersStay, MechanismKinds, OfKind
  <2>9. MayGenerate(call.selection)' /\ Generations(call.selection)' = {}
    BY <1>1, <2>4, <2>8 DEF MayGenerate, Generations
  <2>10. MechanismCallSound'
    BY <1>1, <2>4, <2>8, <2>9 DEF MechanismCallSound, MechanismSteps, Locals
  <2> QED BY <2>6, <2>10 DEF MechanismInv
<1>3. CASE ~ Head(call.todo)
  <2>1. /\ call' = [call EXCEPT !.todo = Tail(call.todo), !.rejected = call.rejected + 1]
        /\ at' = "generate" /\ UNCHANGED stored
    BY <1>3 DEF PutCandidate, Goto
  <2>2. /\ DOMAIN call' = DOMAIN Locals /\ call'.selection = call.selection
        /\ call'.then = call.then
    BY <1>1, <2>1, FieldsOfCall
  <2>3. \A kind : OfKind(kind)' = OfKind(kind)
    BY <2>1, QuietKeepsKinds DEF MechanismInv
  <2>4. MayGenerate(call.selection)' /\ Generations(call.selection)' = {}
    BY <1>1, <2>1, <2>2, <2>3 DEF MayGenerate, Generations
  <2>5. MechanismCallSound'
    BY <1>1, <2>1, <2>2, <2>3, <2>4 DEF MechanismCallSound, Resumes, MechanismSteps, Locals
  <2> QED BY <2>1, <2>5, QuietMechanisms
<1> QED BY <1>2, <1>3

LEMMA PutGenerationKeeps ==
    ASSUME MechanismInv, PutExecution
    PROVE  MechanismInv'
<1>1. /\ at = "generate" /\ DOMAIN call = DOMAIN Locals /\ call.then \in {"done", "select"}
      /\ call.selection \in OfKind("selection") /\ MayGenerate(call.selection)
      /\ Generations(call.selection) = {}
  BY DEF PutExecution, MechanismInv, MechanismCallSound, Resumes
<1>2. PICK a : a = [kind |-> "generation", selection |-> call.selection, created |-> call.made,
                    rejected |-> call.rejected]
  OBVIOUS
<1>3. Put(a) /\ a.kind = "generation" /\ a.selection = call.selection /\ "kind" \in DOMAIN a
  BY <1>2 DEF PutExecution
<1>4. StoredSound' /\ KindsKnown' /\ CandidatesSound' /\ MechanismsEarned'
  BY <1>1, <1>3, AddKeeps
<1>5. at' = "analysis" /\ call' = [call EXCEPT !.new = Len(stored) + 1]
  BY DEF PutExecution, Goto
<1>6. /\ DOMAIN call' = DOMAIN Locals /\ call'.selection = call.selection /\ call'.then = call.then
  BY <1>1, <1>5, FieldsOfCall
<1>7. OthersStay("generation") /\ \A i \in Stored : stored'[i] = stored[i]
  BY <1>3, PutMechanismKind
<1>8. OfKind("selection")' = OfKind("selection") /\ stored'[call.selection] = stored[call.selection]
  BY <1>1, <1>7 DEF OthersStay, MechanismKinds, OfKind
<1>9. MechanismCallSound'
  BY <1>1, <1>5, <1>6, <1>8 DEF MechanismCallSound, MechanismSteps, Locals, Resumes, MayGenerate
<1> QED BY <1>4, <1>9 DEF MechanismInv

LEMMA PutCritiqueKeeps ==
    ASSUME MechanismInv, PutCritique
    PROVE  MechanismInv'
<1>1. /\ at = "critique" /\ DOMAIN call = DOMAIN Locals /\ call.then \in {"done", "select"}
      /\ call.candidate \in OfKind("candidate") /\ CritiquesOf(call.candidate) = {}
      /\ call.then = "select" => MechanismsOf(call.candidate) = {}
  BY DEF PutCritique, MechanismInv, MechanismCallSound, Resumes
<1>2. PICK a, links, locals :
         /\ a = [kind |-> "mechanism_critique", candidate |-> call.candidate]
         /\ links = From(<<call.candidate>>) /\ locals = [call EXCEPT !.new = Len(stored) + 1]
  OBVIOUS
<1>3. PutWithLinks(a, links, "critiqued", locals)
  BY <1>2 DEF PutCritique
<1>4. /\ DOMAIN locals = DOMAIN Locals /\ locals.candidate = call.candidate
      /\ locals.then = call.then
  BY <1>1, <1>2, FieldsOfCall
<1>5. /\ DOMAIN call' = DOMAIN Locals /\ at' = "link" /\ Resumes' = "critiqued" /\ Put(a)
      /\ call'.candidate = call.candidate /\ call'.then = call.then
  BY <1>3, <1>4, PutThenLinks
<1>6. a.kind = "mechanism_critique" /\ a.candidate = call.candidate /\ "kind" \in DOMAIN a
  BY <1>2
<1>7. StoredSound' /\ KindsKnown' /\ CandidatesSound' /\ MechanismsEarned'
  BY <1>1, <1>5, <1>6, AddKeeps
<1>8. /\ OthersStay("mechanism_critique") /\ \A i \in Stored : stored'[i] = stored[i]
      /\ stored'[Latest + 1] = a
  BY <1>5, <1>6, PutMechanismKind
<1>9. /\ OfKind("candidate")' = OfKind("candidate")
      /\ OfKind("mechanism")' = OfKind("mechanism")
      /\ Latest + 1 \in OfKind("mechanism_critique")'
      /\ \A i \in OfKind("mechanism") : stored'[i] = stored[i]
  BY <1>8 DEF OthersStay, MechanismKinds, OfKind
<1>10. /\ CritiquesOf(call.candidate)' # {}
       /\ call.then = "select" => MechanismsOf(call.candidate)' = {}
  BY <1>1, <1>5, <1>6, <1>8, <1>9 DEF CritiquesOf, MechanismsOf
<1>11. MechanismCallSound'
  BY <1>1, <1>5, <1>9, <1>10 DEF MechanismCallSound, MechanismSteps, Locals
<1> QED BY <1>7, <1>11 DEF MechanismInv

LEMMA PutMechanismKeeps ==
    ASSUME MechanismInv, PutMechanism
    PROVE  MechanismInv'
<1>1. /\ at = "select" /\ DOMAIN call = DOMAIN Locals /\ call.then \in {"done", "select"}
      /\ call.candidate \in OfKind("candidate") /\ CritiquesOf(call.candidate) # {}
      /\ MechanismsOf(call.candidate) = {}
  BY DEF PutMechanism, MechanismInv, MechanismCallSound, Resumes
<1>2. PICK a, links, locals :
         /\ a = [kind |-> "mechanism", candidate |-> call.candidate,
                 critiques |-> CritiquesOf(call.candidate)]
         /\ links = From(<<call.candidate>> \o SetToSeq(CritiquesOf(call.candidate)))
         /\ locals = [call EXCEPT !.new = Len(stored) + 1]
  OBVIOUS
<1>3. PutWithLinks(a, links, "selected", locals)
  BY <1>2 DEF PutMechanism
<1>4. /\ DOMAIN locals = DOMAIN Locals /\ locals.candidate = call.candidate
      /\ locals.then = call.then
  BY <1>1, <1>2, FieldsOfCall
<1>5. /\ DOMAIN call' = DOMAIN Locals /\ at' = "link" /\ Resumes' = "selected" /\ Put(a)
      /\ call'.candidate = call.candidate /\ call'.then = call.then
  BY <1>3, <1>4, PutThenLinks
<1>6. /\ a.kind = "mechanism" /\ a.candidate = call.candidate /\ "kind" \in DOMAIN a
      /\ a.critiques = CritiquesOf(call.candidate)
  BY <1>2
<1>7. StoredSound' /\ KindsKnown' /\ CandidatesSound' /\ MechanismsEarned'
  BY <1>1, <1>5, <1>6, AddKeeps
<1>8. OthersStay("mechanism")
  BY <1>5, <1>6, PutMechanismKind
<1>9. OfKind("candidate")' = OfKind("candidate")
  BY <1>8 DEF OthersStay, MechanismKinds
<1>10. MechanismCallSound'
  BY <1>1, <1>5, <1>9 DEF MechanismCallSound, MechanismSteps, Locals
<1> QED BY <1>7, <1>10 DEF MechanismInv

(* Every step keeps the invariant.                                          *)
LEMMA MechanismInductive ==
    ASSUME MechanismInv, [MechanismNext]_researchVars
    PROVE  MechanismInv'
<1>1. CASE UNCHANGED researchVars
  <2>1. /\ UNCHANGED <<stored, at, call>>
    BY <1>1 DEF researchVars
  <2>2. \A kind : OfKind(kind)' = OfKind(kind)
    BY <2>1, QuietKeepsKinds DEF MechanismInv
  <2>3. MechanismCallSound'
    BY <2>1, <2>2 DEF MechanismInv, MechanismCallSound, Resumes, MayGenerate, Generations,
       CritiquesOf, MechanismsOf, MechanismSteps, Locals
  <2> QED BY <2>1, <2>3, QuietMechanisms
<1>2. CASE MechanismNext
  <2>1. CASE \E named \in ToSet(Gaps) \cup {0}, approved \in BOOLEAN : SelectGap(named, approved)
    BY <2>1, SelectGapKeeps
  <2>2. ASSUME NothingNew PROVE MechanismInv'
    BY <2>2, IdleMechanisms DEF NothingNew
  <2>3. CASE PutSelectedGap
    BY <2>3, PutSelectedGapKeeps
  <2>4. ASSUME NEW s \in OfKind("selection"), NEW proposals \in Proposals, Generate(s, proposals)
        PROVE  MechanismInv'
    BY <2>4, GenerateKeeps
  <2>5. ASSUME NEW s \in OfKind("selection"), GenerationFails(s)
        PROVE  MechanismInv'
    BY <2>5, GenerationFailsKeeps
  <2>6. CASE PutCandidate \/ PutExecution \/ PutAnalysis
    BY <2>6, PutCandidateKeeps, PutGenerationKeeps, PutAnalysisKeeps
  <2>7. ASSUME NEW c \in OfKind("candidate"), Critique(c) \/ SelectMechanism(c)
        PROVE  MechanismInv'
    BY <2>7, CritiqueKeeps, SelectMechanismKeeps
  <2>8. CASE CritiqueFails \/ Done \/ Die
    BY <2>8, IdleMechanisms DEF CritiqueFails, Done, Die, Return
  <2>9. CASE PutCritique \/ PutMechanism \/ LinkNext
    BY <2>9, PutCritiqueKeeps, PutMechanismKeeps, LinkNextKeeps
  <2>10. CASE AnalysisCritiqued
    BY <2>10, UpdateAnalysisKeeps DEF AnalysisCritiqued
  <2>11. CASE AnalysisSelected
    BY <2>11, UpdateAnalysisKeeps DEF AnalysisSelected
  <2> QED BY <1>2, <2>1, <2>2, <2>3, <2>4, <2>5, <2>6, <2>7, <2>8, <2>9, <2>10, <2>11
       DEF MechanismNext, SelectGapAgain, GenerateAgainOrRefused, CritiqueAgain, SelectMechanismAgain
<1> QED BY <1>1, <1>2

(* Whatever the gaps, what the model proposes and approves, the deaths and  *)
(* the calls again: a mechanism was developed for an approved gap and       *)
(* criticised, itself, before it was selected.                              *)
THEOREM MechanismsCorrect == MechanismSpec => []MechanismsEarned
<1>1. NothingStored => MechanismInv
  BY NothingIsStored DEF NothingStored, MechanismInv, MechanismCallSound, CandidatesSound,
     MechanismsEarned, KindsKnown, Stored, Standing
<1>2. MechanismInv /\ [MechanismNext]_researchVars => MechanismInv'
  BY MechanismInductive
<1>3. MechanismInv => MechanismsEarned
  BY DEF MechanismInv
<1> QED BY <1>1, <1>2, <1>3, PTL DEF MechanismSpec

\* The analysis a was superseded by a newer one of its selection; a gap was not stored here.
SupersededLater(a) ==
    \/ a \in Int /\ a < 0
    \/ a \in OfKind("analysis") /\ \E b \in Analyses(stored[a].selection) : b > a

SupersedingSound == \A link \in prov : link[3] = "supersedes" => SupersededLater(link[1])

LinksLeftSound ==
    at = "link" =>
       /\ call.links \in Seq(ToSet(call.links)) /\ call.links # <<>>
       /\ \A link \in ToSet(call.links) : link[2] = "supersedes" => SupersededLater(link[1])

CandidatesFor(selection) == {c \in OfKind("candidate") : stored[c].selection = selection}

\* An analysis is about candidates of its selection, which no newer one leaves out.
VersionSound(a) ==
    /\ stored[a] \in [kind : {"analysis"}, selection : OfKind("selection"),
                      candidates : SUBSET OfKind("candidate"),
                      critiques : SUBSET OfKind("mechanism_critique"),
                      mechanism : {0} \cup OfKind("mechanism"),
                      status : {"generated", "critiqued", "selected"}]
    /\ stored[a].candidates \subseteq CandidatesFor(stored[a].selection)
    /\ stored[a].candidates # {} => Generations(stored[a].selection) # {}
    /\ \A b \in Analyses(stored[a].selection) :
          a <= b => stored[a].candidates \subseteq stored[b].candidates

VersionsSound == \A a \in OfKind("analysis") : VersionSound(a)

\* What a call is about to make an analysis of, or to enter into one.
UnderWaySound ==
    /\ Resumes = "gap" => call.gap \in Int /\ call.gap < 0
    /\ Resumes \in {"generate", "analysis"} =>
          /\ call.made \in Seq(CandidatesFor(call.selection))
          /\ \A a \in Analyses(call.selection) : stored[a].candidates = {}
    /\ Resumes = "analysis" /\ call.made # <<>> => Generations(call.selection) # {}
    /\ Resumes = "critiqued" => call.new \in CritiquesOf(call.candidate)
    /\ Resumes = "selected" =>
          /\ call.new \in MechanismsOf(call.candidate)
          /\ \A m \in OfKind("mechanism") : m <= call.new
          /\ \A a \in OfKind("analysis") : stored[a].mechanism < call.new

Making(c) == Resumes \in {"generate", "analysis"} /\ c \in ToSet(call.made)
Pending(k) == Resumes \in {"critiqued", "selected"} /\ call.new = k

Newest(a) == \A b \in Analyses(stored[a].selection) : b <= a

\* The newest analysis knows what is stored of its candidates, but for what is pending.
KnowsAll(a) ==
    /\ stored[a].critiques = {k \in OfKind("mechanism_critique") :
                                 stored[k].candidate \in stored[a].candidates /\ ~ Pending(k)}
    /\ \A m \in OfKind("mechanism") :
          stored[m].candidate \in stored[a].candidates /\ ~ Pending(m) => m <= stored[a].mechanism
    /\ stored[a].mechanism # 0 => stored[stored[a].mechanism].candidate \in stored[a].candidates

\* Without a death, every candidate that is not being made is in an analysis.
CompleteSound ==
    deaths = 0 =>
       /\ \A c \in OfKind("candidate") :
             Making(c) \/ \E a \in Analyses(stored[c].selection) : c \in stored[a].candidates
       /\ \A k \in OfKind("mechanism_critique") \cup OfKind("mechanism") :
             \E a \in OfKind("analysis") : stored[k].candidate \in stored[a].candidates
       /\ \A a \in OfKind("analysis") : Newest(a) => KnowsAll(a)

AnalysisInv ==
    /\ MechanismInv /\ deaths \in Nat
    /\ SupersedingSound /\ LinksLeftSound /\ VersionsSound /\ UnderWaySound /\ CompleteSound


(* The analysis in force is the newest of its selection.                    *)
LEMMA CurrentIsNewest ==
    ASSUME StoredSound, SupersedingSound, NEW s, Analyses(s) # {}
    PROVE  /\ CurrentAnalysis(s) \in Analyses(s) /\ CurrentAnalysis(s) \in Nat \ {0}
           /\ \A b \in Analyses(s) : b <= CurrentAnalysis(s)
<1> DEFINE leaves == {a \in Analyses(s) : \A l \in prov : l[1] = a => l[3] # "supersedes"}
<1>1. PICK n \in Nat : Analyses(s) \in SUBSET (1 .. n)
  <2>1. Len(stored) \in Nat /\ DOMAIN stored = 1 .. Len(stored)
    BY DEF StoredSound
  <2> QED BY <2>1 DEF Analyses, OfKind, Stored
<1>2. PICK m \in Analyses(s) : \A b \in Analyses(s) : b <= m
  <2>1. PICK T \in SUBSET (1 .. n) : T = Analyses(s)
    BY <1>1
  <2>2. PICK m \in T : m = Max(T) /\ \A b \in T : b <= m
    BY <2>1, LastPlace
  <2> QED BY <2>1, <2>2
<1>3. m \in leaves
  <2>1. ASSUME NEW l \in prov, l[1] = m, l[3] = "supersedes" PROVE FALSE
    <3>1. SupersededLater(m)
      BY <2>1 DEF SupersedingSound
    <3>2. m \in Nat /\ stored[m].selection = s
      BY <1>1 DEF Analyses
    <3>3. PICK b \in Analyses(s) : b > m
      BY <3>1, <3>2 DEF SupersededLater
    <3>4. b <= m /\ b \in Nat
      BY <1>1, <1>2
    <3> QED BY <3>2, <3>3, <3>4
  <2> QED BY <2>1
<1>4. CurrentAnalysis(s) = Max(leaves)
  BY <1>3 DEF CurrentAnalysis
<1>5. leaves \in SUBSET (1 .. n) /\ leaves # {} /\ leaves \subseteq Analyses(s)
  BY <1>1, <1>3
<1> HIDE DEF leaves
<1>6. PICK x \in leaves : x = Max(leaves) /\ \A b \in leaves : b <= x
  BY <1>5, LastPlace
<1>7. x = m
  <2>1. m <= x /\ x <= m /\ m \in Nat /\ x \in Nat
    BY <1>1, <1>2, <1>3, <1>5, <1>6
  <2> QED BY <2>1
<1> QED BY <1>1, <1>2, <1>4, <1>6, <1>7

\* What is stored stays.
Grows ==
    /\ StoredSound' /\ Latest \in Nat /\ Stored = 1 .. Latest
    /\ \A i \in Stored : i \in Stored' /\ stored'[i] = stored[i]
    /\ \A kind : OfKind(kind) \subseteq OfKind(kind)'

LEMMA QuietGrows ==
    ASSUME StoredSound, UNCHANGED stored
    PROVE  Grows /\ \A kind : OfKind(kind)' = OfKind(kind)
<1>1. Latest \in Nat /\ Stored = 1 .. Latest
  BY DEF StoredSound, Latest, Stored
<1>2. Stored' = Stored /\ StoredSound'
  BY DEF Stored, StoredSound, ToSet
<1> QED BY <1>1, <1>2, QuietKeepsKinds DEF Grows

LEMMA PutGrows ==
    ASSUME StoredSound, NEW a, Put(a)
    PROVE  /\ Grows /\ stored'[Latest + 1] = a /\ Latest + 1 \notin Stored
           /\ \A kind : OfKind(kind)' = IF a.kind = kind THEN OfKind(kind) \cup {Latest + 1}
                                                         ELSE OfKind(kind)
<1>1. /\ StoredSound' /\ Latest \in Nat /\ Stored = 1 .. Latest
      /\ Stored' = Stored \cup {Latest + 1} /\ Latest + 1 \notin Stored
      /\ \A i \in Stored : stored'[i] = stored[i]
      /\ stored'[Latest + 1] = a
  BY PutAdds
<1>2. \A kind : OfKind(kind)' = IF a.kind = kind THEN OfKind(kind) \cup {Latest + 1}
                                                 ELSE OfKind(kind)
  BY PutOfKind
<1> QED BY <1>1, <1>2 DEF Grows

(* Versions stay sound when no analysis is added.                           *)
LEMMA VersionsStay ==
    ASSUME AnalysisInv, Grows, OfKind("analysis")' = OfKind("analysis")
    PROVE  /\ \A s : Analyses(s)' = Analyses(s)
           /\ \A x : SupersededLater(x) => SupersededLater(x)'
           /\ VersionsSound'
           /\ prov' = prov => SupersedingSound'
<1>1. \A kind : \A i \in OfKind(kind) : i \in OfKind(kind)' /\ stored'[i] = stored[i] /\ i \in Stored
  BY DEF Grows, OfKind
<1>2. \A s : Analyses(s)' = Analyses(s)
  BY <1>1 DEF Analyses
<1>3. ASSUME NEW x, SupersededLater(x) PROVE SupersededLater(x)'
  BY <1>1, <1>2, <1>3 DEF SupersededLater
<1>4. ASSUME NEW a \in OfKind("analysis") PROVE VersionSound(a)'
  <2>1. VersionSound(a) /\ stored'[a] = stored[a]
    BY <1>1 DEF AnalysisInv, VersionsSound
  <2>2. \A s : CandidatesFor(s) \subseteq CandidatesFor(s)' /\ Generations(s) \subseteq Generations(s)'
    BY <1>1 DEF CandidatesFor, Generations
  <2>3. \A b \in Analyses(stored[a].selection) : stored'[b] = stored[b]
    BY <1>1 DEF Analyses
  <2>4. /\ OfKind("selection") \subseteq OfKind("selection")'
        /\ OfKind("candidate") \subseteq OfKind("candidate")'
        /\ OfKind("mechanism_critique") \subseteq OfKind("mechanism_critique")'
        /\ OfKind("mechanism") \subseteq OfKind("mechanism")'
    BY DEF Grows
  <2>5. stored'[a] \in [kind : {"analysis"}, selection : OfKind("selection")',
                      candidates : SUBSET OfKind("candidate")',
                      critiques : SUBSET OfKind("mechanism_critique")',
                      mechanism : {0} \cup OfKind("mechanism")',
                      status : {"generated", "critiqued", "selected"}]
    BY <2>1, <2>4 DEF VersionSound
  <2>6. /\ stored'[a].candidates \subseteq CandidatesFor(stored[a].selection)'
        /\ stored'[a].candidates # {} => Generations(stored[a].selection)' # {}
    <3>1. PICK s : s = stored[a].selection
      OBVIOUS
    <3>2. /\ stored[a].candidates \subseteq CandidatesFor(s)
          /\ stored[a].candidates # {} => Generations(s) # {}
      BY <2>1, <3>1 DEF VersionSound
    <3>3. CandidatesFor(s) \subseteq CandidatesFor(s)' /\ Generations(s) \subseteq Generations(s)'
      BY <2>2
    <3> QED BY <2>1, <3>1, <3>2, <3>3 DEF CandidatesFor, Generations
  <2>7. \A b \in Analyses(stored[a].selection)' :
          a <= b => stored'[a].candidates \subseteq stored'[b].candidates
    <3>1. PICK s : s = stored[a].selection
      OBVIOUS
    <3>2. \A b \in Analyses(s) : a <= b => stored[a].candidates \subseteq stored[b].candidates
      BY <2>1, <3>1 DEF VersionSound
    <3>3. Analyses(s)' = Analyses(s)
      BY <1>2
    <3> QED BY <2>1, <2>3, <3>1, <3>2, <3>3 DEF Analyses
  <2> QED BY <2>5, <2>6, <2>7 DEF VersionSound
<1>5. VersionsSound'
  BY <1>4 DEF VersionsSound
<1>6. prov' = prov => SupersedingSound'
  BY <1>3 DEF AnalysisInv, SupersedingSound
<1> QED BY <1>2, <1>3, <1>5, <1>6

\* What the newest analysis is to know stays, and so does what is pending.
KnownStays ==
    /\ \A kind \in {"mechanism_critique", "mechanism", "analysis"} : OfKind(kind)' = OfKind(kind)
    /\ \A c \in OfKind("candidate")' : Making(c)' \/ (c \in OfKind("candidate") /\ ~ Making(c))
    /\ \A k \in OfKind("mechanism_critique") \cup OfKind("mechanism") : Pending(k)' = Pending(k)
    /\ deaths' = 0 => deaths = 0

LEMMA KnownKeeps ==
    ASSUME AnalysisInv, Grows, KnownStays
    PROVE  CompleteSound'
<1>1. /\ OfKind("mechanism_critique")' = OfKind("mechanism_critique")
      /\ OfKind("mechanism")' = OfKind("mechanism")
      /\ OfKind("analysis")' = OfKind("analysis")
  BY DEF KnownStays
<1>2. \A kind : \A i \in OfKind(kind) : stored'[i] = stored[i]
  BY DEF Grows, OfKind
<1>3. \A s : Analyses(s)' = Analyses(s)
  BY <1>1, <1>2 DEF Analyses
<1> SUFFICES ASSUME deaths = 0, CompleteSound
             PROVE  CompleteSound'
  BY DEF AnalysisInv, KnownStays, CompleteSound
<1>4. \A c \in OfKind("candidate")' :
         Making(c)' \/ (/\ c \in OfKind("candidate")
                       /\ \E a \in Analyses(stored[c].selection) : c \in stored[a].candidates)
  BY DEF CompleteSound, KnownStays
<1>5. \A s : \A a \in Analyses(s) : stored'[a] = stored[a] /\ a \in OfKind("analysis")
  BY <1>2 DEF Analyses
<1>6. \A c \in OfKind("candidate")' :
         Making(c)' \/ \E a \in Analyses(stored[c].selection)' : c \in stored'[a].candidates
  <2> SUFFICES ASSUME NEW c \in OfKind("candidate"), ~ Making(c)',
                      \E a \in Analyses(stored[c].selection) : c \in stored[a].candidates
               PROVE  \E a \in Analyses(stored[c].selection)' : c \in stored'[a].candidates
    BY <1>4
  <2>1. PICK s : s = stored[c].selection
    OBVIOUS
  <2>2. \E a \in Analyses(s) : c \in stored'[a].candidates
    BY <1>5, <2>1
  <2>3. Analyses(s)' = Analyses(s) /\ stored'[c].selection = s
    BY <1>2, <1>3, <2>1
  <2> QED BY <2>2, <2>3 DEF Analyses
<1>7. \A k \in OfKind("mechanism_critique") \cup OfKind("mechanism") :
         \E a \in OfKind("analysis") : stored'[k].candidate \in stored'[a].candidates
  BY <1>2 DEF CompleteSound
<1>8. ASSUME NEW a \in OfKind("analysis"), Newest(a)'
      PROVE  KnowsAll(a)'
  <2>1. Newest(a)
    <3>1. PICK s : s = stored[a].selection
      OBVIOUS
    <3>2. Analyses(s)' = Analyses(s) /\ stored'[a].selection = s
      BY <1>2, <1>3, <3>1
    <3> QED BY <1>8, <3>1, <3>2 DEF Newest, Analyses
  <2>2. KnowsAll(a)
    BY <2>1 DEF CompleteSound
  <2>3. stored'[a] = stored[a]
    BY <1>2
  <2>4. \A k \in OfKind("mechanism_critique") \cup OfKind("mechanism") :
           stored'[k] = stored[k] /\ Pending(k)' = Pending(k)
    BY <1>2 DEF KnownStays
  <2>5. stored'[a].critiques =
           {k \in OfKind("mechanism_critique") :
               stored'[k].candidate \in stored'[a].candidates /\ ~ Pending(k)'}
    BY <2>2, <2>3, <2>4 DEF KnowsAll
  <2>6. \A m \in OfKind("mechanism") :
           stored'[m].candidate \in stored'[a].candidates /\ ~ Pending(m)' => m <= stored'[a].mechanism
    BY <2>2, <2>3, <2>4 DEF KnowsAll
  <2>7. stored'[a].mechanism # 0 =>
           stored'[stored'[a].mechanism].candidate \in stored'[a].candidates
    <3>1. stored[a].mechanism # 0 => stored[a].mechanism \in OfKind("mechanism")
      BY DEF AnalysisInv, VersionsSound, VersionSound
    <3> QED BY <2>2, <2>3, <2>4, <3>1 DEF KnowsAll
  <2> QED BY <1>1, <2>5, <2>6, <2>7 DEF KnowsAll
<1> QED BY <1>1, <1>6, <1>7, <1>8 DEF CompleteSound

(* Of what a put derives an artifact from, nothing is superseded.           *)
LEMMA FromDerives ==
    ASSUME NEW S, NEW ids \in Seq(S), ids # <<>>
    PROVE  /\ From(ids) \in Seq(ToSet(From(ids))) /\ From(ids) # <<>>
           /\ \A link \in ToSet(From(ids)) : link[2] = "derived_from"
<1>1. Len(ids) \in Nat \ {0} /\ DOMAIN ids = 1 .. Len(ids)
  OBVIOUS
<1>2. From(ids) = [k \in 1 .. Len(ids) |-> <<ids[k], "derived_from">>]
  BY <1>1 DEF From
<1>3. PICK n \in Nat \ {0} : n = Len(ids)
  BY <1>1
<1>4. DOMAIN From(ids) = 1 .. n /\ \A k \in 1 .. n : From(ids)[k] = <<ids[k], "derived_from">>
  BY <1>2, <1>3
<1>5. \A k \in 1 .. n : From(ids)[k] \in ToSet(From(ids))
  BY <1>4 DEF ToSet
<1>6. From(ids) = [k \in 1 .. n |-> From(ids)[k]]
  BY <1>2, <1>3, <1>4
<1>7. From(ids) \in Seq(ToSet(From(ids)))
  <2>1. PICK f, T : f = From(ids) /\ T = ToSet(From(ids))
    OBVIOUS
  <2>2. f = [k \in 1 .. n |-> f[k]] /\ \A k \in 1 .. n : f[k] \in T
    BY <1>5, <1>6, <2>1
  <2>3. f \in [1 .. n -> T]
    BY <2>2
  <2> QED BY <2>1, <2>3
<1>8. From(ids) # <<>>
  BY <1>4
<1>9. \A link \in ToSet(From(ids)) : link[2] = "derived_from"
  BY <1>4 DEF ToSet
<1> QED BY <1>7, <1>8, <1>9

(* A sequence is one of its own elements.                                   *)
LEMMA OfItsOwn ==
    ASSUME NEW S, NEW s \in Seq(S)
    PROVE  s \in Seq(ToSet(s))
<1>1. PICK n \in Nat : n = Len(s) /\ DOMAIN s = 1 .. n
  OBVIOUS
<1>2. PICK T : T = ToSet(s)
  OBVIOUS
<1>3. \A i \in 1 .. n : s[i] \in T
  BY <1>1, <1>2 DEF ToSet
<1>4. s = [i \in 1 .. n |-> s[i]]
  BY <1>1
<1>5. s \in [1 .. n -> T]
  BY <1>3, <1>4
<1> QED BY <1>2, <1>5

LEMMA LinkLeft ==
    ASSUME NEW links, links \in Seq(ToSet(links)), links # <<>>
    PROVE  /\ Head(links) \in ToSet(links)
           /\ ToSet(Tail(links)) \subseteq ToSet(links)
           /\ Len(links) # 1 => Tail(links) \in Seq(ToSet(Tail(links))) /\ Tail(links) # <<>>
<1>1. /\ Len(links) \in Nat \ {0} /\ DOMAIN links = 1 .. Len(links)
      /\ Head(links) = links[1] /\ Len(Tail(links)) = Len(links) - 1
      /\ DOMAIN Tail(links) = 1 .. Len(links) - 1
      /\ \A i \in 1 .. Len(links) - 1 : Tail(links)[i] = links[i + 1]
      /\ Tail(links) \in Seq(ToSet(links))
  OBVIOUS
<1>2. \A i \in 1 .. Len(links) - 1 : i + 1 \in 1 .. Len(links)
  BY <1>1
<1>3. ToSet(Tail(links)) \subseteq ToSet(links)
  BY <1>1, <1>2 DEF ToSet
<1>4. Tail(links) \in Seq(ToSet(Tail(links)))
  BY <1>1, OfItsOwn
<1>5. Head(links) \in ToSet(links)
  <2>1. 1 \in DOMAIN links
    BY <1>1
  <2> QED BY <1>1, <2>1 DEF ToSet
<1>6. Len(links) # 1 => Tail(links) # <<>>
  <2>1. Len(links) # 1 => Len(Tail(links)) # 0
    BY <1>1
  <2> QED BY <2>1
<1> QED BY <1>3, <1>4, <1>5, <1>6

LEMMA QuietAnalyses ==
    ASSUME AnalysisInv, MechanismInv', UNCHANGED <<stored, prov>>, deaths' \in Nat,
           LinksLeftSound', UnderWaySound', deaths' = 0 => KnownStays
    PROVE  AnalysisInv'
<1>1. Grows /\ OfKind("analysis")' = OfKind("analysis")
  BY QuietGrows DEF AnalysisInv, MechanismInv
<1>2. VersionsSound' /\ SupersedingSound'
  BY <1>1, VersionsStay
<1>3. CompleteSound'
  <2>1. CASE deaths' = 0
    BY <1>1, <2>1, KnownKeeps
  <2>2. CASE deaths' # 0
    BY <2>2 DEF CompleteSound
  <2> QED BY <2>1, <2>2
<1> QED BY <1>2, <1>3 DEF AnalysisInv

LEMMA IdleAnalyses ==
    ASSUME AnalysisInv, MechanismInv', UNCHANGED <<stored, prov>>, at' = "idle", deaths' \in Nat,
           deaths' = 0 => /\ deaths = 0
                          /\ Resumes \notin {"generate", "analysis", "critiqued", "selected"}
    PROVE  AnalysisInv'
<1>1. Resumes' = "idle"
  BY DEF Resumes
<1>2. LinksLeftSound' /\ UnderWaySound'
  BY <1>1 DEF LinksLeftSound, UnderWaySound
<1>3. deaths' = 0 => KnownStays
  <2>1. \A kind : OfKind(kind)' = OfKind(kind)
    BY QuietKeepsKinds DEF AnalysisInv, MechanismInv
  <2> QED BY <1>1, <2>1 DEF KnownStays, Making, Pending
<1> QED BY <1>2, <1>3, QuietAnalyses

(* A call that begins finds no analysis of a selection that it generates    *)
(* for, but empty ones.                                                     *)
LEMMA CallBeginsAnalyses ==
    ASSUME AnalysisInv, MechanismInv', UNCHANGED <<stored, prov>>, NEW step, NEW locals,
           Call(step, locals), step \in {"generate", "critique", "select"}, locals.made = <<>>,
           step = "generate" => Generations(locals.selection) = {}
    PROVE  AnalysisInv'
<1>1. /\ at' = step /\ call' = locals /\ Resumes' = step /\ at = "idle" /\ Resumes = "idle"
      /\ deaths' = deaths
  BY DEF Call, Resumes
<1>2. \A kind : OfKind(kind)' = OfKind(kind)
  BY QuietKeepsKinds DEF AnalysisInv, MechanismInv
<1>3. step = "generate" => \A a \in Analyses(locals.selection)' : stored'[a].candidates = {}
  <2>1. \A a \in Analyses(locals.selection) :
           stored[a].candidates # {} => Generations(locals.selection) # {}
    BY DEF AnalysisInv, VersionsSound, VersionSound, Analyses
  <2> QED BY <1>2, <2>1 DEF Analyses
<1>4. <<>> \in Seq(CandidatesFor(locals.selection)') /\ ToSet(<<>>) = {}
  BY DEF ToSet
<1>5. UnderWaySound'
  BY <1>1, <1>3, <1>4 DEF UnderWaySound, Analyses, CandidatesFor
<1>6. LinksLeftSound'
  BY <1>1 DEF LinksLeftSound
<1>7. KnownStays
  BY <1>1, <1>2 DEF KnownStays, Making, Pending
<1> QED BY <1>1, <1>5, <1>6, <1>7, QuietAnalyses DEF AnalysisInv

LEMMA CallsBeginAnalyses ==
    ASSUME AnalysisInv, MechanismInv', NEW s, NEW proposals,
           Generate(s, proposals) \/ Critique(s) \/ SelectMechanism(s)
    PROVE  AnalysisInv'
<1>1. CASE Generate(s, proposals)
  <2>1. PICK locals : locals = [Locals EXCEPT !.selection = s, !.todo = proposals]
    OBVIOUS
  <2>2. /\ Call("generate", locals) /\ UNCHANGED <<stored, prov>> /\ Generations(s) = {}
        /\ locals.made = <<>> /\ locals.selection = s
    BY <1>1, <2>1 DEF Generate, Locals
  <2> QED BY <2>2, CallBeginsAnalyses
<1>2. CASE Critique(s)
  <2>1. PICK locals : locals = [Locals EXCEPT !.candidate = s]
    OBVIOUS
  <2>2. Call("critique", locals) /\ UNCHANGED <<stored, prov>> /\ locals.made = <<>>
    BY <1>2, <2>1 DEF Critique, Locals
  <2> QED BY <2>2, CallBeginsAnalyses
<1>3. CASE SelectMechanism(s)
  <2>1. PICK step, locals :
           /\ locals = [Locals EXCEPT !.candidate = s, !.then = "select"]
           /\ step = IF CritiquesOf(s) = {} THEN "critique" ELSE "select"
    OBVIOUS
  <2>2. Call(step, locals) /\ UNCHANGED <<stored, prov>> /\ locals.made = <<>>
    BY <1>3, <2>1 DEF SelectMechanism, FirstStep, Locals
  <2> QED BY <2>1, <2>2, CallBeginsAnalyses
<1> QED BY <1>1, <1>2, <1>3

LEMMA LinkNextAnalyses ==
    ASSUME AnalysisInv, MechanismInv', LinkNext
    PROVE  AnalysisInv'
<1>1. /\ at = "link" /\ UNCHANGED stored /\ deaths' = deaths
      /\ prov' = prov \cup {<<Head(call.links)[1], Latest, Head(call.links)[2]>>}
      /\ call' = [call EXCEPT !.links = Tail(call.links)]
      /\ at' = IF Len(call.links) = 1 THEN call.step ELSE "link"
      /\ DOMAIN call = DOMAIN Locals /\ call.step \in MechanismSteps
  BY DEF LinkNext, Goto, AnalysisInv, MechanismInv, MechanismCallSound, Resumes
<1>2. /\ call'.step = call.step /\ call'.links = Tail(call.links)
      /\ call'.selection = call.selection /\ call'.candidate = call.candidate
      /\ call'.made = call.made /\ call'.new = call.new /\ call'.gap = call.gap
  BY <1>1, FieldsOfCall
<1>3. Resumes' = Resumes
  BY <1>1, <1>2 DEF Resumes, MechanismSteps
<1>4. Grows /\ \A kind : OfKind(kind)' = OfKind(kind)
  BY <1>1, QuietGrows DEF AnalysisInv, MechanismInv
<1>5. /\ VersionsSound' /\ \A s : Analyses(s)' = Analyses(s)
      /\ \A x : SupersededLater(x) => SupersededLater(x)'
  BY <1>4, VersionsStay
<1>6. /\ call.links \in Seq(ToSet(call.links)) /\ call.links # <<>>
      /\ \A link \in ToSet(call.links) : link[2] = "supersedes" => SupersededLater(link[1])
  BY <1>1 DEF AnalysisInv, LinksLeftSound
<1>7. /\ Head(call.links) \in ToSet(call.links)
      /\ ToSet(Tail(call.links)) \subseteq ToSet(call.links)
      /\ Len(call.links) # 1 =>
            Tail(call.links) \in Seq(ToSet(Tail(call.links))) /\ Tail(call.links) # <<>>
  BY <1>6, LinkLeft
<1>8. SupersedingSound'
  <2>1. \A link \in prov : link[3] = "supersedes" => SupersededLater(link[1])
    BY DEF AnalysisInv, SupersedingSound
  <2>2. Head(call.links)[2] = "supersedes" => SupersededLater(Head(call.links)[1])
    BY <1>6, <1>7
  <2>3. \A link \in prov' : link[3] = "supersedes" => SupersededLater(link[1])
    BY <1>1, <2>1, <2>2
  <2>4. \A link \in prov' : link[3] = "supersedes" => SupersededLater(link[1])'
    BY <1>5, <2>3
  <2> QED BY <2>4 DEF SupersedingSound, SupersededLater
<1>9. LinksLeftSound'
  <2>1. \A link \in ToSet(Tail(call.links)) : link[2] = "supersedes" => SupersededLater(link[1])'
    BY <1>5, <1>6, <1>7
  <2>2. at' = "link" => Len(call.links) # 1
    BY <1>1 DEF MechanismSteps
  <2> QED BY <1>2, <1>7, <2>1, <2>2 DEF LinksLeftSound, ToSet, SupersededLater
<1>10. UnderWaySound'
  BY <1>1, <1>2, <1>3, <1>4 DEF AnalysisInv, UnderWaySound, CandidatesFor, Analyses, Generations,
     CritiquesOf, MechanismsOf
<1>11. CompleteSound'
  <2>1. KnownStays
    BY <1>1, <1>2, <1>3, <1>4 DEF KnownStays, Making, Pending
  <2> QED BY <1>4, <2>1, KnownKeeps
<1> QED BY <1>1, <1>5, <1>8, <1>9, <1>10, <1>11 DEF AnalysisInv

(* A put of something that analyses are not about.                          *)
LEMMA OtherAnalyses ==
    ASSUME AnalysisInv, MechanismInv', NEW a, Put(a), a.kind \in {"gap", "selection", "generation"},
           prov' = prov, deaths' = deaths, LinksLeftSound', UnderWaySound',
           \A c : Making(c) => Making(c)', \A k : Pending(k)' = Pending(k)
    PROVE  AnalysisInv'
<1>1. /\ Grows
      /\ \A kind : OfKind(kind)' = IF a.kind = kind THEN OfKind(kind) \cup {Latest + 1}
                                                    ELSE OfKind(kind)
  BY PutGrows DEF AnalysisInv, MechanismInv
<1>2. /\ OfKind("analysis")' = OfKind("analysis")
      /\ OfKind("candidate")' = OfKind("candidate")
      /\ OfKind("mechanism_critique")' = OfKind("mechanism_critique")
      /\ OfKind("mechanism")' = OfKind("mechanism")
  BY <1>1
<1>3. VersionsSound' /\ SupersedingSound'
  BY <1>1, <1>2, VersionsStay
<1>4. KnownStays
  BY <1>2 DEF KnownStays
<1>5. CompleteSound'
  BY <1>1, <1>4, KnownKeeps
<1> QED BY <1>3, <1>5 DEF AnalysisInv

LEMMA SelectGapAnalyses ==
    ASSUME AnalysisInv, MechanismInv', NEW named \in ToSet(Gaps) \cup {0}, NEW approved \in BOOLEAN,
           SelectGap(named, approved)
    PROVE  AnalysisInv'
<1>1. PICK a, links :
         /\ a = [kind |-> "selection", gap |-> Chosen(named),
                 status |-> IF approved THEN "approved" ELSE "rejected"]
         /\ links = From(<<Analysed, Chosen(named)>>)
  OBVIOUS
<1>2. /\ Put(a) /\ a.kind = "selection" /\ prov' = prov /\ deaths' = deaths
      /\ at = "idle" /\ at' = "link"
      /\ call' = [Locals EXCEPT !.gap = Chosen(named), !.selection = Len(stored) + 1,
                                !.links = links, !.step = "gap"]
  BY <1>1 DEF SelectGap
<1>3. /\ call'.gap = Chosen(named) /\ call'.links = links /\ Resumes' = "gap" /\ Resumes = "idle"
  BY <1>2, FieldsOfCall DEF Resumes, Locals
<1>4. Chosen(named) \in Int /\ Chosen(named) < 0
  <2>1. 1 \in DOMAIN Gaps /\ \A k \in DOMAIN Gaps : Gaps[k] \in Int /\ Gaps[k] < 0
    BY GapsAssumption
  <2> QED BY <2>1 DEF Chosen, ToSet
<1>5. /\ links \in Seq(ToSet(links)) /\ links # <<>>
      /\ \A link \in ToSet(links) : link[2] = "derived_from"
  <2>1. <<Analysed, Chosen(named)>> \in Seq({Analysed, Chosen(named)})
        /\ <<Analysed, Chosen(named)>> # <<>>
    OBVIOUS
  <2> QED BY <1>1, <2>1, FromDerives
<1>6. LinksLeftSound'
  BY <1>2, <1>3, <1>5 DEF LinksLeftSound, ToSet
<1>7. UnderWaySound'
  BY <1>3, <1>4 DEF UnderWaySound
<1>8. \A c : Making(c) => Making(c)'
  BY <1>3 DEF Making
<1>9. \A k : Pending(k)' = Pending(k)
  BY <1>3 DEF Pending
<1> QED BY <1>2, <1>6, <1>7, <1>8, <1>9, OtherAnalyses

LEMMA PutSelectedGapAnalyses ==
    ASSUME AnalysisInv, MechanismInv', PutSelectedGap
    PROVE  AnalysisInv'
<1>1. PICK a, links :
         /\ a = [kind |-> "gap", of |-> call.gap, selection |-> call.selection]
         /\ links = <<<<call.gap, "supersedes">>, <<call.selection, "derived_from">>>>
  OBVIOUS
<1>2. at = "gap" /\ PutWithLinks(a, links, "done", call)
  BY <1>1 DEF PutSelectedGap
<1>3. DOMAIN call = DOMAIN Locals /\ Resumes = "gap"
  BY <1>2 DEF AnalysisInv, MechanismInv, MechanismCallSound, Resumes
<1>4. /\ at' = "link" /\ call'.links = links /\ Resumes' = "done"
      /\ Put(a) /\ prov' = prov /\ deaths' = deaths
  BY <1>2, <1>3, PutThenLinks
<1>5. a.kind = "gap"
  BY <1>1
<1>6. SupersededLater(call.gap)
  BY <1>3 DEF AnalysisInv, UnderWaySound, SupersededLater
<1>7. Grows /\ OfKind("analysis")' = OfKind("analysis")
  BY <1>4, <1>5, PutGrows DEF AnalysisInv, MechanismInv
<1>8. \A x : SupersededLater(x) => SupersededLater(x)'
  BY <1>7, VersionsStay
<1>9. /\ links \in Seq(ToSet(links)) /\ links # <<>>
      /\ \A link \in ToSet(links) :
            link = <<call.gap, "supersedes">> \/ link = <<call.selection, "derived_from">>
  <2>1. PICK x, y : x = <<call.gap, "supersedes">> /\ y = <<call.selection, "derived_from">>
    OBVIOUS
  <2>2. /\ links = <<x, y>> /\ links \in Seq({x, y}) /\ links # <<>>
        /\ DOMAIN links = 1 .. 2 /\ links[1] = x /\ links[2] = y
    BY <1>1, <2>1
  <2>3. ToSet(links) = {x, y}
    BY <2>2 DEF ToSet
  <2> QED BY <2>1, <2>2, <2>3
<1>10. \A link \in ToSet(links) : link[2] = "supersedes" => SupersededLater(link[1])'
  <2>1. \A link \in ToSet(links) : link[2] = "supersedes" => link[1] = call.gap
    BY <1>9
  <2>2. PICK g : g = call.gap
    OBVIOUS
  <2>3. SupersededLater(g)'
    BY <1>6, <1>8, <2>2
  <2> QED BY <2>1, <2>2, <2>3
<1>11. LinksLeftSound'
  BY <1>4, <1>9, <1>10 DEF LinksLeftSound, ToSet, SupersededLater
<1>12. UnderWaySound'
  BY <1>4 DEF UnderWaySound
<1>13. \A c : Making(c) => Making(c)'
  BY <1>3 DEF Making
<1>14. \A k : Pending(k)' = Pending(k)
  BY <1>3, <1>4 DEF Pending
<1> QED BY <1>4, <1>5, <1>11, <1>12, <1>13, <1>14, OtherAnalyses

LEMMA GenerationFailsAnalyses ==
    ASSUME AnalysisInv, MechanismInv', NEW s, GenerationFails(s)
    PROVE  AnalysisInv'
<1>1. PICK a : a = [kind |-> "generation", selection |-> s, created |-> <<>>, rejected |-> 0]
  OBVIOUS
<1>2. /\ Put(a) /\ a.kind = "generation" /\ at = "idle" /\ at' = "idle" /\ prov' = prov
      /\ deaths' = deaths
  BY <1>1 DEF GenerationFails
<1>3. Resumes = "idle" /\ Resumes' = "idle"
  BY <1>2 DEF Resumes
<1>4. LinksLeftSound' /\ UnderWaySound'
  BY <1>2, <1>3 DEF LinksLeftSound, UnderWaySound
<1>5. \A c : Making(c) => Making(c)'
  BY <1>3 DEF Making
<1>6. \A k : Pending(k)' = Pending(k)
  BY <1>3 DEF Pending
<1> QED BY <1>2, <1>4, <1>5, <1>6, OtherAnalyses

LEMMA PutGenerationAnalyses ==
    ASSUME AnalysisInv, MechanismInv', PutExecution
    PROVE  AnalysisInv'
<1>1. PICK a : a = [kind |-> "generation", selection |-> call.selection, created |-> call.made,
                    rejected |-> call.rejected]
  OBVIOUS
<1>2. /\ Put(a) /\ a.kind = "generation" /\ a.selection = call.selection /\ a.created = call.made
      /\ at = "generate" /\ at' = "analysis" /\ prov' = prov /\ deaths' = deaths
      /\ call' = [call EXCEPT !.new = Len(stored) + 1]
  BY <1>1 DEF PutExecution, Goto
<1>3. /\ Resumes = "generate" /\ Resumes' = "analysis" /\ DOMAIN call = DOMAIN Locals
  BY <1>2 DEF Resumes, AnalysisInv, MechanismInv, MechanismCallSound
<1>4. call'.selection = call.selection /\ call'.made = call.made
  BY <1>2, <1>3, FieldsOfCall
<1>5. /\ Grows /\ stored'[Latest + 1] = a
      /\ OfKind("analysis")' = OfKind("analysis") /\ OfKind("candidate")' = OfKind("candidate")
      /\ Latest + 1 \in OfKind("generation")'
  BY <1>2, PutGrows DEF AnalysisInv, MechanismInv
<1>6. \A kind : \A i \in OfKind(kind) : stored'[i] = stored[i]
  BY <1>5 DEF Grows, OfKind
<1>7. /\ call.made \in Seq(CandidatesFor(call.selection))
      /\ \A x \in Analyses(call.selection) : stored[x].candidates = {}
  BY <1>3 DEF AnalysisInv, UnderWaySound
<1>8. /\ CandidatesFor(call.selection)' = CandidatesFor(call.selection)
      /\ Analyses(call.selection)' = Analyses(call.selection)
  BY <1>4, <1>5, <1>6 DEF CandidatesFor, Analyses
<1>9. call.made # <<>> => Generations(call.selection)' # {}
  BY <1>2, <1>4, <1>5 DEF Generations
<1>10. UnderWaySound'
  <2>1. call'.made \in Seq(CandidatesFor(call.selection)')
    BY <1>4, <1>7, <1>8
  <2>2. \A x \in Analyses(call.selection)' : stored'[x].candidates = {}
    BY <1>6, <1>7, <1>8 DEF Analyses
  <2> QED BY <1>3, <1>4, <1>9, <2>1, <2>2 DEF UnderWaySound
<1>11. LinksLeftSound'
  BY <1>2 DEF LinksLeftSound
<1>12. \A c : Making(c) => Making(c)'
  BY <1>3, <1>4 DEF Making, ToSet
<1>13. \A k : Pending(k)' = Pending(k)
  BY <1>3 DEF Pending
<1> QED BY <1>2, <1>10, <1>11, <1>12, <1>13, OtherAnalyses

LEMMA Appended ==
    ASSUME NEW S, NEW s \in Seq(S), NEW x \in S
    PROVE  Append(s, x) \in Seq(S) /\ ToSet(Append(s, x)) = ToSet(s) \cup {x}
<1>1. PICK n \in Nat : n = Len(s) /\ DOMAIN s = 1 .. n
  OBVIOUS
<1>2. PICK t : t = Append(s, x)
  OBVIOUS
<1>3. /\ t \in Seq(S) /\ DOMAIN t = 1 .. n + 1 /\ t[n + 1] = x
      /\ \A i \in 1 .. n : t[i] = s[i]
  BY <1>1, <1>2
<1>4. 1 .. n + 1 = (1 .. n) \cup {n + 1}
  OBVIOUS
<1>5. ToSet(t) = ToSet(s) \cup {x}
  BY <1>1, <1>3, <1>4 DEF ToSet
<1> QED BY <1>2, <1>3, <1>5

(* A candidate that is proposed is made, and not yet analysed.              *)
LEMMA PutCandidateAnalyses ==
    ASSUME AnalysisInv, MechanismInv', PutCandidate
    PROVE  AnalysisInv'
<1>1. /\ at = "generate" /\ Resumes = "generate" /\ DOMAIN call = DOMAIN Locals
      /\ call.made \in Seq(CandidatesFor(call.selection))
      /\ \A a \in Analyses(call.selection) : stored[a].candidates = {}
  BY DEF PutCandidate, Resumes, AnalysisInv, MechanismInv, MechanismCallSound, UnderWaySound
<1>2. CASE Head(call.todo)
  <2>1. PICK a, links, locals :
           /\ a = [kind |-> "candidate", selection |-> call.selection]
           /\ links = From(<<stored[call.selection].gap>>)
           /\ locals = [call EXCEPT !.todo = Tail(@), !.made = Append(@, Len(stored) + 1)]
    OBVIOUS
  <2>2. PutWithLinks(a, links, "generate", locals)
    BY <1>2, <2>1 DEF PutCandidate
  <2>3. /\ DOMAIN locals = DOMAIN Locals /\ locals.selection = call.selection
        /\ locals.made = Append(call.made, Latest + 1)
    BY <1>1, <2>1, FieldsOfCall DEF Latest
  <2>4. /\ at' = "link" /\ Resumes' = "generate" /\ Put(a) /\ prov' = prov /\ deaths' = deaths
        /\ call'.selection = call.selection /\ call'.made = Append(call.made, Latest + 1)
        /\ call'.links = links
    BY <2>2, <2>3, PutThenLinks
  <2>5. a.kind = "candidate" /\ a.selection = call.selection
    BY <2>1
  <2>6. /\ Grows /\ stored'[Latest + 1] = a
        /\ \A kind : OfKind(kind)' = IF a.kind = kind THEN OfKind(kind) \cup {Latest + 1}
                                                      ELSE OfKind(kind)
    BY <2>4, PutGrows DEF AnalysisInv, MechanismInv
  <2>7. /\ OfKind("analysis")' = OfKind("analysis") /\ OfKind("mechanism")' = OfKind("mechanism")
        /\ OfKind("mechanism_critique")' = OfKind("mechanism_critique")
        /\ OfKind("candidate")' = OfKind("candidate") \cup {Latest + 1}
    BY <2>5, <2>6
  <2>8. VersionsSound' /\ SupersedingSound' /\ \A s : Analyses(s)' = Analyses(s)
    BY <2>4, <2>6, <2>7, VersionsStay
  <2>9. \A kind : \A i \in OfKind(kind) : stored'[i] = stored[i]
    BY <2>6 DEF Grows, OfKind
  <2>10. PICK C : C = CandidatesFor(call.selection) \cup {Latest + 1}
    OBVIOUS
  <2>11. C = CandidatesFor(call.selection)'
    BY <2>4, <2>5, <2>6, <2>7, <2>9, <2>10 DEF CandidatesFor
  <2>12. call.made \in Seq(C) /\ Latest + 1 \in C
    BY <1>1, <2>10
  <2>13. call'.made \in Seq(C) /\ ToSet(call'.made) = ToSet(call.made) \cup {Latest + 1}
    BY <2>4, <2>12, Appended
  <2>14. LinksLeftSound'
    <3>1. PICK g : g = stored[call.selection].gap
      OBVIOUS
    <3>2. <<g>> \in Seq({g}) /\ <<g>> # <<>> /\ links = From(<<g>>)
      BY <2>1, <3>1
    <3>3. /\ links \in Seq(ToSet(links)) /\ links # <<>>
          /\ \A link \in ToSet(links) : link[2] = "derived_from"
      BY <3>2, FromDerives
    <3> QED BY <2>4, <3>3 DEF LinksLeftSound, ToSet
  <2>15. UnderWaySound'
    <3>1. \A x \in Analyses(call.selection)' : stored'[x].candidates = {}
      BY <1>1, <2>4, <2>8, <2>9 DEF Analyses
    <3> QED BY <2>4, <2>11, <2>13, <3>1 DEF UnderWaySound
  <2>16. KnownStays
    BY <1>1, <2>4, <2>7, <2>13 DEF KnownStays, Making, Pending, ToSet
  <2> QED BY <2>4, <2>6, <2>8, <2>14, <2>15, <2>16, KnownKeeps DEF AnalysisInv
<1>3. CASE ~ Head(call.todo)
  <2>1. /\ call' = [call EXCEPT !.todo = Tail(call.todo), !.rejected = call.rejected + 1]
        /\ at' = "generate" /\ UNCHANGED <<stored, prov>> /\ deaths' = deaths
    BY <1>3 DEF PutCandidate, Goto
  <2>2. /\ call'.selection = call.selection /\ call'.made = call.made /\ Resumes' = "generate"
    BY <1>1, <2>1, FieldsOfCall DEF Resumes
  <2>3. \A kind : OfKind(kind)' = OfKind(kind)
    BY <2>1, QuietKeepsKinds DEF AnalysisInv, MechanismInv
  <2>4. LinksLeftSound' /\ UnderWaySound'
    BY <1>1, <2>1, <2>2, <2>3 DEF LinksLeftSound, UnderWaySound, CandidatesFor, Analyses
  <2>5. KnownStays
    BY <1>1, <2>1, <2>2, <2>3 DEF KnownStays, Making, Pending
  <2> QED BY <2>1, <2>4, <2>5, QuietAnalyses DEF AnalysisInv
<1> QED BY <1>2, <1>3

(* A critique or a mechanism that is put is pending until it is entered     *)
(* into the analysis of its candidate.                                      *)
LEMMA PendingAnalyses ==
    ASSUME AnalysisInv, MechanismInv', NEW a, Put(a),
           a.kind \in {"mechanism_critique", "mechanism"}, a.candidate \in OfKind("candidate"),
           Resumes \in {"critique", "select"}, Resumes' \in {"critiqued", "selected"},
           call'.new = Latest + 1, prov' = prov, deaths' = deaths,
           LinksLeftSound', UnderWaySound'
    PROVE  AnalysisInv'
<1> PICK n : n = Latest + 1
  OBVIOUS
<1>1. /\ Grows /\ stored'[n] = a /\ n \notin Stored
      /\ \A kind : OfKind(kind)' = IF a.kind = kind THEN OfKind(kind) \cup {n} ELSE OfKind(kind)
  BY PutGrows DEF AnalysisInv, MechanismInv
<1>2. OfKind("analysis")' = OfKind("analysis") /\ OfKind("candidate")' = OfKind("candidate")
  BY <1>1
<1>3. /\ VersionsSound' /\ SupersedingSound' /\ \A s : Analyses(s)' = Analyses(s)
  BY <1>1, <1>2, VersionsStay
<1>4. \A kind : \A i \in OfKind(kind) : stored'[i] = stored[i] /\ i \in Stored
  BY <1>1 DEF Grows, OfKind
<1>5. /\ \A c : ~ Making(c) /\ ~ Making(c)'
      /\ \A k : ~ Pending(k) /\ (Pending(k)' <=> k = n)
  BY DEF Making, Pending
<1>6. ASSUME deaths = 0, CompleteSound PROVE CompleteSound'
  <2>1. \A c \in OfKind("candidate") : \E x \in Analyses(stored[c].selection) : c \in stored[x].candidates
    BY <1>5, <1>6 DEF CompleteSound
  <2>2. \A s : \A x \in Analyses(s) : stored'[x] = stored[x] /\ x \in OfKind("analysis")
    BY <1>4 DEF Analyses
  <2>3. \A c \in OfKind("candidate")' :
           \E x \in Analyses(stored[c].selection)' : c \in stored'[x].candidates
    <3> SUFFICES ASSUME NEW c \in OfKind("candidate")
                 PROVE  \E x \in Analyses(stored[c].selection)' : c \in stored'[x].candidates
      BY <1>2
    <3>1. PICK s : s = stored[c].selection
      OBVIOUS
    <3>2. \E x \in Analyses(s) : c \in stored'[x].candidates
      BY <2>1, <2>2, <3>1
    <3>3. Analyses(s)' = Analyses(s) /\ stored'[c].selection = s
      BY <1>3, <1>4, <3>1
    <3> QED BY <3>2, <3>3 DEF Analyses
  <2>4. \A k \in OfKind("mechanism_critique")' \cup OfKind("mechanism")' :
           \E x \in OfKind("analysis")' : stored'[k].candidate \in stored'[x].candidates
    <3>1. \A k \in OfKind("mechanism_critique") \cup OfKind("mechanism") :
             \E x \in OfKind("analysis") : stored'[k].candidate \in stored'[x].candidates
      BY <1>4, <1>6 DEF CompleteSound
    <3>2. \E x \in OfKind("analysis") : a.candidate \in stored'[x].candidates
      BY <2>1, <2>2
    <3> QED BY <1>1, <1>2, <3>1, <3>2
  <2>5. ASSUME NEW x \in OfKind("analysis"), Newest(x)'
        PROVE  KnowsAll(x)'
    <3>1. Newest(x)
      <4>1. PICK s : s = stored[x].selection
        OBVIOUS
      <4>2. Analyses(s)' = Analyses(s) /\ stored'[x].selection = s
        BY <1>3, <1>4, <4>1
      <4> QED BY <2>5, <4>1, <4>2 DEF Newest, Analyses
    <3>2. KnowsAll(x) /\ stored'[x] = stored[x]
      BY <1>4, <1>6, <3>1 DEF CompleteSound
    <3>3. \A k \in OfKind("mechanism_critique") \cup OfKind("mechanism") :
             stored'[k] = stored[k] /\ k # n
      BY <1>1, <1>4
    <3>4. stored'[x].critiques =
             {k \in OfKind("mechanism_critique")' :
                 stored'[k].candidate \in stored'[x].candidates /\ ~ Pending(k)'}
      <4>1. stored'[x].critiques =
               {k \in OfKind("mechanism_critique") : stored'[k].candidate \in stored'[x].candidates}
        BY <1>5, <3>2, <3>3 DEF KnowsAll
      <4> QED BY <1>1, <1>5, <3>3, <4>1
    <3>5. \A m \in OfKind("mechanism")' :
             stored'[m].candidate \in stored'[x].candidates /\ ~ Pending(m)' => m <= stored'[x].mechanism
      BY <1>1, <1>5, <3>2, <3>3 DEF KnowsAll
    <3>6. stored'[x].mechanism # 0 =>
             stored'[stored'[x].mechanism].candidate \in stored'[x].candidates
      <4>1. stored[x].mechanism # 0 => stored[x].mechanism \in OfKind("mechanism")
        BY DEF AnalysisInv, VersionsSound, VersionSound
      <4> QED BY <3>2, <3>3, <4>1 DEF KnowsAll
    <3> QED BY <3>4, <3>5, <3>6 DEF KnowsAll
  <2> QED BY <1>2, <2>3, <2>4, <2>5 DEF CompleteSound
<1>7. CompleteSound'
  BY <1>6 DEF AnalysisInv, CompleteSound
<1> QED BY <1>3, <1>7 DEF AnalysisInv

LEMMA PutCritiqueAnalyses ==
    ASSUME AnalysisInv, MechanismInv', PutCritique
    PROVE  AnalysisInv'
<1>1. /\ at = "critique" /\ Resumes = "critique" /\ DOMAIN call = DOMAIN Locals
      /\ call.candidate \in OfKind("candidate")
  BY DEF PutCritique, Resumes, AnalysisInv, MechanismInv, MechanismCallSound
<1>2. PICK a, links, locals :
         /\ a = [kind |-> "mechanism_critique", candidate |-> call.candidate]
         /\ links = From(<<call.candidate>>) /\ locals = [call EXCEPT !.new = Len(stored) + 1]
  OBVIOUS
<1>3. PutWithLinks(a, links, "critiqued", locals)
  BY <1>2 DEF PutCritique
<1>4. /\ DOMAIN locals = DOMAIN Locals /\ locals.candidate = call.candidate
      /\ locals.new = Latest + 1
  BY <1>1, <1>2, FieldsOfCall DEF Latest
<1>5. /\ at' = "link" /\ Resumes' = "critiqued" /\ Put(a) /\ prov' = prov /\ deaths' = deaths
      /\ call'.candidate = call.candidate /\ call'.new = Latest + 1 /\ call'.links = links
  BY <1>3, <1>4, PutThenLinks
<1>6. a.kind = "mechanism_critique" /\ a.candidate = call.candidate
  BY <1>2
<1>7. LinksLeftSound'
  <2>1. PICK c : c = call.candidate
    OBVIOUS
  <2>2. <<c>> \in Seq({c}) /\ <<c>> # <<>> /\ links = From(<<c>>)
    BY <1>2, <2>1
  <2>3. /\ links \in Seq(ToSet(links)) /\ links # <<>>
        /\ \A link \in ToSet(links) : link[2] = "derived_from"
    BY <2>2, FromDerives
  <2> QED BY <1>5, <2>3 DEF LinksLeftSound, ToSet
<1>8. UnderWaySound'
  <2>1. stored'[Latest + 1] = a /\ Latest + 1 \in OfKind("mechanism_critique")'
    BY <1>5, <1>6, PutGrows DEF AnalysisInv, MechanismInv
  <2> QED BY <1>5, <1>6, <2>1 DEF UnderWaySound, CritiquesOf
<1> QED BY <1>1, <1>5, <1>6, <1>7, <1>8, PendingAnalyses

(* A set of one is listed in one way.                                       *)
LEMMA ListOfOne ==
    ASSUME NEW S, NEW k, S = {k}
    PROVE  SetToSeq(S) \in Seq(S)
<1>1. Cardinality(S) = 1
  BY FS_Singleton
<1>2. PICK f : f = [i \in 1 .. 1 |-> k]
  OBVIOUS
<1>3. f \in [1 .. Cardinality(S) -> S] /\ IsInjective(f)
  BY <1>1, <1>2 DEF IsInjective
<1>4. SetToSeq(S) \in [1 .. Cardinality(S) -> S]
  BY <1>3 DEF SetToSeq
<1>5. SetToSeq(S) \in [1 .. 1 -> S]
  BY <1>1, <1>4
<1> QED BY <1>5

LEMMA PutMechanismAnalyses ==
    ASSUME AnalysisInv, MechanismInv', PutMechanism
    PROVE  AnalysisInv'
<1>1. /\ at = "select" /\ Resumes = "select" /\ DOMAIN call = DOMAIN Locals
      /\ call.candidate \in OfKind("candidate") /\ CritiquesOf(call.candidate) # {}
  BY DEF PutMechanism, Resumes, AnalysisInv, MechanismInv, MechanismCallSound
<1>2. PICK c, K, a, links, locals :
         /\ c = call.candidate /\ K = CritiquesOf(call.candidate)
         /\ a = [kind |-> "mechanism", candidate |-> c, critiques |-> K]
         /\ links = From(<<c>> \o SetToSeq(K)) /\ locals = [call EXCEPT !.new = Len(stored) + 1]
  OBVIOUS
<1>3. PutWithLinks(a, links, "selected", locals)
  BY <1>2 DEF PutMechanism
<1>4. /\ DOMAIN locals = DOMAIN Locals /\ locals.candidate = call.candidate
      /\ locals.new = Latest + 1
  BY <1>1, <1>2, FieldsOfCall DEF Latest
<1>5. /\ at' = "link" /\ Resumes' = "selected" /\ Put(a) /\ prov' = prov /\ deaths' = deaths
      /\ call'.candidate = call.candidate /\ call'.new = Latest + 1 /\ call'.links = links
  BY <1>3, <1>4, PutThenLinks
<1>6. a.kind = "mechanism" /\ a.candidate = call.candidate
  BY <1>2
<1>7. LinksLeftSound'
  <2>1. PICK k : K = {k}
    <3>1. \A i, j \in OfKind("mechanism_critique") : stored[i].candidate = stored[j].candidate => i = j
      BY DEF AnalysisInv, MechanismInv, MechanismsEarned
    <3> QED BY <1>1, <1>2, <3>1 DEF CritiquesOf
  <2>2. PICK list : list = SetToSeq(K)
    OBVIOUS
  <2>3. list \in Seq(K)
    BY <2>1, <2>2, ListOfOne
  <2>4. <<c>> \o list \in Seq({c} \cup K) /\ <<c>> \o list # <<>> /\ links = From(<<c>> \o list)
    BY <1>2, <2>2, <2>3
  <2>5. /\ links \in Seq(ToSet(links)) /\ links # <<>>
        /\ \A link \in ToSet(links) : link[2] = "derived_from"
    BY <2>4, FromDerives
  <2> QED BY <1>5, <2>5 DEF LinksLeftSound, ToSet
<1>8. UnderWaySound'
  <2>1. /\ Grows /\ stored'[Latest + 1] = a /\ OfKind("analysis")' = OfKind("analysis")
        /\ OfKind("mechanism")' = OfKind("mechanism") \cup {Latest + 1}
    BY <1>5, <1>6, PutGrows DEF AnalysisInv, MechanismInv
  <2>2. PICK l \in Nat : l = Latest /\ Stored = 1 .. l
    BY <2>1 DEF Grows
  <2>3. \A m \in OfKind("mechanism") : m \in 1 .. l
    BY <2>2 DEF OfKind
  <2>4. \A x \in OfKind("analysis") : stored'[x].mechanism < l + 1
    <3> TAKE x \in OfKind("analysis")
    <3>1. stored[x].mechanism \in {0} \cup OfKind("mechanism")
      BY DEF AnalysisInv, VersionsSound, VersionSound
    <3>2. stored'[x] = stored[x]
      BY <2>1 DEF Grows, OfKind
    <3> QED BY <2>3, <3>1, <3>2
  <2>5. \A m \in OfKind("mechanism")' : m <= l + 1
    BY <2>1, <2>2, <2>3
  <2> QED BY <1>5, <1>6, <2>1, <2>2, <2>4, <2>5 DEF UnderWaySound, MechanismsOf
<1> QED BY <1>1, <1>5, <1>6, <1>7, <1>8, PendingAnalyses

\* What an analysis v would know if it were added as the newest of its selection.
KnowsAs(v) ==
    /\ v.critiques = {k \in OfKind("mechanism_critique") : stored[k].candidate \in v.candidates}
    /\ \A m \in OfKind("mechanism") : stored[m].candidate \in v.candidates => m <= v.mechanism
    /\ v.mechanism # 0 => stored[v.mechanism].candidate \in v.candidates

AnalysisRecords ==
    [kind : {"analysis"}, selection : OfKind("selection"), candidates : SUBSET OfKind("candidate"),
     critiques : SUBSET OfKind("mechanism_critique"), mechanism : {0} \cup OfKind("mechanism"),
     status : {"generated", "critiqued", "selected"}]

(* An analysis that leaves no candidate of its selection out, and that      *)
(* knows what was pending, is a version like the others.                    *)
LEMMA AnalysisAdded ==
    ASSUME AnalysisInv, MechanismInv', NEW v \in AnalysisRecords, Put(v),
           v.candidates \subseteq CandidatesFor(v.selection),
           v.candidates # {} => Generations(v.selection) # {},
           \A x \in Analyses(v.selection) : stored[x].candidates \subseteq v.candidates,
           prov' = prov, deaths' = deaths, LinksLeftSound', UnderWaySound',
           Resumes' \in {"done", "select"},
           deaths = 0 =>
              /\ \A c \in OfKind("candidate") :
                    Making(c) => c \in v.candidates /\ stored[c].selection = v.selection
              /\ \A k \in OfKind("mechanism_critique") \cup OfKind("mechanism") :
                    Pending(k) => stored[k].candidate \in CandidatesFor(v.selection)
              /\ KnowsAs(v)
    PROVE  AnalysisInv'
<1> PICK n, sel : n = Latest + 1 /\ sel = v.selection
  OBVIOUS
<1>1. /\ Grows /\ stored'[n] = v /\ n \notin Stored
      /\ \A kind : OfKind(kind)' = IF v.kind = kind THEN OfKind(kind) \cup {n} ELSE OfKind(kind)
  BY PutGrows DEF AnalysisInv, MechanismInv
<1>2. v.kind = "analysis"
  BY DEF AnalysisRecords
<1>3. /\ OfKind("analysis")' = OfKind("analysis") \cup {n}
      /\ \A kind : kind # "analysis" => OfKind(kind)' = OfKind(kind)
  BY <1>1, <1>2
<1>4. \A kind : \A i \in OfKind(kind) : stored'[i] = stored[i] /\ i \in Stored
  BY <1>1 DEF Grows, OfKind
<1>5. PICK l \in Nat : n = l + 1 /\ Stored = 1 .. l
  BY <1>1 DEF Grows
<1>6. \A s : Analyses(s)' = IF s = sel THEN Analyses(s) \cup {n} ELSE Analyses(s)
  BY <1>1, <1>3, <1>4 DEF Analyses
<1>7. \A s : \A x \in Analyses(s) : stored'[x] = stored[x] /\ x \in 1 .. l /\ x \in OfKind("analysis")
  BY <1>4, <1>5 DEF Analyses
<1>8. \A s : /\ CandidatesFor(s)' = CandidatesFor(s) /\ Generations(s)' = Generations(s)
  BY <1>3, <1>4 DEF CandidatesFor, Generations
<1>9. SupersedingSound'
  <2>1. ASSUME NEW x, SupersededLater(x) PROVE SupersededLater(x)'
    BY <1>3, <1>4, <1>6, <2>1 DEF SupersededLater
  <2> QED BY <2>1 DEF AnalysisInv, SupersedingSound
<1>10. VersionsSound'
  <2>1. v \in AnalysisRecords'
    BY <1>3 DEF AnalysisRecords
  <2>2. ASSUME NEW a \in OfKind("analysis") PROVE VersionSound(a)'
    <3>1. PICK s : s = stored[a].selection
      OBVIOUS
    <3>2. /\ stored[a] \in AnalysisRecords /\ stored[a].candidates \subseteq CandidatesFor(s)
          /\ stored[a].candidates # {} => Generations(s) # {}
          /\ \A b \in Analyses(s) : a <= b => stored[a].candidates \subseteq stored[b].candidates
      BY <3>1 DEF AnalysisInv, VersionsSound, VersionSound, AnalysisRecords
    <3>3. stored'[a] = stored[a] /\ a \in Analyses(s)
      BY <1>4, <3>1 DEF Analyses
    <3>4. \A b \in Analyses(s)' : a <= b => stored'[a].candidates \subseteq stored'[b].candidates
      BY <1>1, <1>6, <1>7, <3>2, <3>3
    <3>5. stored'[a] \in AnalysisRecords'
      BY <1>3, <3>2, <3>3 DEF AnalysisRecords
    <3>6. stored'[a].selection = s
      BY <3>1, <3>3
    <3>7. /\ stored'[a].candidates \subseteq CandidatesFor(stored[a].selection)'
          /\ stored'[a].candidates # {} => Generations(stored[a].selection)' # {}
      <4>1. /\ stored'[a].candidates \subseteq CandidatesFor(s)'
            /\ stored'[a].candidates # {} => Generations(s)' # {}
        BY <1>8, <3>2, <3>3
      <4>2. CandidatesFor(stored[a].selection)' = CandidatesFor(s)'
        BY <3>6 DEF CandidatesFor
      <4>3. Generations(stored[a].selection)' = Generations(s)'
        BY <3>6 DEF Generations
      <4> QED BY <4>1, <4>2, <4>3
    <3> QED BY <3>4, <3>5, <3>6, <3>7 DEF VersionSound, AnalysisRecords, Analyses
  <2>3. VersionSound(n)'
    <3>1. \A b \in Analyses(sel)' : n <= b => b = n
      BY <1>5, <1>6, <1>7
    <3>2. stored'[n] = v /\ v.selection = sel
      BY <1>1
    <3>3. /\ v.candidates \subseteq CandidatesFor(sel)'
          /\ v.candidates # {} => Generations(sel)' # {}
      BY <1>8
    <3>4. \A b \in Analyses(stored[n].selection)' : n <= b => v.candidates \subseteq stored'[b].candidates
      BY <3>1, <3>2 DEF Analyses
    <3> QED BY <2>1, <3>2, <3>3, <3>4 DEF VersionSound, AnalysisRecords, CandidatesFor, Generations
  <2> QED BY <1>3, <2>2, <2>3 DEF VersionsSound
<1>11. ASSUME deaths = 0, CompleteSound PROVE CompleteSound'
  <2>1. \A c : ~ Making(c)' /\ ~ Pending(c)'
    BY DEF Making, Pending
  <2>2. \A c \in OfKind("candidate")' :
           \E a \in Analyses(stored[c].selection)' : c \in stored'[a].candidates
    <3> SUFFICES ASSUME NEW c \in OfKind("candidate")
                 PROVE  \E a \in Analyses(stored[c].selection)' : c \in stored'[a].candidates
      BY <1>3
    <3>1. PICK s : s = stored[c].selection
      OBVIOUS
    <3>2. \E a \in Analyses(s)' : c \in stored'[a].candidates
      <4>1. CASE Making(c)
        BY <1>1, <1>6, <1>11, <3>1, <4>1
      <4>2. CASE ~ Making(c)
        BY <1>6, <1>7, <1>11, <3>1, <4>2 DEF CompleteSound
      <4> QED BY <4>1, <4>2
    <3>3. stored'[c].selection = s
      BY <1>4, <3>1
    <3> QED BY <3>2, <3>3 DEF Analyses
  <2>3. \A k \in OfKind("mechanism_critique")' \cup OfKind("mechanism")' :
           \E a \in OfKind("analysis")' : stored'[k].candidate \in stored'[a].candidates
    BY <1>3, <1>4, <1>11 DEF CompleteSound
  <2>4. \A k \in OfKind("mechanism_critique") \cup OfKind("mechanism") : stored'[k] = stored[k]
    BY <1>4
  <2>5. KnowsAll(n)'
    <3>1. \A k \in OfKind("mechanism") : stored'[k] = stored[k]
      BY <2>4
    <3>2. v.mechanism \in {0} \cup OfKind("mechanism")
      BY DEF AnalysisRecords
    <3>3. v.critiques = {k \in OfKind("mechanism_critique")' :
                            stored'[k].candidate \in v.candidates /\ ~ Pending(k)'}
      BY <1>3, <1>11, <2>1, <2>4 DEF KnowsAs
    <3>4. \A m \in OfKind("mechanism")' :
             stored'[m].candidate \in v.candidates /\ ~ Pending(m)' => m <= v.mechanism
      BY <1>3, <1>11, <3>1 DEF KnowsAs
    <3>5. v.mechanism # 0 => stored'[v.mechanism].candidate \in v.candidates
      BY <1>11, <3>1, <3>2 DEF KnowsAs
    <3> QED BY <1>1, <3>3, <3>4, <3>5 DEF KnowsAll
  <2>6. ASSUME NEW a \in OfKind("analysis"), Newest(a)' PROVE KnowsAll(a)'
    <3>1. PICK s : s = stored[a].selection
      OBVIOUS
    <3>2. stored'[a] = stored[a] /\ stored'[a].selection = s /\ a \in 1 .. l
      BY <1>4, <1>5, <3>1
    <3>3. \A b \in Analyses(s)' : b <= a
      BY <2>6, <3>2 DEF Newest, Analyses
    <3>4. s # sel
      <4> SUFFICES ASSUME s = sel PROVE FALSE
        OBVIOUS
      <4>1. n \in Analyses(s)'
        BY <1>6
      <4>2. n <= a
        BY <3>3, <4>1
      <4> QED BY <1>5, <3>2, <4>2
    <3>5. Newest(a)
      BY <1>6, <3>1, <3>3 DEF Newest
    <3>6. KnowsAll(a)
      BY <1>11, <3>5 DEF CompleteSound
    <3>7. \A k \in OfKind("mechanism_critique") \cup OfKind("mechanism") :
             stored[k].candidate \in stored[a].candidates => ~ Pending(k)
      <4>1. stored[a].candidates \subseteq CandidatesFor(s)
        BY <3>1 DEF AnalysisInv, VersionsSound, VersionSound
      <4>2. \A c : ~ (c \in CandidatesFor(s) /\ c \in CandidatesFor(sel))
        BY <3>4 DEF CandidatesFor
      <4>3. \A k \in OfKind("mechanism_critique") \cup OfKind("mechanism") :
               Pending(k) => stored[k].candidate \in CandidatesFor(sel)
        BY <1>11
      <4> QED BY <4>1, <4>2, <4>3
    <3>8. stored'[a].critiques = {k \in OfKind("mechanism_critique")' :
                            stored'[k].candidate \in stored'[a].candidates /\ ~ Pending(k)'}
      <4>1. stored[a].critiques = {k \in OfKind("mechanism_critique") :
                                      stored[k].candidate \in stored[a].candidates}
        BY <3>6, <3>7 DEF KnowsAll
      <4>2. \A k \in OfKind("mechanism_critique") : stored'[k] = stored[k]
        BY <2>4
      <4>3. PICK A : A = stored[a] /\ A = stored'[a]
        BY <3>2
      <4>4. A.critiques = {k \in OfKind("mechanism_critique") : stored'[k].candidate \in A.candidates}
        BY <4>1, <4>2, <4>3
      <4>5. OfKind("mechanism_critique")' = OfKind("mechanism_critique")
        BY <1>3
      <4>6. A.critiques = {k \in OfKind("mechanism_critique")' :
                              stored'[k].candidate \in A.candidates /\ ~ Pending(k)'}
        BY <2>1, <4>4, <4>5
      <4> QED BY <4>3, <4>6
    <3>9. \A m \in OfKind("mechanism")' :
             stored'[m].candidate \in stored'[a].candidates /\ ~ Pending(m)' => m <= stored'[a].mechanism
      BY <1>3, <2>4, <3>2, <3>6, <3>7 DEF KnowsAll
    <3>10. stored'[a].mechanism # 0 =>
             stored'[stored'[a].mechanism].candidate \in stored'[a].candidates
      <4>1. stored[a].mechanism # 0 => stored[a].mechanism \in OfKind("mechanism")
        BY DEF AnalysisInv, VersionsSound, VersionSound
      <4> QED BY <2>4, <3>2, <3>6, <4>1 DEF KnowsAll
    <3> QED BY <3>8, <3>9, <3>10 DEF KnowsAll
  <2> QED BY <1>3, <2>2, <2>3, <2>5, <2>6 DEF CompleteSound
<1>12. CompleteSound'
  BY <1>11 DEF AnalysisInv, CompleteSound
<1> QED BY <1>9, <1>10, <1>12 DEF AnalysisInv

(* The first analysis of the candidates that a call made: none of them has  *)
(* been criticised, for without a death what is criticised is analysed.     *)
LEMMA PutAnalysisAnalyses ==
    ASSUME AnalysisInv, MechanismInv', PutAnalysis
    PROVE  AnalysisInv'
<1>1. /\ at = "analysis" /\ Resumes = "analysis" /\ DOMAIN call = DOMAIN Locals
      /\ call.selection \in OfKind("selection")
      /\ call.made \in Seq(CandidatesFor(call.selection))
      /\ \A a \in Analyses(call.selection) : stored[a].candidates = {}
      /\ call.made # <<>> => Generations(call.selection) # {}
  BY DEF PutAnalysis, Resumes, AnalysisInv, MechanismInv, MechanismCallSound, UnderWaySound
<1>2. PICK s, made, v, links :
         /\ s = call.selection /\ made = call.made
         /\ v = [kind |-> "analysis", selection |-> s, candidates |-> ToSet(made),
                 critiques |-> {}, mechanism |-> 0, status |-> "generated"]
         /\ links = From(<<s, call.new>> \o made)
  OBVIOUS
<1>3. PutWithLinks(v, links, "done", call)
  BY <1>1, <1>2 DEF PutAnalysis
<1>4. /\ at' = "link" /\ Resumes' = "done" /\ Put(v) /\ prov' = prov /\ deaths' = deaths
      /\ call'.links = links
  BY <1>1, <1>3, PutThenLinks
<1>5. /\ v.kind = "analysis" /\ v.selection = s /\ v.candidates = ToSet(made)
      /\ v.critiques = {} /\ v.mechanism = 0
  BY <1>2
<1>6. ToSet(made) \subseteq CandidatesFor(s) /\ (ToSet(made) # {} => made # <<>>)
  <2>1. made \in Seq(CandidatesFor(s))
    BY <1>1, <1>2
  <2>2. DOMAIN made = 1 .. Len(made) /\ \A i \in DOMAIN made : made[i] \in CandidatesFor(s)
    BY <2>1
  <2> QED BY <2>2 DEF ToSet
<1>7. v \in AnalysisRecords
  <2>1. CandidatesFor(s) \subseteq OfKind("candidate")
    BY DEF CandidatesFor
  <2> QED BY <1>1, <1>2, <1>6, <2>1 DEF AnalysisRecords
<1>8. LinksLeftSound'
  <2>1. PICK ids : ids = <<s, call.new>> \o made
    OBVIOUS
  <2>2. PICK new : new = call.new
    OBVIOUS
  <2>3. <<s, new>> \o made \in Seq({s, new} \cup CandidatesFor(s)) /\ <<s, new>> \o made # <<>>
    BY <1>1, <1>2
  <2>4. /\ links \in Seq(ToSet(links)) /\ links # <<>>
        /\ \A link \in ToSet(links) : link[2] = "derived_from"
    BY <1>2, <2>2, <2>3, FromDerives
  <2> QED BY <1>4, <2>4 DEF LinksLeftSound, ToSet
<1>9. UnderWaySound'
  BY <1>4 DEF UnderWaySound
<1>10. ASSUME deaths = 0
       PROVE  \A k \in OfKind("mechanism_critique") \cup OfKind("mechanism") :
                 stored[k].candidate \notin ToSet(made)
  <2> SUFFICES ASSUME NEW k \in OfKind("mechanism_critique") \cup OfKind("mechanism"),
                      stored[k].candidate \in ToSet(made)
               PROVE  FALSE
    OBVIOUS
  <2>1. PICK a \in OfKind("analysis") : stored[k].candidate \in stored[a].candidates
    BY <1>10 DEF AnalysisInv, CompleteSound
  <2>2. stored[a].candidates \subseteq CandidatesFor(stored[a].selection)
    BY DEF AnalysisInv, VersionsSound, VersionSound
  <2>3. stored[a].selection = s
    BY <1>6, <2>1, <2>2 DEF CandidatesFor
  <2>4. stored[a].candidates = {}
    BY <1>1, <1>2, <2>3 DEF Analyses
  <2> QED BY <2>1, <2>4
<1>11. deaths = 0 =>
         /\ \A c \in OfKind("candidate") :
               Making(c) => c \in v.candidates /\ stored[c].selection = v.selection
         /\ \A k \in OfKind("mechanism_critique") \cup OfKind("mechanism") :
               Pending(k) => stored[k].candidate \in CandidatesFor(v.selection)
         /\ KnowsAs(v)
  <2>1. \A c : Making(c) => c \in ToSet(made)
    BY <1>2 DEF Making, ToSet
  <2>2. \A k : ~ Pending(k)
    BY <1>1 DEF Pending
  <2>3. \A c \in OfKind("candidate") :
           Making(c) => c \in v.candidates /\ stored[c].selection = v.selection
    BY <1>5, <1>6, <2>1 DEF CandidatesFor
  <2>4. deaths = 0 => KnowsAs(v)
    BY <1>5, <1>10 DEF KnowsAs
  <2> QED BY <2>2, <2>3, <2>4
<1>12. \A x \in Analyses(v.selection) : stored[x].candidates \subseteq v.candidates
  BY <1>1, <1>2, <1>5
<1>13. /\ v.candidates \subseteq CandidatesFor(v.selection)
       /\ v.candidates # {} => Generations(v.selection) # {}
  BY <1>1, <1>2, <1>5, <1>6
<1> QED BY <1>4, <1>7, <1>8, <1>9, <1>11, <1>12, <1>13, AnalysisAdded

(* What is known of the candidate of a call that updates its analysis.      *)
LEMMA UpdateReads ==
    ASSUME AnalysisInv, at \in {"critiqued", "selected"}, NEW s, s = stored[call.candidate].selection
    PROVE  /\ Resumes = at /\ DOMAIN call = DOMAIN Locals /\ call.then \in {"done", "select"}
           /\ call.candidate \in CandidatesFor(s)
           /\ at = "critiqued" => call.new \in CritiquesOf(call.candidate)
           /\ at = "selected" => /\ call.new \in MechanismsOf(call.candidate)
                                 /\ \A m \in OfKind("mechanism") : m <= call.new
                                 /\ \A a \in OfKind("analysis") : stored[a].mechanism < call.new
           /\ deaths = 0 =>
                 /\ CurrentAnalysis(s) # 0
                 /\ call.candidate \in stored[CurrentAnalysis(s)].candidates
<1>1. Resumes = at
  BY DEF Resumes
<1>2. /\ DOMAIN call = DOMAIN Locals /\ call.then \in {"done", "select"}
      /\ call.candidate \in OfKind("candidate")
  BY <1>1 DEF AnalysisInv, MechanismInv, MechanismCallSound
<1>3. /\ at = "critiqued" => call.new \in CritiquesOf(call.candidate)
      /\ at = "selected" => /\ call.new \in MechanismsOf(call.candidate)
                            /\ \A m \in OfKind("mechanism") : m <= call.new
                            /\ \A a \in OfKind("analysis") : stored[a].mechanism < call.new
  BY <1>1 DEF AnalysisInv, UnderWaySound
<1>4. ASSUME deaths = 0
      PROVE  /\ CurrentAnalysis(s) # 0
             /\ call.candidate \in stored[CurrentAnalysis(s)].candidates
  <2>1. PICK b \in Analyses(s) : call.candidate \in stored[b].candidates
    BY <1>1, <1>2, <1>4 DEF AnalysisInv, CompleteSound, Making
  <2>2. PICK m : m = CurrentAnalysis(s)
    OBVIOUS
  <2>3. m \in Analyses(s) /\ m \in Nat \ {0} /\ b <= m
    BY <2>1, <2>2, CurrentIsNewest DEF AnalysisInv, MechanismInv
  <2>4. stored[b].candidates \subseteq stored[m].candidates
    BY <2>1, <2>3 DEF AnalysisInv, VersionsSound, VersionSound, Analyses
  <2> QED BY <2>1, <2>2, <2>3, <2>4
<1> QED BY <1>1, <1>2, <1>3, <1>4 DEF CandidatesFor

LEMMA Ranks == Rank("generated") = 1 /\ Rank("critiqued") = 2 /\ Rank("selected") = 3
<1>1. DOMAIN Statuses = 1 .. 3 /\ Statuses[1] = "generated" /\ Statuses[2] = "critiqued"
      /\ Statuses[3] = "selected"
  BY DEF Statuses
<1>2. \A k \in 1 .. 3 : k = 1 \/ k = 2 \/ k = 3
  OBVIOUS
<1> HIDE DEF Statuses
<1>3. (CHOOSE k \in DOMAIN Statuses : Statuses[k] = "generated") = 1
  BY <1>1, <1>2
<1>4. (CHOOSE k \in DOMAIN Statuses : Statuses[k] = "critiqued") = 2
  BY <1>1, <1>2
<1>5. (CHOOSE k \in DOMAIN Statuses : Statuses[k] = "selected") = 3
  BY <1>1, <1>2
<1> QED BY <1>3, <1>4, <1>5 DEF Rank

(* A version adds to the one before it, and never goes back.                *)
LEMMA VersionAdds ==
    ASSUME NEW old \in AnalysisRecords, NEW critique \in SUBSET OfKind("mechanism_critique"),
           NEW mechanism \in {0} \cup OfKind("mechanism"), NEW v, v = Version(old, critique, mechanism)
    PROVE  /\ v \in AnalysisRecords /\ v.kind = "analysis"
           /\ v.selection = old.selection /\ v.candidates = old.candidates
           /\ v.critiques = old.critiques \cup critique
           /\ v.mechanism = IF mechanism = 0 THEN old.mechanism ELSE mechanism
           /\ Rank(old.status) <= Rank(v.status)
<1>1. DOMAIN old = {"kind", "selection", "candidates", "critiques", "mechanism", "status"}
  BY DEF AnalysisRecords
<1>2. PICK status : status = CASE mechanism # 0 -> "selected"
                               [] mechanism = 0 /\ old.status = "generated" -> "critiqued"
                               [] OTHER -> old.status
  OBVIOUS
<1>3. v = [old EXCEPT !.critiques = old.critiques \cup critique,
                      !.mechanism = IF mechanism = 0 THEN old.mechanism ELSE mechanism,
                      !.status = status]
  BY <1>2 DEF Version
<1>4. old.status \in {"generated", "critiqued", "selected"}
  BY DEF AnalysisRecords
<1>5. status \in {"generated", "critiqued", "selected"}
      /\ (status = old.status \/ status = "selected" \/ (status = "critiqued" /\ old.status = "generated"))
  <2>1. CASE mechanism # 0
    BY <1>2, <2>1
  <2>2. CASE mechanism = 0 /\ old.status = "generated"
    BY <1>2, <2>2
  <2>3. CASE mechanism = 0 /\ old.status # "generated"
    BY <1>2, <1>4, <2>3
  <2> QED BY <2>1, <2>2, <2>3
<1>6. Rank(old.status) <= Rank(status)
  BY <1>4, <1>5, Ranks
<1>7. /\ v.kind = old.kind /\ v.selection = old.selection /\ v.candidates = old.candidates
      /\ v.critiques = old.critiques \cup critique
      /\ v.mechanism = IF mechanism = 0 THEN old.mechanism ELSE mechanism
      /\ v.status = status
  BY <1>1, <1>3
<1>8. v = [kind |-> v.kind, selection |-> v.selection, candidates |-> v.candidates,
           critiques |-> v.critiques, mechanism |-> v.mechanism, status |-> v.status]
  BY <1>1, <1>3
<1>9. /\ old.kind = "analysis" /\ old.selection \in OfKind("selection")
      /\ old.candidates \subseteq OfKind("candidate")
      /\ old.critiques \subseteq OfKind("mechanism_critique")
      /\ old.mechanism \in {0} \cup OfKind("mechanism")
  BY DEF AnalysisRecords
<1>10. v \in AnalysisRecords
  <2>1. /\ v.kind \in {"analysis"} /\ v.selection \in OfKind("selection")
        /\ v.candidates \in SUBSET OfKind("candidate")
        /\ v.critiques \in SUBSET OfKind("mechanism_critique")
        /\ v.mechanism \in {0} \cup OfKind("mechanism")
        /\ v.status \in {"generated", "critiqued", "selected"}
    BY <1>5, <1>7, <1>9
  <2> QED BY <1>8, <2>1 DEF AnalysisRecords
<1> QED BY <1>6, <1>7, <1>9, <1>10

\* What the two steps that update an analysis have in common.
Updates(critique, mechanism, then) ==
    /\ UpdateAnalysis(critique, mechanism, then)
    /\ \/ at = "critiqued" /\ critique = {call.new} /\ mechanism = 0 /\ then = call.then
       \/ at = "selected" /\ critique = {} /\ mechanism = call.new /\ then = "done"

LEMMA UpdateAdds ==
    ASSUME AnalysisInv, NEW critique, NEW mechanism, NEW then, Updates(critique, mechanism, then),
           NEW s, s = stored[call.candidate].selection, CurrentAnalysis(s) # 0,
           NEW current, current = CurrentAnalysis(s),
           NEW v, v = Version(stored[current], critique, mechanism)
    PROVE  /\ critique \in SUBSET OfKind("mechanism_critique")
           /\ mechanism \in {0} \cup OfKind("mechanism")
           /\ current \in Analyses(s) /\ current \in Nat \ {0} /\ \A b \in Analyses(s) : b <= current
           /\ stored[current] \in AnalysisRecords /\ v \in AnalysisRecords
           /\ v.selection = s /\ v.candidates = stored[current].candidates
           /\ v.critiques = stored[current].critiques \cup critique
           /\ v.mechanism = IF mechanism = 0 THEN stored[current].mechanism ELSE mechanism
           /\ Rank(stored[current].status) <= Rank(v.status)
           /\ PutWithLinks(v, <<<<current, "supersedes">>>>, then, call)
<1>1. critique \in SUBSET OfKind("mechanism_critique") /\ mechanism \in {0} \cup OfKind("mechanism")
  BY UpdateReads DEF Updates, CritiquesOf, MechanismsOf
<1>2. current \in Analyses(s) /\ current \in Nat \ {0} /\ \A b \in Analyses(s) : b <= current
  <2>1. Analyses(s) # {}
    BY DEF CurrentAnalysis
  <2> QED BY <2>1, CurrentIsNewest DEF AnalysisInv, MechanismInv
<1>3. stored[current] \in AnalysisRecords /\ stored[current].selection = s
  BY <1>2 DEF Analyses, AnalysisInv, VersionsSound, VersionSound, AnalysisRecords
<1>4. PutWithLinks(v, <<<<current, "supersedes">>>>, then, call)
  BY DEF Updates, UpdateAnalysis, Version
<1> QED BY SMTT(20), <1>1, <1>2, <1>3, <1>4, VersionAdds

LEMMA UpdateAnalyses ==
    ASSUME AnalysisInv, MechanismInv', NEW critique, NEW mechanism, NEW then,
           Updates(critique, mechanism, then)
    PROVE  AnalysisInv'
<1> PICK s, current : s = stored[call.candidate].selection /\ current = CurrentAnalysis(s)
  OBVIOUS
<1>1. /\ Resumes = at /\ at \in {"critiqued", "selected"}
      /\ DOMAIN call = DOMAIN Locals /\ then \in {"done", "select"}
  BY UpdateReads DEF Updates
<1>2. CASE current = 0
  <2>1. at' = then /\ UNCHANGED <<stored, prov>> /\ deaths' = deaths
    BY <1>2 DEF Updates, UpdateAnalysis, Goto
  <2>2. Resumes' = then
    BY <1>1, <2>1 DEF Resumes
  <2>3. LinksLeftSound' /\ UnderWaySound'
    BY <1>1, <2>1, <2>2 DEF LinksLeftSound, UnderWaySound
  <2>4. deaths # 0
    BY <1>1, <1>2, UpdateReads
  <2> QED BY <2>1, <2>3, <2>4, QuietAnalyses DEF AnalysisInv
<1>3. CASE current # 0
  <2> PICK old, v : old = stored[current] /\ v = Version(old, critique, mechanism)
    OBVIOUS
  <2>1. /\ critique \in SUBSET OfKind("mechanism_critique")
        /\ mechanism \in {0} \cup OfKind("mechanism")
        /\ current \in Analyses(s) /\ current \in Nat \ {0} /\ \A b \in Analyses(s) : b <= current
        /\ old \in AnalysisRecords /\ v \in AnalysisRecords
        /\ v.selection = s /\ v.candidates = old.candidates
        /\ v.critiques = old.critiques \cup critique
        /\ v.mechanism = IF mechanism = 0 THEN old.mechanism ELSE mechanism
        /\ PutWithLinks(v, <<<<current, "supersedes">>>>, then, call)
    BY <1>3, UpdateAdds
  <2>2. /\ at' = "link" /\ Resumes' = then /\ Put(v) /\ prov' = prov /\ deaths' = deaths
        /\ call'.links = <<<<current, "supersedes">>>>
    <3>1. PICK links : links = <<<<current, "supersedes">>>>
      OBVIOUS
    <3>2. PutWithLinks(v, links, then, call) /\ then # "link"
      BY <1>1, <2>1, <3>1
    <3> QED BY <1>1, <3>1, <3>2, PutThenLinks
  <2>3. UnderWaySound'
    BY <1>1, <2>2 DEF UnderWaySound
  <2>4. LinksLeftSound'
    <3>1. /\ Grows /\ stored'[Latest + 1] = v
          /\ \A kind : OfKind(kind)' = IF v.kind = kind THEN OfKind(kind) \cup {Latest + 1}
                                                        ELSE OfKind(kind)
      BY <2>2, PutGrows DEF AnalysisInv, MechanismInv
    <3>2. PICK l \in Nat : l = Latest /\ Stored = 1 .. l
      BY <3>1 DEF Grows
    <3>3. v.kind = "analysis"
      BY <2>1 DEF AnalysisRecords
    <3>4. current \in OfKind("analysis") /\ stored[current].selection = s /\ current \in 1 .. l
      BY <2>1, <3>2 DEF Analyses, OfKind
    <3>5. stored'[current] = stored[current] /\ current \in OfKind("analysis")'
      BY <3>1, <3>4 DEF Grows, OfKind
    <3>6. l + 1 \in OfKind("analysis")' /\ stored'[l + 1].selection = s /\ l + 1 > current
      <4>1. l + 1 \in OfKind("analysis")'
        BY <3>1, <3>2, <3>3
      <4>2. stored'[l + 1].selection = s
        BY <2>1, <3>1, <3>2
      <4> QED BY <3>4, <4>1, <4>2
    <3>7. SupersededLater(current)'
      BY <3>4, <3>5, <3>6 DEF SupersededLater, Analyses
    <3>8. PICK link, links : link = <<current, "supersedes">> /\ links = <<link>>
      OBVIOUS
    <3>9. links \in Seq({link}) /\ links # <<>> /\ DOMAIN links = 1 .. 1 /\ links[1] = link
      BY <3>8
    <3>10. ToSet(links) = {link}
      BY <3>9 DEF ToSet
    <3>11. \A x \in ToSet(links) : x[1] = current
      BY <3>8, <3>10
    <3> QED BY <2>2, <3>7, <3>8, <3>9, <3>10, <3>11 DEF LinksLeftSound, ToSet, SupersededLater
  <2>5. /\ old.candidates \subseteq CandidatesFor(s)
        /\ old.candidates # {} => Generations(s) # {}
        /\ \A b \in Analyses(s) : stored[b].candidates \subseteq old.candidates
    <3>1. /\ VersionSound(current) /\ \A b \in Analyses(s) : VersionSound(b)
          /\ \A b \in Analyses(s) : stored[b].selection = s
      BY <2>1 DEF Analyses, AnalysisInv, VersionsSound
    <3>2. /\ old.candidates \subseteq CandidatesFor(s)
          /\ old.candidates # {} => Generations(s) # {}
      BY <2>1, <3>1 DEF VersionSound
    <3>3. \A b \in Analyses(s) : stored[b].candidates \subseteq old.candidates
      BY <2>1, <3>1 DEF VersionSound
    <3> QED BY <3>2, <3>3
  <2>6. ASSUME deaths = 0
        PROVE  /\ \A k \in OfKind("mechanism_critique") \cup OfKind("mechanism") :
                     Pending(k) => stored[k].candidate \in CandidatesFor(s)
               /\ KnowsAs(v)
    <3>1. PICK c, new : c = call.candidate /\ new = call.new
      OBVIOUS
    <3>2. /\ c \in CandidatesFor(s) /\ c \in old.candidates
          /\ at = "critiqued" => new \in OfKind("mechanism_critique") /\ stored[new].candidate = c
          /\ at = "selected" => /\ new \in OfKind("mechanism") /\ stored[new].candidate = c
                                /\ \A m \in OfKind("mechanism") : m <= new
      BY <1>1, <2>6, <3>1, UpdateReads DEF CritiquesOf, MechanismsOf
    <3>3. \A k : Pending(k) <=> k = new
      BY <1>1, <3>1 DEF Pending
    <3>4. \A k : ~ (k \in OfKind("mechanism_critique") /\ k \in OfKind("mechanism"))
      BY DEF OfKind
    <3>5. KnowsAll(current)
      <4>1. Newest(current) /\ current \in OfKind("analysis")
        BY <2>1 DEF Newest, Analyses
      <4> QED BY <2>6, <4>1 DEF AnalysisInv, CompleteSound
    <3>6. /\ old.critiques = {k \in OfKind("mechanism_critique") :
                                 stored[k].candidate \in old.candidates /\ k # new}
          /\ \A m \in OfKind("mechanism") :
                stored[m].candidate \in old.candidates /\ m # new => m <= old.mechanism
          /\ old.mechanism # 0 => stored[old.mechanism].candidate \in old.candidates
      BY <3>3, <3>5 DEF KnowsAll
    <3>7. CASE at = "critiqued"
      <4>1. critique = {new} /\ mechanism = 0
        BY <3>1, <3>7 DEF Updates
      <4>2. v.critiques = {k \in OfKind("mechanism_critique") : stored[k].candidate \in old.candidates}
        <5>1. new \in OfKind("mechanism_critique") /\ stored[new].candidate \in old.candidates
          BY <3>2, <3>7
        <5>2. v.critiques = old.critiques \cup {new}
          BY <2>1, <4>1
        <5> QED BY <3>6, <5>1, <5>2
      <4>3. \A m \in OfKind("mechanism") : stored[m].candidate \in old.candidates => m <= old.mechanism
        BY <3>2, <3>4, <3>6, <3>7
      <4>4. v.mechanism = old.mechanism /\ v.candidates = old.candidates
        BY <2>1, <4>1
      <4>5. KnowsAs(v)
        BY <3>6, <4>2, <4>3, <4>4 DEF KnowsAs
      <4> QED BY <3>2, <3>3, <3>7, <4>5
    <3>8. CASE at = "selected"
      <4>1. critique = {} /\ mechanism = new
        BY <3>1, <3>8 DEF Updates
      <4>2. new # 0
        BY <3>2, <3>8 DEF AnalysisInv, MechanismInv, StoredSound, OfKind, Stored
      <4>3. v.critiques = {k \in OfKind("mechanism_critique") : stored[k].candidate \in old.candidates}
        BY <2>1, <3>2, <3>4, <3>6, <3>8, <4>1
      <4>4. v.mechanism = new
        BY <2>1, <4>1, <4>2
      <4> QED BY <2>1, <3>2, <3>3, <3>8, <4>3, <4>4 DEF KnowsAs
    <3> QED BY <1>1, <3>7, <3>8
  <2>7. \A c : ~ Making(c)
    BY <1>1 DEF Making
  <2> QED BY <1>1, <2>1, <2>2, <2>3, <2>4, <2>5, <2>6, <2>7, AnalysisAdded
<1> QED BY <1>2, <1>3

LEMMA AnalysisInductive ==
    ASSUME AnalysisInv, [MechanismNext]_researchVars
    PROVE  AnalysisInv'
<1>0. MechanismInv'
  BY MechanismInductive DEF AnalysisInv
<1>1. CASE UNCHANGED researchVars
  <2>1. UNCHANGED <<stored, prov, at, call, deaths>>
    BY <1>1 DEF researchVars
  <2>2. \A kind : OfKind(kind)' = OfKind(kind)
    BY <2>1, QuietKeepsKinds DEF AnalysisInv, MechanismInv
  <2>3. Resumes' = Resumes
    BY <2>1 DEF Resumes
  <2>4. LinksLeftSound'
    BY <2>1, <2>2 DEF AnalysisInv, LinksLeftSound, SupersededLater, Analyses, ToSet
  <2>5. UnderWaySound'
    BY <2>1, <2>2, <2>3 DEF AnalysisInv, UnderWaySound, CandidatesFor, Analyses, Generations,
       CritiquesOf, MechanismsOf
  <2>6. KnownStays
    BY <2>1, <2>2, <2>3 DEF KnownStays, Making, Pending
  <2> QED BY <1>0, <2>1, <2>4, <2>5, <2>6, QuietAnalyses DEF AnalysisInv
<1>2. CASE MechanismNext
  <2>1. CASE \E named \in ToSet(Gaps) \cup {0}, approved \in BOOLEAN : SelectGap(named, approved)
    BY <1>0, <2>1, SelectGapAnalyses
  <2>2. ASSUME NothingNew PROVE AnalysisInv'
    BY <1>0, <2>2, IdleAnalyses DEF NothingNew, Resumes, AnalysisInv
  <2>3. CASE PutSelectedGap
    BY <1>0, <2>3, PutSelectedGapAnalyses
  <2>4. ASSUME NEW s \in OfKind("selection"), NEW proposals \in Proposals, Generate(s, proposals)
        PROVE  AnalysisInv'
    BY <1>0, <2>4, CallsBeginAnalyses
  <2>5. ASSUME NEW s \in OfKind("selection"), GenerationFails(s)
        PROVE  AnalysisInv'
    BY <1>0, <2>5, GenerationFailsAnalyses
  <2>6. CASE PutCandidate \/ PutExecution \/ PutAnalysis
    BY <1>0, <2>6, PutCandidateAnalyses, PutGenerationAnalyses, PutAnalysisAnalyses
  <2>7. ASSUME NEW c \in OfKind("candidate"), Critique(c) \/ SelectMechanism(c)
        PROVE  AnalysisInv'
    BY <1>0, <2>7, CallsBeginAnalyses
  <2>8. CASE CritiqueFails \/ Done
    BY <1>0, <2>8, IdleAnalyses DEF CritiqueFails, Done, Return, Resumes, AnalysisInv
  <2>9. CASE Die
    <3>1. deaths' \in Nat /\ deaths' # 0 /\ at' = "idle" /\ UNCHANGED <<stored, prov>>
      BY <2>9 DEF Die, AnalysisInv
    <3> QED BY <1>0, <3>1, IdleAnalyses
  <2>10. CASE PutCritique \/ PutMechanism \/ LinkNext
    BY <1>0, <2>10, PutCritiqueAnalyses, PutMechanismAnalyses, LinkNextAnalyses
  <2>11. CASE AnalysisCritiqued
    BY <1>0, <2>11, UpdateAnalyses DEF AnalysisCritiqued, Updates
  <2>12. CASE AnalysisSelected
    BY <1>0, <2>12, UpdateAnalyses DEF AnalysisSelected, Updates
  <2> QED BY <1>2, <2>1, <2>2, <2>3, <2>4, <2>5, <2>6, <2>7, <2>8, <2>9, <2>10, <2>11, <2>12
       DEF MechanismNext, SelectGapAgain, GenerateAgainOrRefused, CritiqueAgain, SelectMechanismAgain
<1> QED BY <1>1, <1>2

(* Who adds an analysis of a selection, and which.                          *)
AddsAnalysis(s) ==
    \/ /\ PutAnalysis /\ s = call.selection
    \/ \E critique, mechanism, then :
          /\ Updates(critique, mechanism, then)
          /\ s = stored[call.candidate].selection /\ CurrentAnalysis(s) # 0

LEMMA OtherKindPut ==
    ASSUME StoredSound, NEW a, Put(a), a.kind # "analysis"
    PROVE  \A s : Analyses(s)' = Analyses(s)
<1>1. /\ Grows
      /\ OfKind("analysis")' = OfKind("analysis")
  BY PutGrows
<1>2. \A i \in OfKind("analysis") : stored'[i] = stored[i]
  BY <1>1 DEF Grows, OfKind
<1> QED BY <1>1, <1>2 DEF Analyses

LEMMA AnalysisPut ==
    ASSUME StoredSound, NEW v, Put(v), v.kind = "analysis"
    PROVE  /\ stored'[Latest + 1] = v
           /\ \A s : Analyses(s)' = IF v.selection = s THEN Analyses(s) \cup {Latest + 1} ELSE Analyses(s)
<1>1. /\ Grows /\ stored'[Latest + 1] = v
      /\ OfKind("analysis")' = OfKind("analysis") \cup {Latest + 1}
  BY PutGrows
<1>2. \A i \in OfKind("analysis") : stored'[i] = stored[i]
  BY <1>1 DEF Grows, OfKind
<1> QED BY <1>1, <1>2 DEF Analyses

LEMMA AnalysesSame ==
    ASSUME AnalysisInv, [MechanismNext]_researchVars, NEW s, ~ AddsAnalysis(s)
    PROVE  Analyses(s)' = Analyses(s) /\ \A i \in Stored : stored'[i] = stored[i]
<1>1. StoredSound
  BY DEF AnalysisInv, MechanismInv
<1>2. ASSUME UNCHANGED stored
      PROVE  Analyses(s)' = Analyses(s) /\ \A i \in Stored : stored'[i] = stored[i]
  <2>1. \A kind : OfKind(kind)' = OfKind(kind)
    BY <1>1, <1>2, QuietKeepsKinds
  <2> QED BY <1>2, <2>1 DEF Analyses
<1>3. ASSUME NEW a, Put(a), a.kind # "analysis" \/ a.selection # s
      PROVE  Analyses(s)' = Analyses(s) /\ \A i \in Stored : stored'[i] = stored[i]
  <2>1. \A i \in Stored : stored'[i] = stored[i]
    BY <1>1, <1>3, PutGrows DEF Grows
  <2>2. CASE a.kind = "analysis"
    BY <1>1, <1>3, <2>1, <2>2, AnalysisPut
  <2>3. CASE a.kind # "analysis"
    BY <1>1, <1>3, <2>1, <2>3, OtherKindPut
  <2> QED BY <2>2, <2>3
<1>4. CASE UNCHANGED researchVars
  BY <1>2, <1>4 DEF researchVars
<1>5. ASSUME NEW named \in ToSet(Gaps) \cup {0}, NEW approved \in BOOLEAN, SelectGap(named, approved)
      PROVE  \E a : Put(a) /\ a.kind # "analysis"
  <2>1. PICK a : a = [kind |-> "selection", gap |-> Chosen(named),
                      status |-> IF approved THEN "approved" ELSE "rejected"]
    OBVIOUS
  <2> QED BY <1>5, <2>1 DEF SelectGap
<1>6. ASSUME PutSelectedGap PROVE \E a : Put(a) /\ a.kind # "analysis"
  <2>1. PICK a : a = [kind |-> "gap", of |-> call.gap, selection |-> call.selection]
    OBVIOUS
  <2> QED BY <1>6, <2>1 DEF PutSelectedGap, PutWithLinks
<1>7. ASSUME NEW x, GenerationFails(x) PROVE \E a : Put(a) /\ a.kind # "analysis"
  <2>1. PICK a : a = [kind |-> "generation", selection |-> x, created |-> <<>>, rejected |-> 0]
    OBVIOUS
  <2> QED BY <1>7, <2>1 DEF GenerationFails
<1>8. ASSUME PutCandidate PROVE UNCHANGED stored \/ \E a : Put(a) /\ a.kind # "analysis"
  <2>1. PICK a : a = [kind |-> "candidate", selection |-> call.selection]
    OBVIOUS
  <2>2. CASE Head(call.todo)
    <3>1. Put(a)
      BY <1>8, <2>1, <2>2 DEF PutCandidate, PutWithLinks
    <3> QED BY <2>1, <3>1
  <2>3. CASE ~ Head(call.todo)
    BY <1>8, <2>3 DEF PutCandidate
  <2> QED BY <2>2, <2>3
<1>9. ASSUME PutExecution PROVE \E a : Put(a) /\ a.kind # "analysis"
  <2>1. PICK a : a = [kind |-> "generation", selection |-> call.selection, created |-> call.made,
                      rejected |-> call.rejected]
    OBVIOUS
  <2> QED BY <1>9, <2>1 DEF PutExecution
<1>10. ASSUME PutAnalysis PROVE \E a : Put(a) /\ a.selection # s
  <2>1. PICK v : v = [kind |-> "analysis", selection |-> call.selection,
                      candidates |-> ToSet(call.made), critiques |-> {}, mechanism |-> 0,
                      status |-> "generated"]
    OBVIOUS
  <2>2. Put(v) /\ v.selection = call.selection
    BY <1>10, <2>1 DEF PutAnalysis, PutWithLinks
  <2>3. call.selection # s
    BY <1>10 DEF AddsAnalysis
  <2> QED BY <2>2, <2>3
<1>11. ASSUME PutCritique PROVE \E a : Put(a) /\ a.kind # "analysis"
  <2>1. PICK a : a = [kind |-> "mechanism_critique", candidate |-> call.candidate]
    OBVIOUS
  <2> QED BY <1>11, <2>1 DEF PutCritique, PutWithLinks
<1>12. ASSUME PutMechanism PROVE \E a : Put(a) /\ a.kind # "analysis"
  <2>1. PICK a : a = [kind |-> "mechanism", candidate |-> call.candidate,
                      critiques |-> CritiquesOf(call.candidate)]
    OBVIOUS
  <2> QED BY <1>12, <2>1 DEF PutMechanism, PutWithLinks
<1>13. ASSUME NEW critique, NEW mechanism, NEW then, Updates(critique, mechanism, then)
       PROVE  UNCHANGED stored \/ \E a : Put(a) /\ a.selection # s
  <2>1. PICK t, current : t = stored[call.candidate].selection /\ current = CurrentAnalysis(t)
    OBVIOUS
  <2>2. CASE current = 0
    BY <1>13, <2>1, <2>2 DEF Updates, UpdateAnalysis
  <2>3. CASE current # 0
    <3>1. PICK v : v = Version(stored[current], critique, mechanism)
      OBVIOUS
    <3>2. v.selection = t /\ PutWithLinks(v, <<<<current, "supersedes">>>>, then, call)
      BY <1>13, <2>1, <2>3, <3>1, UpdateAdds
    <3>3. t # s
      BY <1>13, <2>1, <2>3 DEF AddsAnalysis
    <3> QED BY <3>2, <3>3 DEF PutWithLinks
  <2> QED BY <2>2, <2>3
<1>14. CASE MechanismNext
  <2>1. CASE \E named \in ToSet(Gaps) \cup {0}, approved \in BOOLEAN : SelectGap(named, approved)
    BY <1>3, <1>5, <2>1
  <2>2. ASSUME NothingNew
        PROVE  Analyses(s)' = Analyses(s) /\ \A i \in Stored : stored'[i] = stored[i]
    BY <1>2, <2>2 DEF NothingNew
  <2>3. CASE PutSelectedGap
    BY <1>3, <1>6, <2>3
  <2>4. ASSUME NEW x, NEW proposals, Generate(x, proposals) \/ Critique(x) \/ SelectMechanism(x)
        PROVE  Analyses(s)' = Analyses(s) /\ \A i \in Stored : stored'[i] = stored[i]
    BY <1>2, <2>4 DEF Generate, Critique, SelectMechanism
  <2>5. ASSUME NEW x, GenerationFails(x)
        PROVE  Analyses(s)' = Analyses(s) /\ \A i \in Stored : stored'[i] = stored[i]
    BY <1>3, <1>7, <2>5
  <2>6. CASE PutCandidate
    BY <1>2, <1>3, <1>8, <2>6
  <2>7. CASE PutExecution
    BY <1>3, <1>9, <2>7
  <2>8. CASE PutAnalysis
    BY <1>3, <1>10, <2>8
  <2>9. CASE PutCritique
    BY <1>3, <1>11, <2>9
  <2>10. CASE PutMechanism
    BY <1>3, <1>12, <2>10
  <2>11. CASE AnalysisCritiqued
    <3>1. Updates({call.new}, 0, call.then)
      BY <2>11 DEF AnalysisCritiqued, Updates
    <3> QED BY <1>2, <1>3, <1>13, <3>1
  <2>12. CASE AnalysisSelected
    <3>1. Updates({}, call.new, "done")
      BY <2>12 DEF AnalysisSelected, Updates
    <3> QED BY <1>2, <1>3, <1>13, <3>1
  <2>13. CASE LinkNext \/ Done \/ Die \/ CritiqueFails
    BY <1>2, <2>13 DEF LinkNext, Done, Die, CritiqueFails
  <2> QED BY <1>14, <2>1, <2>2, <2>3, <2>4, <2>5, <2>6, <2>7, <2>8, <2>9, <2>10, <2>11, <2>12, <2>13
       DEF MechanismNext, SelectGapAgain, GenerateAgainOrRefused, CritiqueAgain, SelectMechanismAgain
<1> QED BY <1>4, <1>14

\* In the state after a step as in the one before it.
NewestInForce ==
    StoredSound /\ SupersedingSound =>
       \A s : Analyses(s) # {} =>
          /\ CurrentAnalysis(s) \in Analyses(s) /\ CurrentAnalysis(s) \in Nat
          /\ \A b \in Analyses(s) : b <= CurrentAnalysis(s)

LEMMA NewestInForceNow == NewestInForce
  BY CurrentIsNewest DEF NewestInForce

LEMMA NewestInForceNext == NewestInForce'
  BY NewestInForceNow, PTL

(* What an analysis in force loses in a step: nothing.                      *)
LEMMA StepKeeps ==
    ASSUME AnalysisInv, AnalysisInv', [MechanismNext]_researchVars, NEW s, CurrentAnalysis(s) # 0,
           NEW old, old = stored[CurrentAnalysis(s)], old.candidates # {},
           NEW new, new = stored'[CurrentAnalysis(s)']
    PROVE  /\ old.critiques \subseteq new.critiques
           /\ Rank(old.status) <= Rank(new.status)
           /\ old.mechanism # 0 => new.mechanism >= old.mechanism
<1> PICK current : current = CurrentAnalysis(s)
  OBVIOUS
<1>1. /\ current \in Analyses(s) /\ current \in Nat \ {0} /\ \A b \in Analyses(s) : b <= current
      /\ old \in AnalysisRecords
  <2>1. Analyses(s) # {}
    BY DEF CurrentAnalysis
  <2>2. /\ current \in Analyses(s) /\ current \in Nat \ {0} /\ \A b \in Analyses(s) : b <= current
    BY <2>1, CurrentIsNewest DEF AnalysisInv, MechanismInv
  <2> QED BY <2>2 DEF Analyses, AnalysisInv, VersionsSound, VersionSound, AnalysisRecords
<1>2. PICK later : later = CurrentAnalysis(s)'
  OBVIOUS
<1>3. Analyses(s)' # {} => /\ later \in Analyses(s)' /\ later \in Nat
                           /\ \A b \in Analyses(s)' : b <= later
  <2>1. StoredSound' /\ SupersedingSound'
    BY DEF AnalysisInv, MechanismInv
  <2>2. \A t : Analyses(t)' # {} => /\ CurrentAnalysis(t)' \in Analyses(t)' /\ CurrentAnalysis(t)' \in Nat
                                   /\ \A b \in Analyses(t)' : b <= CurrentAnalysis(t)'
    BY <2>1, NewestInForceNext DEF NewestInForce
  <2> QED BY <1>2, <2>2
<1>4. old.status \in {"generated", "critiqued", "selected"} /\ old.mechanism \in Int
  <2>1. \A m \in OfKind("mechanism") : m \in Int
    BY QuietGrows DEF AnalysisInv, MechanismInv, StoredSound, OfKind, Stored
  <2> QED BY <1>1, <2>1 DEF AnalysisRecords
<1>5. CASE ~ AddsAnalysis(s)
  <2>1. Analyses(s)' = Analyses(s) /\ \A i \in Stored : stored'[i] = stored[i]
    BY <1>5, AnalysesSame
  <2>2. later = current
    BY <1>1, <1>3, <2>1
  <2>3. new = old
    BY <1>1, <1>2, <2>1, <2>2 DEF Analyses, OfKind
  <2> QED BY <1>4, <2>3, Ranks
<1>6. CASE PutAnalysis /\ s = call.selection
  <2>1. \A a \in Analyses(s) : stored[a].candidates = {}
    BY <1>6 DEF PutAnalysis, Resumes, AnalysisInv, UnderWaySound
  <2> QED BY <1>1, <2>1
<1>7. ASSUME NEW critique, NEW mechanism, NEW then, Updates(critique, mechanism, then),
             s = stored[call.candidate].selection
      PROVE  /\ old.critiques \subseteq new.critiques
             /\ Rank(old.status) <= Rank(new.status)
             /\ old.mechanism # 0 => new.mechanism >= old.mechanism
  <2>1. PICK v : v = Version(stored[current], critique, mechanism)
    OBVIOUS
  <2>2. /\ v \in AnalysisRecords /\ v.selection = s
        /\ v.critiques = old.critiques \cup critique
        /\ v.mechanism = IF mechanism = 0 THEN old.mechanism ELSE mechanism
        /\ Rank(old.status) <= Rank(v.status)
        /\ PutWithLinks(v, <<<<current, "supersedes">>>>, then, call)
        /\ mechanism \in {0} \cup OfKind("mechanism")
    BY <1>7, <2>1, UpdateAdds
  <2>3. Put(v) /\ v.kind = "analysis"
    BY <2>2 DEF PutWithLinks, AnalysisRecords
  <2>4. stored'[Latest + 1] = v /\ Analyses(s)' = Analyses(s) \cup {Latest + 1}
    BY <2>2, <2>3, AnalysisPut DEF AnalysisInv, MechanismInv
  <2>5. PICK l \in Nat : l = Latest /\ Stored = 1 .. l
    BY <2>3, PutGrows DEF AnalysisInv, MechanismInv, Grows
  <2>6. \A b \in Analyses(s) : b \in 1 .. l
    BY <2>5 DEF Analyses, OfKind
  <2>7. later = l + 1
    <3>1. PICK A : A = Analyses(s)' /\ A = Analyses(s) \cup {l + 1}
      BY <2>4, <2>5
    <3>2. later \in A /\ later \in Nat /\ \A b \in A : b <= later
      BY <1>3, <3>1
    <3>3. l + 1 <= later /\ (later \in 1 .. l \/ later = l + 1)
      BY <2>6, <3>1, <3>2
    <3> QED BY <3>3
  <2>8. new = v
    BY <1>2, <2>4, <2>5, <2>7
  <2>9. mechanism # 0 => old.mechanism < mechanism
    <3>1. mechanism # 0 => at = "selected" /\ mechanism = call.new
      BY <1>7 DEF Updates
    <3>2. at = "selected" => \A a \in OfKind("analysis") : stored[a].mechanism < call.new
      BY UpdateReads
    <3> QED BY <1>1, <3>1, <3>2 DEF Analyses
  <2>10. mechanism \in Int
    <3>1. \A m \in OfKind("mechanism") : m \in Int
      BY <2>5 DEF OfKind
    <3> QED BY <2>2, <3>1
  <2> QED BY <1>4, <2>2, <2>8, <2>9, <2>10
<1> QED BY <1>5, <1>6, <1>7 DEF AddsAnalysis

(* Between calls, and without a death, the analysis in force knows all.     *)
LEMMA IdleKnows ==
    ASSUME AnalysisInv, deaths = 0, at = "idle", NEW s, CurrentAnalysis(s) # 0,
           NEW old, old = stored[CurrentAnalysis(s)]
    PROVE  /\ old.critiques = {k \in OfKind("mechanism_critique") :
                                  stored[k].candidate \in old.candidates}
           /\ old.mechanism = Max({0} \cup {m \in OfKind("mechanism") :
                                               stored[m].candidate \in old.candidates})
<1> PICK current : current = CurrentAnalysis(s)
  OBVIOUS
<1>1. current \in OfKind("analysis") /\ Newest(current)
  <2>1. Analyses(s) # {}
    BY DEF CurrentAnalysis
  <2>2. current \in Analyses(s) /\ \A b \in Analyses(s) : b <= current
    BY <2>1, CurrentIsNewest DEF AnalysisInv, MechanismInv
  <2> QED BY <2>2 DEF Newest, Analyses
<1>2. \A k : ~ Pending(k)
  BY DEF Pending, Resumes
<1>3. KnowsAll(current)
  BY <1>1 DEF AnalysisInv, CompleteSound
<1>4. old.critiques = {k \in OfKind("mechanism_critique") : stored[k].candidate \in old.candidates}
  BY <1>2, <1>3 DEF KnowsAll
<1>5. PICK S : S = {0} \cup {m \in OfKind("mechanism") : stored[m].candidate \in old.candidates}
  OBVIOUS
<1>6. \A m \in S : m \in Nat
  BY <1>5 DEF AnalysisInv, MechanismInv, StoredSound, OfKind, Stored
<1>7. old.mechanism \in {0} \cup OfKind("mechanism")
  BY <1>1 DEF AnalysisInv, VersionsSound, VersionSound
<1>8. old.mechanism \in S
  BY <1>3, <1>5, <1>7 DEF KnowsAll
<1>9. \A m \in S : old.mechanism >= m
  <2>1. \A m \in OfKind("mechanism") : stored[m].candidate \in old.candidates => m <= old.mechanism
    BY <1>2, <1>3 DEF KnowsAll
  <2>2. PICK top : top = old.mechanism /\ top \in Nat
    BY <1>6, <1>8
  <2>3. ASSUME NEW m \in S PROVE top >= m
    <3>1. CASE m = 0
      BY <2>2, <3>1
    <3>2. CASE m # 0
      <4>1. m \in Nat /\ m <= top
        BY <1>5, <1>6, <2>1, <2>2, <2>3, <3>2
      <4> QED BY <2>2, <4>1
    <3> QED BY <3>1, <3>2
  <2> QED BY <2>2, <2>3
<1>10. PICK m : m = old.mechanism
  OBVIOUS
<1>11. \A x \in S : (\A y \in S : x >= y) => x = m
  BY <1>6, <1>8, <1>9, <1>10
<1>12. (CHOOSE x \in S : \A y \in S : x >= y) = m
  BY <1>8, <1>9, <1>10, <1>11
<1> QED BY <1>4, <1>5, <1>10, <1>12 DEF Max

LEMMA AnalysesInit == NothingStored => AnalysisInv
<1> SUFFICES ASSUME NothingStored PROVE AnalysisInv
  OBVIOUS
<1>1. /\ StoredSound /\ at = "idle" /\ \A kind : OfKind(kind) = {}
      /\ prov = {} /\ deaths = 0 /\ stored = <<>> /\ Resumes = "idle"
  BY NothingIsStored DEF NothingStored, Resumes
<1>2. MechanismInv
  BY <1>1 DEF MechanismInv, MechanismCallSound, CandidatesSound, MechanismsEarned, KindsKnown,
     Stored, Standing
<1> QED BY <1>1, <1>2 DEF AnalysisInv, SupersedingSound, LinksLeftSound, VersionsSound, UnderWaySound,
     CompleteSound

(* Whatever is generated, criticised and selected, again or cut short: the  *)
(* analysis in force forgets no critique and never goes back, and where no  *)
(* call was cut short it knows every critique and the last mechanism.       *)
THEOREM AnalysesKeep == MechanismSpec => [][AnalysisKeeps]_researchVars
<1>1. AnalysisInv /\ [MechanismNext]_researchVars => AnalysisInv'
  BY AnalysisInductive
<1>2. AnalysisInv /\ AnalysisInv' /\ [MechanismNext]_researchVars => [AnalysisKeeps]_researchVars
  <2> SUFFICES ASSUME AnalysisInv, AnalysisInv', [MechanismNext]_researchVars PROVE AnalysisKeeps
    OBVIOUS
  <2> SUFFICES ASSUME NEW s \in OfKind("selection"), CurrentAnalysis(s) # 0,
                      NEW old, old = stored[CurrentAnalysis(s)],
                      NEW new, new = stored'[CurrentAnalysis(s)']
               PROVE  /\ old.candidates # {} =>
                            /\ old.critiques \subseteq new.critiques
                            /\ Rank(old.status) <= Rank(new.status)
                            /\ old.mechanism # 0 => new.mechanism >= old.mechanism
                      /\ deaths = 0 /\ at = "idle" =>
                            /\ old.critiques = {k \in OfKind("mechanism_critique") :
                                                  stored[k].candidate \in old.candidates}
                            /\ old.mechanism = Max({0} \cup {m \in OfKind("mechanism") :
                                                     stored[m].candidate \in old.candidates})
    BY DEF AnalysisKeeps
  <2>1. old.candidates # {} =>
            /\ old.critiques \subseteq new.critiques
            /\ Rank(old.status) <= Rank(new.status)
            /\ old.mechanism # 0 => new.mechanism >= old.mechanism
    BY StepKeeps
  <2>2. deaths = 0 /\ at = "idle" =>
            /\ old.critiques = {k \in OfKind("mechanism_critique") :
                                  stored[k].candidate \in old.candidates}
            /\ old.mechanism = Max({0} \cup {m \in OfKind("mechanism") :
                                     stored[m].candidate \in old.candidates})
    BY IdleKnows
  <2> QED BY <2>1, <2>2
<1> QED BY <1>1, <1>2, AnalysesInit, PTL DEF MechanismSpec

-----------------------------------------------------------------------------
(* Publication                                                              *)
\* f holds those of the first n of a list that are in a set, for each n up to m.
Amongs(f, list, set, m) ==
    f = [n \in 0 .. m |-> IF n = 0 THEN <<>>
                          ELSE IF list[n] \in set THEN Append(f[n - 1], list[n]) ELSE f[n - 1]]

(* There are such for every number.                                         *)
LEMMA AmongsExist == \A list, set : \A n \in Nat : \E f : Amongs(f, list, set, n)
<1> SUFFICES ASSUME NEW list, NEW set PROVE \A n \in Nat : \E f : Amongs(f, list, set, n)
  OBVIOUS
<1> DEFINE Next(n, before) == IF list[n] \in set THEN Append(before, list[n]) ELSE before
           without == {n \in Nat : ~\E f : Amongs(f, list, set, n)}
<1> SUFFICES ASSUME without # {} PROVE FALSE
  OBVIOUS
<1>1. PICK n \in without : \A m \in without : n <= m
  BY FirstPlace
<1>2. n # 0
  <2> DEFINE f == [k \in 0 .. 0 |-> <<>>]
  <2>1. f = [k \in 0 .. 0 |-> IF k = 0 THEN <<>> ELSE Next(k, f[k - 1])]
    OBVIOUS
  <2>2. Amongs(f, list, set, 0)
    BY <2>1 DEF Amongs
  <2> QED BY <1>1, <2>2
<1>3. n \in Nat /\ n - 1 \in Nat /\ ~(n <= n - 1)
  BY <1>1, <1>2
<1>4. PICK f : Amongs(f, list, set, n - 1)
  BY <1>1, <1>3
<1> DEFINE g == [k \in 0 .. n |-> IF k = n THEN Next(n, f[n - 1]) ELSE f[k]]
<1>5. \A k \in 0 .. n - 1 : f[k] = IF k = 0 THEN <<>> ELSE Next(k, f[k - 1])
  BY <1>4 DEF Amongs
<1>6. \A k \in 0 .. n : g[k] = IF k = 0 THEN <<>> ELSE Next(k, g[k - 1])
  <2> SUFFICES ASSUME NEW k \in 0 .. n
               PROVE  g[k] = IF k = 0 THEN <<>> ELSE Next(k, g[k - 1])
    OBVIOUS
  <2> HIDE DEF Next
  <2>1. CASE k = n
    <3>1. g[k] = Next(k, f[k - 1]) /\ k # 0
      BY <1>3, <2>1
    <3>2. g[k - 1] = f[k - 1]
      BY <1>3, <2>1
    <3> QED BY <3>1, <3>2
  <2>2. CASE k # n
    <3>1. k \in 0 .. n - 1 /\ g[k] = f[k]
      BY <1>3, <2>2
    <3>2. k # 0 => g[k - 1] = f[k - 1]
      BY <1>3, <2>2
    <3> QED BY <1>5, <3>1, <3>2
  <2> QED BY <2>1, <2>2
<1>7. g = [k \in 0 .. n |-> IF k = 0 THEN <<>> ELSE Next(k, g[k - 1])]
  <2> DEFINE h == [k \in 0 .. n |-> IF k = 0 THEN <<>> ELSE Next(k, g[k - 1])]
  <2>1. DOMAIN g = 0 .. n /\ DOMAIN h = 0 .. n
    OBVIOUS
  <2>2. \A k \in 0 .. n : h[k] = IF k = 0 THEN <<>> ELSE Next(k, g[k - 1])
    OBVIOUS
  <2>3. \A k \in 0 .. n : g[k] = h[k]
    BY <1>6, <2>2
  <2> QED BY <2>1, <2>3
<1>8. Amongs(g, list, set, n)
  BY <1>7 DEF Amongs
<1> HIDE DEF g
<1> QED BY <1>1, <1>8

(* Those of a list that are in a set: all of them, in the list's order.     *)
LEMMA AmongLists ==
    ASSUME NEW T, NEW list \in Seq(T), NEW set
    PROVE  /\ Among(list, set) \in Seq(T)
           /\ ToSet(Among(list, set)) = ToSet(list) \cap set
           /\ IsInjective(list) =>
                 \A a, b \in DOMAIN Among(list, set), i, j \in DOMAIN list :
                    Among(list, set)[a] = list[i] /\ Among(list, set)[b] = list[j] /\ i < j => a < b
<1> DEFINE N == Len(list)
           among == CHOOSE f : Amongs(f, list, set, N)
<1>1. N \in Nat /\ DOMAIN list = 1 .. N
  OBVIOUS
<1>2. Among(list, set) = among[N]
  BY DEF Among, Amongs
<1>3. Amongs(among, list, set, N)
  BY <1>1, AmongsExist
<1> HIDE DEF among
<1>4. /\ among[0] = <<>>
      /\ \A n \in 1 .. N : among[n] = IF list[n] \in set THEN Append(among[n - 1], list[n]) ELSE among[n - 1]
  <2>1. \A n \in 0 .. N :
           among[n] = IF n = 0 THEN <<>>
                      ELSE IF list[n] \in set THEN Append(among[n - 1], list[n]) ELSE among[n - 1]
    BY <1>3 DEF Amongs
  <2>2. 0 \in 0 .. N /\ \A n \in 1 .. N : n \in 0 .. N /\ n # 0
    BY <1>1
  <2> QED BY <2>1, <2>2
<1> DEFINE Sound(n) ==
              /\ among[n] \in Seq(T)
              /\ \A a \in DOMAIN among[n] : \E i \in 1 .. n : among[n][a] = list[i] /\ list[i] \in set
              /\ \A i \in 1 .. n : list[i] \in set => \E a \in DOMAIN among[n] : among[n][a] = list[i]
              /\ IsInjective(list) =>
                    \A a, b \in DOMAIN among[n], i, j \in 1 .. n :
                       among[n][a] = list[i] /\ among[n][b] = list[j] /\ i < j => a < b
           bad == {n \in 0 .. N : ~Sound(n)}
<1>5. Sound(0)
  <2>1. among[0] = <<>> /\ 1 .. 0 = {} /\ DOMAIN among[0] = {}
    BY <1>4
  <2> QED BY <2>1
<1>6. ASSUME NEW n \in 1 .. N, Sound(n - 1)
      PROVE  Sound(n)
  <2>1. /\ n - 1 \in 0 .. N /\ 1 .. n = (1 .. n - 1) \cup {n} /\ n \notin 1 .. n - 1
        /\ list[n] \in T /\ n \in DOMAIN list
    BY <1>1
  <2>2. CASE list[n] \notin set
    <3>1. among[n] = among[n - 1]
      BY <1>4, <2>2
    <3> DEFINE same == among[n]
    <3>2. /\ same \in Seq(T)
          /\ \A a \in DOMAIN same : \E i \in 1 .. n - 1 : same[a] = list[i] /\ list[i] \in set
          /\ \A i \in 1 .. n - 1 : list[i] \in set => \E a \in DOMAIN same : same[a] = list[i]
          /\ IsInjective(list) =>
                \A a, b \in DOMAIN same, i, j \in 1 .. n - 1 :
                   same[a] = list[i] /\ same[b] = list[j] /\ i < j => a < b
      BY <1>6, <3>1
    <3> HIDE DEF same
    <3>3. ASSUME NEW a \in DOMAIN same PROVE same[a] # list[n]
      BY <2>2, <3>2
    <3>4. \A a \in DOMAIN same : \E i \in 1 .. n : same[a] = list[i] /\ list[i] \in set
      BY <2>1, <3>2
    <3>5. \A i \in 1 .. n : list[i] \in set => \E a \in DOMAIN same : same[a] = list[i]
      BY <2>1, <2>2, <3>2
    <3>6. IsInjective(list) =>
             \A a, b \in DOMAIN same, i, j \in 1 .. n :
                same[a] = list[i] /\ same[b] = list[j] /\ i < j => a < b
      BY <2>1, <3>2, <3>3
    <3> QED BY <3>2, <3>4, <3>5, <3>6 DEF same
  <2>3. CASE list[n] \in set
    <3> DEFINE old == among[n - 1]
               new == among[n]
    <3>1. new = Append(old, list[n]) /\ old \in Seq(T)
      BY <1>4, <1>6, <2>3
    <3> HIDE DEF old, new
    <3>2. /\ new \in Seq(T) /\ Len(old) \in Nat
          /\ DOMAIN old = 1 .. Len(old) /\ DOMAIN new = 1 .. Len(old) + 1
          /\ \A a \in DOMAIN old : new[a] = old[a]
          /\ new[Len(old) + 1] = list[n]
      BY <2>1, <3>1
    <3>3. DOMAIN new = DOMAIN old \cup {Len(old) + 1}
      BY <3>2
    <3>4. \A a \in DOMAIN new : \E i \in 1 .. n : new[a] = list[i] /\ list[i] \in set
      BY SMTT(20), <1>6, <2>1, <2>3, <3>2, <3>3 DEF old
    <3>5. \A i \in 1 .. n : list[i] \in set => \E a \in DOMAIN new : new[a] = list[i]
      BY <1>6, <2>1, <2>3, <3>2, <3>3 DEF old
    <3>6. ASSUME IsInjective(list), NEW a \in DOMAIN new, NEW b \in DOMAIN new,
                 NEW i \in 1 .. n, NEW j \in 1 .. n,
                 new[a] = list[i], new[b] = list[j], i < j
          PROVE  a < b
      <4>1. i \in DOMAIN list /\ j \in DOMAIN list /\ i # n /\ i \in 1 .. n - 1
        BY <1>1, <2>1, <3>6
      <4>2. a \in DOMAIN old
        BY <3>2, <3>3, <3>6, <4>1, <2>1 DEF IsInjective
      <4>3. CASE b = Len(old) + 1
        BY <3>2, <4>2, <4>3
      <4>4. CASE b \in DOMAIN old
        <5>1. PICK k \in 1 .. n - 1 : old[b] = list[k]
          BY <1>6, <4>4 DEF old
        <5>2. k = j
          BY SMTT(20), <1>1, <2>1, <3>2, <3>6, <4>1, <4>4, <5>1 DEF IsInjective
        <5>3. old[a] = list[i] /\ old[b] = list[j] /\ j \in 1 .. n - 1
          BY <3>2, <3>6, <4>2, <4>4, <5>1, <5>2
        <5>4. \A x, y \in DOMAIN old, g, h \in 1 .. n - 1 :
                 old[x] = list[g] /\ old[y] = list[h] /\ g < h => x < y
          BY <1>6, <3>6 DEF old
        <5> QED BY <3>6, <4>1, <4>2, <4>4, <5>3, <5>4
      <4> QED BY <3>3, <4>3, <4>4
    <3> QED BY <3>2, <3>4, <3>5, <3>6 DEF new
  <2> QED BY <2>2, <2>3
<1> HIDE DEF Sound
<1>7. bad = {}
  <2> SUFFICES ASSUME bad # {} PROVE FALSE
    OBVIOUS
  <2>1. bad \in SUBSET Nat
    OBVIOUS
  <2>2. PICK n \in bad : \A m \in bad : n <= m
    BY <2>1, FirstPlace
  <2>3. n # 0 /\ n \in 1 .. N /\ n - 1 \in 0 .. N /\ ~(n <= n - 1)
    BY <1>1, <1>5, <2>2
  <2>4. Sound(n - 1)
    BY <2>2, <2>3
  <2> QED BY <1>6, <2>2, <2>3, <2>4
<1>8. Sound(N)
  BY <1>1, <1>7
<1>9. ToSet(among[N]) = ToSet(list) \cap set
  <2>1. ASSUME NEW a \in DOMAIN among[N] PROVE among[N][a] \in ToSet(list) \cap set
    <3>1. PICK i \in 1 .. N : among[N][a] = list[i] /\ list[i] \in set
      BY <1>8 DEF Sound
    <3> QED BY <1>1, <3>1 DEF ToSet
  <2>2. ASSUME NEW i \in 1 .. N, list[i] \in set PROVE list[i] \in ToSet(among[N])
    BY <1>8, <2>2 DEF Sound, ToSet
  <2>3. ToSet(among[N]) \subseteq ToSet(list) \cap set
    BY <2>1 DEF ToSet
  <2>4. ToSet(list) \cap set \subseteq ToSet(among[N])
    BY <1>1, <2>2 DEF ToSet
  <2> QED BY <2>3, <2>4
<1> QED BY <1>1, <1>2, <1>8, <1>9 DEF Sound

FormattedManuscripts == OfKind("formatted manuscript")

\* A manuscript is superseded by later ones.
ChainsSound ==
    \A l \in prov :
       l[1] \in FormattedManuscripts /\ l[2] \in FormattedManuscripts /\ l[1] < l[2]

\* What the chain from n ends with if f tells it of the next ones.
EndFrom(f, n) == IF Successors(n) = {} THEN n ELSE f[Min(Successors(n))]

(* Manuscripts are places of artifacts.                                     *)
LEMMA ManuscriptPlaces ==
    ASSUME StoredSound
    PROVE  Latest \in Nat /\ FormattedManuscripts \in SUBSET (1 .. Latest)
<1>1. Len(stored) \in Nat /\ DOMAIN stored = 1 .. Len(stored)
  BY DEF StoredSound
<1>2. FormattedManuscripts \subseteq DOMAIN stored
  BY DEF FormattedManuscripts, OfKind, Stored
<1> QED BY <1>1, <1>2 DEF Latest

(* The first successor is a later manuscript.                               *)
LEMMA SuccessorLater ==
    ASSUME StoredSound, ChainsSound, NEW n, Successors(n) # {}
    PROVE  Min(Successors(n)) \in FormattedManuscripts /\ n < Min(Successors(n))
<1>1. \A x \in Successors(n) : x \in FormattedManuscripts /\ n < x
  BY DEF Successors, ChainsSound
<1>2. FormattedManuscripts \in SUBSET Nat
  BY ManuscriptPlaces
<1>3. Min(Successors(n)) \in Successors(n)
  BY <1>1, <1>2, FirstPlace
<1> QED BY <1>1, <1>3

(* There are such ends for the manuscripts after each place.                *)
LEMMA EndsExist ==
    ASSUME StoredSound, ChainsSound
    PROVE  \E f : f = [n \in FormattedManuscripts |-> EndFrom(f, n)]
<1> DEFINE M == FormattedManuscripts
           After(k) == {n \in M : n + k > Latest}
           Ends(f, S) == f = [n \in S |-> EndFrom(f, n)]
           without == {k \in Nat : ~\E f : Ends(f, After(k))}
<1>1. Latest \in Nat /\ M \in SUBSET (1 .. Latest)
  BY ManuscriptPlaces
<1>2. without = {}
  <2> SUFFICES ASSUME without # {} PROVE FALSE
    OBVIOUS
  <2>1. PICK k \in without : \A j \in without : k <= j
    <3>1. without \in SUBSET Nat
      OBVIOUS
    <3> HIDE DEF without
    <3> QED BY <3>1, FirstPlace
  <2>2. k # 0
    <3>1. After(0) = {}
      <4>1. \A n \in 1 .. Latest : ~ (n + 0 > Latest)
        BY <1>1
      <4> QED BY <1>1, <4>1
    <3>2. \E f : Ends(f, {})
      <4>1. [n \in {} |-> 0] = [n \in {} |-> EndFrom([o \in {} |-> 0], n)]
        OBVIOUS
      <4> QED BY <4>1
    <3> QED BY <2>1, <3>1, <3>2
  <2>3. k \in Nat /\ k - 1 \in Nat /\ ~(k <= k - 1)
    BY <2>1, <2>2
  <2>4. PICK f : Ends(f, After(k - 1))
    BY <2>1, <2>3
  <2> DEFINE old == After(k - 1)
             new == After(k)
             g == [n \in new |-> IF n \in old THEN f[n] ELSE EndFrom(f, n)]
  <2>5. old \subseteq new
    <3>1. \A n \in 1 .. Latest : n + (k - 1) > Latest => n + k > Latest
      BY <1>1, <2>3
    <3> QED BY <1>1, <3>1
  <2>6. ASSUME NEW n \in new PROVE g[n] = EndFrom(g, n)
    <3>1. g[n] = EndFrom(f, n)
      BY <2>4
    <3>2. CASE Successors(n) = {}
      BY <3>1, <3>2 DEF EndFrom
    <3>3. CASE Successors(n) # {}
      <4> DEFINE next == Min(Successors(n))
      <4>1. next \in M /\ n < next
        BY <3>3, SuccessorLater
      <4> HIDE DEF next
      <4>2. next \in old
        BY <1>1, <2>3, <4>1
      <4>3. g[next] = f[next]
        BY <2>5, <4>2
      <4> QED BY <3>1, <3>3, <4>3 DEF EndFrom, next
    <3> QED BY <3>2, <3>3
  <2>7. Ends(g, new)
    <3> DEFINE h == [n \in new |-> EndFrom(g, n)]
    <3>1. DOMAIN g = new /\ DOMAIN h = new /\ \A n \in new : h[n] = EndFrom(g, n)
      OBVIOUS
    <3>2. \A n \in new : g[n] = h[n]
      BY <2>6, <3>1
    <3>3. g = h
      BY <3>1, <3>2
    <3> QED BY <3>3
  <2> HIDE DEF g
  <2> QED BY <2>1, <2>7
<1>3. After(Latest) = M
  <2>1. \A n \in 1 .. Latest : n + Latest > Latest
    BY <1>1
  <2> QED BY <1>1, <2>1
<1>4. \E f : Ends(f, After(Latest))
  BY <1>1, <1>2
<1> QED BY <1>3, <1>4

(* The chain from a manuscript ends with a manuscript.                      *)
LEMMA LeafIsOne ==
    ASSUME StoredSound, ChainsSound, NEW m \in FormattedManuscripts
    PROVE  Leaf(m) \in FormattedManuscripts
<1> DEFINE M == FormattedManuscripts
           leaf == CHOOSE f : f = [n \in M |-> EndFrom(f, n)]
           bad == {n \in M : leaf[n] \notin M}
<1>1. Leaf(m) = leaf[m]
  BY DEF Leaf, EndFrom, FormattedManuscripts
<1>2. leaf = [n \in M |-> EndFrom(leaf, n)]
  BY EndsExist
<1> HIDE DEF leaf
<1>3. \A n \in M : leaf[n] = EndFrom(leaf, n)
  BY <1>2
<1>4. Latest \in Nat /\ M \in SUBSET (1 .. Latest)
  BY ManuscriptPlaces
<1>5. bad = {}
  <2> SUFFICES ASSUME bad # {} PROVE FALSE
    OBVIOUS
  <2>1. PICK n \in bad : \A x \in bad : x <= n
    <3>1. bad \in SUBSET (1 .. Latest)
      BY <1>4
    <3> HIDE DEF bad
    <3> QED BY <1>4, <3>1, LastPlace
  <2>2. Successors(n) # {}
    BY <1>3, <2>1 DEF EndFrom
  <2> DEFINE next == Min(Successors(n))
  <2>3. next \in M /\ n < next
    BY <2>2, SuccessorLater
  <2> HIDE DEF next
  <2>4. next \notin bad
    BY <1>4, <2>1, <2>3
  <2>5. leaf[n] = leaf[next]
    BY <1>3, <2>1, <2>2 DEF EndFrom, next
  <2> QED BY <2>1, <2>3, <2>4, <2>5
<1> QED BY <1>1, <1>5

\* What formatting makes of a draft for a profile.
Formatting(draft, profile, fits, kept, status) ==
    [kind |-> "formatted manuscript", draft |-> draft, profile |-> profile,
     sections |-> Ordered(draft, Profiles[profile].order),
     cited |-> CitationMap(draft), entries |-> Entries(draft), fits |-> fits,
     kept |-> kept, status |-> status]

\* The sections keep the conditions of propositions that were verified before m.
VerifiedBefore(draft, m) ==
    \A s \in ToSet(Drafts[draft]) : \A q \in s.grounds :
       /\ s.keeps
       /\ \E v \in OfKind("verification") :
             v < m /\ stored[v].proposition = q /\ stored[v].status = "verified"

\* The sections keep the conditions of propositions that are verified.
VerifiedNow(draft) ==
    \A s \in ToSet(Drafts[draft]) : \A q \in s.grounds :
       /\ s.keeps
       /\ \E v \in OfKind("verification") : stored[v].proposition = q /\ stored[v].status = "verified"

FormattedSound(m) ==
    \E d \in DOMAIN Drafts, p \in DOMAIN Profiles, fits \in BOOLEAN, kept \in BOOLEAN,
       status \in {"formatted", "validated", "failed"} :
       /\ stored[m] = Formatting(d, p, fits, kept, status)
       /\ kept => VerifiedBefore(d, m)
       /\ status = "validated" => Passes(stored[m])

\* A package is ready with one export of its draft in every format.
PackageSound(p) ==
    /\ stored[p].manuscript \in FormattedManuscripts
    /\ stored[p].exports \subseteq OfKind("export")
    /\ \A e \in stored[p].exports : stored[e].draft = stored[stored[p].manuscript].draft
    /\ stored[p].status = "ready" =>
          /\ stored[stored[p].manuscript].status = "validated"
          /\ {stored[e].format : e \in stored[p].exports} = ToSet(Formats)

\* Nothing is formatted or exported twice.
FormattedOnce ==
    \A m, n \in FormattedManuscripts :
       /\ stored[m].status = "formatted" /\ stored[n].status = "formatted"
       /\ stored[m].draft = stored[n].draft /\ stored[m].profile = stored[n].profile
       => m = n

ExportedOnce ==
    \A e, f \in OfKind("export") :
       stored[e].draft = stored[f].draft /\ stored[e].format = stored[f].format => e = f

\* The manuscript a call is about to put: there is none of its draft and profile.
ToBePut ==
    \E d \in DOMAIN Drafts, p \in DOMAIN Profiles, fits \in BOOLEAN, kept \in BOOLEAN :
       /\ call.new = Formatting(d, p, fits, kept, "formatted")
       /\ Formatted(d, p) = {}
       /\ kept => VerifiedNow(d)

\* Exports of the draft, in each format that is passed unless it failed.
Packaging(k) ==
    /\ k \in [manuscript : FormattedManuscripts, exports : SUBSET OfKind("export"),
              todo : Seq(ToSet(Formats)), failed : BOOLEAN]
    /\ \A e \in k.exports : stored[e].draft = stored[k.manuscript].draft
    /\ ~k.failed => {stored[e].format : e \in k.exports} \cup ToSet(k.todo) = ToSet(Formats)

PublicationCallSound ==
    /\ at \in {"bibliography", "manuscript"} => ToBePut
    /\ at \in {"validate", "supersede"} => call.manuscript \in FormattedManuscripts
    /\ at = "supersede" => Latest \in FormattedManuscripts /\ call.manuscript < Latest
    /\ at = "package" => Packaging(call)

PublicationInv ==
    /\ StoredSound /\ ChainsSound /\ FormattedOnce /\ ExportedOnce
    /\ \A m \in FormattedManuscripts : FormattedSound(m)
    /\ \A p \in OfKind("submission package") : PackageSound(p)
    /\ PublicationCallSound

(* Where artifacts stay and none is added, none is made twice.              *)
LEMMA MadeStays ==
    ASSUME PublicationInv, Kept
    PROVE  /\ FormattedManuscripts' = FormattedManuscripts => FormattedOnce'
           /\ OfKind("export")' = OfKind("export") => ExportedOnce'
<1>1. FormattedOnce /\ ExportedOnce
  BY DEF PublicationInv
<1>2. /\ \A m \in FormattedManuscripts : stored'[m] = stored[m]
      /\ \A e \in OfKind("export") : stored'[e] = stored[e]
  BY DEF Kept, FormattedManuscripts, OfKind
<1>3. FormattedManuscripts' = FormattedManuscripts => FormattedOnce'
  BY <1>1, <1>2 DEF FormattedOnce
<1>4. OfKind("export")' = OfKind("export") => ExportedOnce'
  BY <1>1, <1>2 DEF ExportedOnce
<1> QED BY <1>3, <1>4

(* What is stored stays as it is.                                           *)
LEMMA PublicationKept ==
    ASSUME PublicationInv, StoredSound', Kept
    PROVE  /\ \A kind : OfKind(kind) \subseteq OfKind(kind)'
           /\ \A d : VerifiedNow(d) => VerifiedNow(d)'
           /\ \A m \in FormattedManuscripts : FormattedSound(m)'
           /\ \A p \in OfKind("submission package") : PackageSound(p)'
           /\ \A k : Packaging(k) => Packaging(k)'
<1>1. \A kind : OfKind(kind) \subseteq OfKind(kind)' /\ \A i \in OfKind(kind) : stored'[i] = stored[i]
  BY DEF Kept, OfKind
<1>2. ASSUME NEW d, NEW m, VerifiedBefore(d, m)
      PROVE  VerifiedBefore(d, m)'
  BY <1>1, <1>2 DEF VerifiedBefore
<1>3. ASSUME NEW d, VerifiedNow(d)
      PROVE  VerifiedNow(d)'
  BY <1>1, <1>3 DEF VerifiedNow
<1>4. ASSUME NEW m \in FormattedManuscripts
      PROVE  FormattedSound(m)'
  <2>1. FormattedSound(m) /\ stored'[m] = stored[m]
    BY <1>1 DEF PublicationInv, FormattedManuscripts
  <2> QED BY <1>2, <2>1 DEF FormattedSound
<1>5. \A S \in SUBSET OfKind("export") :
         /\ \A e \in S : stored'[e] = stored[e]
         /\ {stored'[e].format : e \in S} = {stored[e].format : e \in S}
  BY <1>1
<1>6. ASSUME NEW p \in OfKind("submission package")
      PROVE  PackageSound(p)'
  <2>1. PackageSound(p) /\ stored'[p] = stored[p]
    BY <1>1 DEF PublicationInv
  <2>2. PICK m \in FormattedManuscripts, S \in SUBSET OfKind("export") :
           m = stored[p].manuscript /\ S = stored[p].exports
    BY <2>1 DEF PackageSound
  <2>3. stored'[m] = stored[m] /\ m \in FormattedManuscripts' /\ S \subseteq OfKind("export")'
    BY <1>1 DEF FormattedManuscripts
  <2>4. /\ \A e \in S : stored'[e].draft = stored'[m].draft
        /\ stored'[p].status = "ready" =>
              stored'[m].status = "validated" /\ {stored'[e].format : e \in S} = ToSet(Formats)
    BY <1>5, <2>1, <2>2, <2>3 DEF PackageSound
  <2> QED BY <2>1, <2>2, <2>3, <2>4 DEF PackageSound
<1>7. ASSUME NEW k, Packaging(k)
      PROVE  Packaging(k)'
  <2>1. /\ stored'[k.manuscript] = stored[k.manuscript]
        /\ {stored'[e].format : e \in k.exports} = {stored[e].format : e \in k.exports}
        /\ \A e \in k.exports : stored'[e] = stored[e]
    BY <1>1, <1>5, <1>7 DEF Packaging, FormattedManuscripts
  <2>2. /\ FormattedManuscripts \subseteq FormattedManuscripts'
        /\ OfKind("export") \subseteq OfKind("export")'
    BY <1>1 DEF FormattedManuscripts
  <2> QED BY <1>7, <2>1, <2>2 DEF Packaging
<1> QED BY <1>1, <1>4, <1>6, <1>7, <1>3

(* A step that puts nothing.                                                *)
LEMMA PublicationQuiet ==
    ASSUME PublicationInv, stored' = stored, ChainsSound', PublicationCallSound'
    PROVE  PublicationInv'
<1>1. /\ Stored' = Stored /\ StoredSound' /\ \A kind : OfKind(kind)' = OfKind(kind)
  BY StoredStays DEF PublicationInv
<1>2. Kept
  BY <1>1 DEF Kept
<1>3. FormattedManuscripts' = FormattedManuscripts
  BY <1>1 DEF FormattedManuscripts
<1>4. /\ \A m \in FormattedManuscripts' : FormattedSound(m)'
      /\ \A p \in OfKind("submission package")' : PackageSound(p)'
  BY <1>1, <1>2, <1>3, PublicationKept
<1>5. FormattedOnce' /\ ExportedOnce'
  BY <1>1, <1>2, <1>3, MadeStays
<1> QED BY <1>1, <1>4, <1>5 DEF PublicationInv

(* A step that puts an artifact.                                            *)
LEMMA PublicationPut ==
    ASSUME PublicationInv, NEW a, Put(a), NEW new, new = Latest + 1
    PROVE  /\ Kept /\ StoredSound' /\ Latest \in Nat /\ Stored = 1 .. Latest /\ Latest' = new
           /\ new \in Nat /\ new \notin Stored /\ new \in Stored' /\ stored'[new] = a
           /\ \A kind : a.kind = kind => OfKind(kind)' = OfKind(kind) \cup {new}
           /\ \A kind : a.kind # kind => OfKind(kind)' = OfKind(kind)
<1>1. /\ StoredSound' /\ Latest \in Nat /\ Stored = 1 .. Latest /\ Stored' = Stored \cup {new}
      /\ new \notin Stored /\ \A i \in Stored : stored'[i] = stored[i]
      /\ stored'[new] = a
  BY PutAdds DEF PublicationInv
<1>2. /\ \A kind : a.kind = kind => OfKind(kind)' = OfKind(kind) \cup {new}
      /\ \A kind : a.kind # kind => OfKind(kind)' = OfKind(kind)
  BY PutOfKind DEF PublicationInv
<1>3. Latest' = new
  <2> DEFINE S == ToSet(stored) \cup {a}
  <2>1. StoredSound
    BY DEF PublicationInv
  <2>2. stored \in Seq(S) /\ a \in S /\ stored' = Append(stored, a)
    BY <2>1 DEF StoredSound, Put
  <2> HIDE DEF S
  <2>3. Len(stored') = Len(stored) + 1
    BY <2>2
  <2> QED BY <1>1, <2>3 DEF Latest
<1> QED BY <1>1, <1>2, <1>3 DEF Kept

(* A call that is over leaves nothing to be put.                            *)
LEMMA PublicationReturns ==
    ASSUME at' = "idle" \/ at' = "execution"
    PROVE  PublicationCallSound'
BY DEF PublicationCallSound

(* An artifact that is neither a manuscript, an export nor a package.       *)
LEMMA OtherPut ==
    ASSUME PublicationInv, NEW a, Put(a), prov' = prov,
           a.kind \notin {"formatted manuscript", "export", "submission package"},
           PublicationCallSound'
    PROVE  PublicationInv'
<1>1. PICK new : new = Latest + 1
  OBVIOUS
<1>2. /\ Kept /\ StoredSound'
      /\ \A kind \in {"formatted manuscript", "export", "submission package"} : OfKind(kind)' = OfKind(kind)
  BY <1>1, PublicationPut
<1>3. FormattedManuscripts' = FormattedManuscripts
  BY <1>2 DEF FormattedManuscripts
<1>4. /\ \A m \in FormattedManuscripts' : FormattedSound(m)'
      /\ \A p \in OfKind("submission package")' : PackageSound(p)'
  BY <1>2, <1>3, PublicationKept
<1>5. ChainsSound'
  BY <1>3 DEF PublicationInv, ChainsSound
<1>6. FormattedOnce' /\ ExportedOnce'
  BY <1>2, <1>3, MadeStays
<1> QED BY <1>2, <1>4, <1>5, <1>6 DEF PublicationInv

(* A manuscript that is put.                                                *)
LEMMA ManuscriptPut ==
    ASSUME PublicationInv,
           NEW d \in DOMAIN Drafts, NEW p \in DOMAIN Profiles, NEW fits \in BOOLEAN,
           NEW kept \in BOOLEAN, NEW status \in {"formatted", "validated", "failed"},
           NEW a, a = Formatting(d, p, fits, kept, status), Put(a), prov' = prov,
           kept => VerifiedNow(d),
           status = "formatted" => Formatted(d, p) = {},
           status = "validated" => Passes(a),
           PublicationCallSound'
    PROVE  PublicationInv'
<1>1. PICK new : new = Latest + 1
  OBVIOUS
<1>2. a.kind = "formatted manuscript" /\ a.draft = d /\ a.profile = p /\ a.status = status
  BY DEF Formatting
<1>3. /\ Kept /\ StoredSound' /\ Stored = 1 .. Latest /\ Latest \in Nat /\ new \notin Stored
      /\ stored'[new] = a
      /\ OfKind("formatted manuscript")' = OfKind("formatted manuscript") \cup {new}
      /\ OfKind("export")' = OfKind("export")
      /\ OfKind("submission package")' = OfKind("submission package")
  BY <1>1, <1>2, PublicationPut
<1>4. FormattedManuscripts' = FormattedManuscripts \cup {new}
  BY <1>3 DEF FormattedManuscripts
<1>5. \A m \in FormattedManuscripts : FormattedSound(m)'
  BY <1>3, PublicationKept
<1>6. FormattedSound(new)'
  <2>1. kept => VerifiedBefore(d, new)'
    <3>1. \A v \in OfKind("verification") : v < new
      <4>1. Latest \in Nat
        BY <1>3
      <4>2. \A v \in 1 .. Latest : v < new
        BY <1>1, <4>1
      <4>3. Stored = 1 .. Latest
        BY <1>3
      <4> QED BY <4>2, <4>3 DEF OfKind
    <3>2. /\ OfKind("verification") \subseteq OfKind("verification")'
          /\ \A v \in OfKind("verification") : stored'[v] = stored[v]
      BY <1>3 DEF Kept, OfKind
    <3> QED BY <3>1, <3>2 DEF VerifiedNow, VerifiedBefore
  <2>2. FormattedSound(new)' =
           \E d1 \in DOMAIN Drafts, p1 \in DOMAIN Profiles, f1 \in BOOLEAN, k1 \in BOOLEAN,
              s1 \in {"formatted", "validated", "failed"} :
              /\ a = Formatting(d1, p1, f1, k1, s1)
              /\ k1 => VerifiedBefore(d1, new)'
              /\ s1 = "validated" => Passes(a)
    BY <1>3 DEF FormattedSound
  <2> QED BY <2>1, <2>2
<1>7. \A q \in OfKind("submission package")' : PackageSound(q)'
  BY <1>3, PublicationKept
<1>8. ChainsSound'
  BY <1>4 DEF PublicationInv, ChainsSound
<1>9. FormattedOnce'
  <2>1. \A m \in FormattedManuscripts : stored'[m] = stored[m]
    BY <1>3 DEF Kept, FormattedManuscripts, OfKind
  <2>2. FormattedOnce
    BY DEF PublicationInv
  <2>3. ASSUME NEW o \in FormattedManuscripts, status = "formatted",
               stored[o].draft = d, stored[o].profile = p
        PROVE  FALSE
    BY <2>3 DEF Formatted, FormattedManuscripts
  <2>4. ASSUME NEW m \in FormattedManuscripts', NEW n \in FormattedManuscripts',
               stored'[m].status = "formatted", stored'[n].status = "formatted",
               stored'[m].draft = stored'[n].draft, stored'[m].profile = stored'[n].profile
        PROVE  m = n
    <3>1. CASE m # new /\ n # new
      BY <1>4, <2>1, <2>2, <2>4, <3>1 DEF FormattedOnce
    <3> QED BY <1>2, <1>3, <1>4, <2>1, <2>3, <2>4, <3>1
  <2> QED BY <2>4 DEF FormattedOnce
<1>10. ExportedOnce'
  BY <1>3, MadeStays
<1> QED BY <1>10, <1>3, <1>4, <1>5, <1>6, <1>7, <1>8, <1>9 DEF PublicationInv

(* An export that is put: there was none of that draft in that format.      *)
LEMMA ExportPut ==
    ASSUME PublicationInv, NEW m \in FormattedManuscripts, NEW format,
           Exports(stored[m].draft, format) = {},
           NEW a, a = ExportOf(m, format), Put(a), prov' = prov, PublicationCallSound'
    PROVE  PublicationInv'
<1>1. PICK new : new = Latest + 1
  OBVIOUS
<1>2. a.kind = "export" /\ a.draft = stored[m].draft /\ a.format = format
  BY DEF ExportOf
<1>3. /\ Kept /\ StoredSound' /\ new \notin Stored /\ stored'[new] = a
      /\ OfKind("formatted manuscript")' = OfKind("formatted manuscript")
      /\ OfKind("export")' = OfKind("export") \cup {new}
      /\ OfKind("submission package")' = OfKind("submission package")
  BY <1>1, <1>2, PublicationPut
<1>4. FormattedManuscripts' = FormattedManuscripts
  BY <1>3 DEF FormattedManuscripts
<1>5. /\ \A n \in FormattedManuscripts' : FormattedSound(n)'
      /\ \A q \in OfKind("submission package")' : PackageSound(q)'
  BY <1>3, <1>4, PublicationKept
<1>6. ChainsSound'
  BY <1>4 DEF PublicationInv, ChainsSound
<1>7. ExportedOnce'
  <2>1. \A e \in OfKind("export") : stored'[e] = stored[e]
    BY <1>3 DEF Kept, OfKind
  <2>2. ExportedOnce
    BY DEF PublicationInv
  <2>3. \A o \in OfKind("export") : ~(stored[o].draft = stored[m].draft /\ stored[o].format = format)
    BY DEF Exports
  <2>4. ASSUME NEW e \in OfKind("export")', NEW f \in OfKind("export")',
               stored'[e].draft = stored'[f].draft, stored'[e].format = stored'[f].format
        PROVE  e = f
    <3>1. CASE e # new /\ f # new
      BY <1>3, <2>1, <2>2, <2>4, <3>1 DEF ExportedOnce
    <3> QED BY <1>2, <1>3, <2>1, <2>3, <2>4, <3>1
  <2> QED BY <2>4 DEF ExportedOnce
<1>8. FormattedOnce'
  BY <1>3, <1>4, MadeStays
<1> QED BY <1>8, <1>3, <1>5, <1>6, <1>7 DEF PublicationInv

(* A verification is put between calls.                                     *)
LEMMA VerifyKeeps ==
    ASSUME PublicationInv, NEW p, NEW status, Verify(p, status)
    PROVE  PublicationInv'
<1>1. PICK a : a = [kind |-> "verification", proposition |-> p, status |-> status]
  OBVIOUS
<1>2. Put(a) /\ prov' = prov /\ at' = "idle" /\ a.kind = "verification"
  BY <1>1 DEF Verify, PutAtOnce
<1> QED BY <1>2, OtherPut, PublicationReturns

(* A draft is formatted for a profile it was not formatted for.             *)
LEMMA FormatKeeps ==
    ASSUME PublicationInv, NEW d \in DOMAIN Drafts, NEW p \in DOMAIN Profiles, NEW fits \in BOOLEAN,
           Format(d, p, fits)
    PROVE  PublicationInv'
<1>1. PICK kept : kept = \A s \in ToSet(Drafts[d]) : ConditionsKept(s)
  OBVIOUS
<1>2. /\ Formatted(d, p) = {} /\ stored' = stored /\ prov' = prov /\ at' = "bibliography"
      /\ call'.new = Formatting(d, p, fits, kept, "formatted")
  BY <1>1 DEF Format, Call, Formatting
<1>3. kept \in BOOLEAN
  BY <1>1
<1>4. kept => VerifiedNow(d)
  BY <1>1 DEF VerifiedNow, ConditionsKept
<1>5. (kept => VerifiedNow(d)') /\ Formatted(d, p)' = {}
  <2>1. \A kind : OfKind(kind)' = OfKind(kind)
    BY <1>2 DEF OfKind, Stored
  <2>2. VerifiedNow(d) => VerifiedNow(d)'
    BY <1>2, <2>1 DEF VerifiedNow
  <2>3. Formatted(d, p)' = {}
    BY <1>2, <2>1 DEF Formatted
  <2> QED BY <1>4, <2>2, <2>3
<1>6. ToBePut'
  BY <1>2, <1>3, <1>5 DEF ToBePut
<1>7. PublicationCallSound'
  BY <1>2, <1>6 DEF PublicationCallSound
<1>8. ChainsSound'
  <2>1. FormattedManuscripts' = FormattedManuscripts
    BY <1>2 DEF FormattedManuscripts, OfKind, Stored
  <2> QED BY <1>2, <2>1 DEF PublicationInv, ChainsSound
<1> QED BY <1>2, <1>7, <1>8, PublicationQuiet

(* The bibliography is put, the manuscript still to be put.                 *)
LEMMA PutBibliographyKeeps ==
    ASSUME PublicationInv, PutBibliography
    PROVE  PublicationInv'
<1>1. PICK a : a = [kind |-> "bibliography", entries |-> call.new.entries]
  OBVIOUS
<1>2. Put(a) /\ a.kind = "bibliography" /\ prov' = prov /\ call' = call /\ at' = "manuscript" /\ ToBePut
  BY <1>1 DEF PutBibliography, PutThen, Goto, PublicationInv, PublicationCallSound
<1>3. /\ Kept /\ StoredSound'
      /\ OfKind("formatted manuscript")' = OfKind("formatted manuscript")
  BY <1>2, PublicationPut
<1>4. PICK d \in DOMAIN Drafts, p \in DOMAIN Profiles, fits \in BOOLEAN, kept \in BOOLEAN :
         /\ call.new = Formatting(d, p, fits, kept, "formatted")
         /\ Formatted(d, p) = {}
         /\ kept => VerifiedNow(d)
  BY <1>2 DEF ToBePut
<1>5. Formatted(d, p)' = {}
  <2>1. \A m \in OfKind("formatted manuscript") : stored'[m] = stored[m]
    BY <1>3 DEF Kept, OfKind
  <2> QED BY <1>3, <1>4, <2>1 DEF Formatted
<1>6. kept => VerifiedNow(d)'
  BY <1>3, <1>4, PublicationKept
<1>7. ToBePut'
  BY <1>2, <1>4, <1>5, <1>6 DEF ToBePut
<1>8. PublicationCallSound'
  BY <1>2, <1>7 DEF PublicationCallSound
<1> QED BY <1>2, <1>8, OtherPut

(* The manuscript is put.                                                   *)
LEMMA PutManuscriptKeeps ==
    ASSUME PublicationInv, PutManuscript
    PROVE  PublicationInv'
<1>1. Put(call.new) /\ prov' = prov /\ at' = "idle" /\ ToBePut
  BY DEF PutManuscript, Return, PublicationInv, PublicationCallSound
<1>2. PublicationCallSound'
  BY <1>1, PublicationReturns
<1>3. PICK d \in DOMAIN Drafts, p \in DOMAIN Profiles, fits \in BOOLEAN, kept \in BOOLEAN :
         /\ call.new = Formatting(d, p, fits, kept, "formatted")
         /\ Formatted(d, p) = {}
         /\ kept => VerifiedNow(d)
  BY <1>1 DEF ToBePut
<1>4. PICK a : a = call.new
  OBVIOUS
<1> QED BY <1>1, <1>2, <1>3, <1>4, ManuscriptPut

(* A manuscript with another status passes as it did.                       *)
LEMMA StatusSet ==
    ASSUME NEW d, NEW p, NEW fits, NEW kept, NEW before, NEW status,
           NEW old, old = Formatting(d, p, fits, kept, before),
           NEW new, new = Formatting(d, p, fits, kept, status)
    PROVE  [old EXCEPT !.status = status] = new /\ (Passes(old) => Passes(new))
<1>1. PICK kind, sections, cited, entries :
         /\ kind = "formatted manuscript" /\ sections = Ordered(d, Profiles[p].order)
         /\ cited = CitationMap(d) /\ entries = Entries(d)
  OBVIOUS
<1>2. /\ old = [kind |-> kind, draft |-> d, profile |-> p, sections |-> sections, cited |-> cited,
                entries |-> entries, fits |-> fits, kept |-> kept, status |-> before]
      /\ new = [kind |-> kind, draft |-> d, profile |-> p, sections |-> sections, cited |-> cited,
                entries |-> entries, fits |-> fits, kept |-> kept, status |-> status]
  BY <1>1 DEF Formatting
<1>3. [old EXCEPT !.status = status] = new
  BY ONLY <1>2
<1>4. /\ new.fits = old.fits /\ new.kept = old.kept /\ new.draft = old.draft
      /\ new.cited = old.cited /\ new.entries = old.entries
      /\ new.profile = old.profile /\ new.sections = old.sections
  BY ONLY <1>2
<1>5. Passes(old) => Passes(new)
  BY <1>4 DEF Passes
<1> QED BY <1>3, <1>5

(* A validated manuscript is the formatted one but for its status.          *)
LEMMA PutValidatedKeeps ==
    ASSUME PublicationInv, PutValidated
    PROVE  PublicationInv'
<1>1. PICK m, new : m = call.manuscript /\ new = Latest + 1
  OBVIOUS
<1>2. m \in FormattedManuscripts /\ FormattedSound(m)
  BY <1>1 DEF PutValidated, PublicationInv, PublicationCallSound
<1>3. PICK status : status = IF Passes(stored[m]) THEN "validated" ELSE "failed"
  OBVIOUS
<1>4. status \in {"validated", "failed"} /\ (status = "validated" => Passes(stored[m]))
  BY <1>3
<1>5. PICK a : a = [stored[m] EXCEPT !.status = status]
  OBVIOUS
<1>6. Put(a) /\ prov' = prov /\ at' = "supersede" /\ call'.manuscript = m
  BY <1>1, <1>3, <1>5 DEF PutValidated, PutThen, Goto
<1>7. ASSUME NEW d, NEW p, NEW fits, NEW kept, NEW before,
             stored[m] = Formatting(d, p, fits, kept, before)
      PROVE  a = Formatting(d, p, fits, kept, status)
  BY <1>5, <1>7, StatusSet
<1>8. a.kind = "formatted manuscript" /\ (status = "validated" => Passes(a))
  <2>1. PICK d, p, fits, kept, before : stored[m] = Formatting(d, p, fits, kept, before)
    BY <1>2 DEF FormattedSound
  <2>2. a = Formatting(d, p, fits, kept, status)
    BY <1>7, <2>1
  <2>3. Passes(stored[m]) => Passes(a)
    BY <2>1, <2>2, StatusSet
  <2>4. a.kind = "formatted manuscript"
    BY <2>2 DEF Formatting
  <2> QED BY <1>4, <2>3, <2>4
<1>9. OfKind("formatted manuscript")' = OfKind("formatted manuscript") \cup {new}
  BY <1>1, <1>6, <1>8, PublicationPut
<1>10. Latest' = new
  BY <1>1, <1>6, PublicationPut
<1>11. m < new
  <2>1. Latest \in Nat /\ Stored = 1 .. Latest
    BY <1>6, PublicationPut
  <2>2. \A i \in 1 .. Latest : i < new
    BY <1>1, <2>1
  <2> QED BY <1>2, <2>1, <2>2 DEF FormattedManuscripts, OfKind
<1>12. PublicationCallSound'
  BY <1>2, <1>6, <1>9, <1>10, <1>11 DEF PublicationCallSound, FormattedManuscripts
<1>13. PICK d \in DOMAIN Drafts, p \in DOMAIN Profiles, fits \in BOOLEAN, kept \in BOOLEAN,
           before \in {"formatted", "validated", "failed"} :
           /\ stored[m] = Formatting(d, p, fits, kept, before)
           /\ kept => VerifiedBefore(d, m)
  BY <1>2 DEF FormattedSound
<1>14. a = Formatting(d, p, fits, kept, status)
  BY <1>7, <1>13
<1>15. kept => VerifiedNow(d)
  BY <1>13 DEF VerifiedBefore, VerifiedNow
<1> QED BY <1>4, <1>6, <1>8, <1>12, <1>14, <1>15, ManuscriptPut

(* Validation and supersession put nothing.                                 *)
LEMMA ValidateManuscriptKeeps ==
    ASSUME PublicationInv, NEW m \in FormattedManuscripts, ValidateManuscript(m)
    PROVE  PublicationInv'
<1>1. stored' = stored /\ prov' = prov /\ at' = "validate" /\ call'.manuscript = m
  BY DEF ValidateManuscript, Call
<1>2. FormattedManuscripts' = FormattedManuscripts
  BY <1>1 DEF FormattedManuscripts, OfKind, Stored
<1>3. ChainsSound' /\ PublicationCallSound'
  BY <1>1, <1>2 DEF PublicationInv, ChainsSound, PublicationCallSound
<1> QED BY <1>1, <1>3, PublicationQuiet

LEMMA SupersedeManuscriptKeeps ==
    ASSUME PublicationInv, SupersedeManuscript
    PROVE  PublicationInv'
<1>1. PICK m, n : m = call.manuscript /\ n = Latest
  OBVIOUS
<1>2. m \in FormattedManuscripts /\ n \in FormattedManuscripts /\ m < n
  BY <1>1 DEF SupersedeManuscript, PublicationInv, PublicationCallSound
<1>3. stored' = stored /\ prov' = prov \cup {<<m, n, "supersedes">>} /\ at' = "idle"
  BY <1>1 DEF SupersedeManuscript, Return
<1>4. FormattedManuscripts' = FormattedManuscripts
  BY <1>3 DEF FormattedManuscripts, OfKind, Stored
<1>5. ASSUME NEW l \in prov'
      PROVE  l[1] \in FormattedManuscripts /\ l[2] \in FormattedManuscripts /\ l[1] < l[2]
  <2>1. CASE l \in prov
    BY <2>1 DEF PublicationInv, ChainsSound
  <2>2. CASE l = <<m, n, "supersedes">>
    <3>1. l[1] = m /\ l[2] = n
      BY <2>2
    <3> QED BY <1>2, <3>1
  <2> QED BY <1>3, <2>1, <2>2
<1>6. ChainsSound'
  BY <1>4, <1>5 DEF ChainsSound
<1> QED BY <1>3, <1>6, PublicationQuiet, PublicationReturns

(* An export that was asked for.                                            *)
LEMMA ExportKeeps ==
    ASSUME PublicationInv, NEW m \in FormattedManuscripts, NEW format, Export(m, format)
    PROVE  PublicationInv'
<1>1. CASE Exports(stored[m].draft, format) # {}
  <2>1. stored' = stored /\ prov' = prov /\ at' = "idle"
    BY <1>1 DEF Export, researchVars
  <2>2. ChainsSound'
    BY <2>1 DEF PublicationInv, ChainsSound, FormattedManuscripts, OfKind, Stored
  <2> QED BY <2>1, <2>2, PublicationQuiet, PublicationReturns
<1>2. CASE Exports(stored[m].draft, format) = {}
  <2>1. PICK a : a = ExportOf(m, format)
    OBVIOUS
  <2>2. Put(a) /\ prov' = prov /\ at' = "idle"
    BY <1>2, <2>1 DEF Export, PutAtOnce
  <2> QED BY <1>2, <2>1, <2>2, ExportPut, PublicationReturns
<1> QED BY <1>1, <1>2

(* A package begins with the last of its manuscript's successors.           *)
LEMMA PackageKeeps ==
    ASSUME PublicationInv, NEW m \in FormattedManuscripts, Package(m)
    PROVE  PublicationInv'
<1>1. PICK k : k = [manuscript |-> Leaf(m), exports |-> {}, todo |-> Formats, failed |-> FALSE]
  OBVIOUS
<1>2. stored' = stored /\ prov' = prov /\ at' = "package" /\ call' = k
  BY <1>1 DEF Package, Call
<1>3. Leaf(m) \in FormattedManuscripts
  BY LeafIsOne DEF PublicationInv
<1>4. FormattedManuscripts' = FormattedManuscripts /\ OfKind("export")' = OfKind("export")
  BY <1>2 DEF FormattedManuscripts, OfKind, Stored
<1>5. Packaging(k)'
  <2>1. Formats \in Seq(ToSet(Formats))
    BY ProfilesAssumption
  <2>2. k \in [manuscript : FormattedManuscripts, exports : SUBSET OfKind("export"),
               todo : Seq(ToSet(Formats)), failed : BOOLEAN]
    BY <1>1, <1>3, <2>1
  <2>3. k.exports = {} /\ k.todo = Formats
    BY <1>1
  <2> QED BY <1>4, <2>2, <2>3 DEF Packaging
<1>6. PublicationCallSound'
  BY <1>2, <1>5 DEF PublicationCallSound
<1>7. ChainsSound'
  BY <1>2, <1>4 DEF PublicationInv, ChainsSound
<1> QED BY <1>2, <1>6, <1>7, PublicationQuiet

(* An export in the next format, found or made, is one of the package's.    *)
LEMMA PackageExportKeeps ==
    ASSUME PublicationInv, PackageExport
    PROVE  PublicationInv'
<1>1. PICK k : k = call
  OBVIOUS
<1>2. /\ at = "package" /\ k.todo # <<>> /\ Packaging(k)
  BY <1>1 DEF PackageExport, PublicationInv, PublicationCallSound
<1>3. /\ k \in [manuscript : FormattedManuscripts, exports : SUBSET OfKind("export"),
                todo : Seq(ToSet(Formats)), failed : BOOLEAN]
      /\ \A e \in k.exports : stored[e].draft = stored[k.manuscript].draft
      /\ ~k.failed => {stored[e].format : e \in k.exports} \cup ToSet(k.todo) = ToSet(Formats)
  BY <1>2 DEF Packaging
<1>4. PICK m \in FormattedManuscripts, S \in SUBSET OfKind("export"), todo \in Seq(ToSet(Formats)) :
         \E failed : k = [manuscript |-> m, exports |-> S, todo |-> todo, failed |-> failed]
  BY <1>3
<1>5. PICK failed : k = [manuscript |-> m, exports |-> S, todo |-> todo, failed |-> failed]
  BY <1>4
<1>6. failed \in BOOLEAN
  BY <1>3, <1>5
<1>7. PICK format, rest : format = Head(todo) /\ rest = Tail(todo)
  OBVIOUS
<1>8. PICK base : base = [k EXCEPT !.todo = rest]
  OBVIOUS
<1>9. base = [manuscript |-> m, exports |-> S, todo |-> rest, failed |-> failed]
  BY <1>5, <1>8
<1>10. /\ todo # <<>> /\ rest \in Seq(ToSet(Formats)) /\ ToSet(todo) = {format} \cup ToSet(rest)
       /\ ToSet(rest) \subseteq ToSet(Formats) /\ format \in ToSet(Formats)
  <2>1. todo # <<>>
    BY <1>2, <1>5
  <2> DEFINE F == ToSet(Formats)
  <2>2. todo \in Seq(F)
    OBVIOUS
  <2> HIDE DEF F
  <2>3. /\ rest \in Seq(F) /\ format \in F /\ Len(todo) \in Nat /\ Len(todo) > 0
        /\ DOMAIN todo = 1 .. Len(todo) /\ DOMAIN rest = 1 .. Len(todo) - 1
        /\ \A i \in 1 .. Len(todo) - 1 : rest[i] = todo[i + 1]
        /\ format = todo[1]
    BY <1>7, <2>1, <2>2
  <2>4. ToSet(todo) = {format} \cup ToSet(rest)
    <3>1. \A i \in DOMAIN todo : i = 1 \/ (i - 1 \in DOMAIN rest /\ rest[i - 1] = todo[i])
      BY <2>3
    <3>2. \A i \in DOMAIN rest : i + 1 \in DOMAIN todo /\ rest[i] = todo[i + 1]
      BY <2>3
    <3>3. 1 \in DOMAIN todo
      BY <2>3
    <3>4. ToSet(todo) \subseteq {format} \cup ToSet(rest)
      <4>1. format = todo[1]
        BY <2>3
      <4> QED BY <3>1, <4>1 DEF ToSet
    <3>5. format \in ToSet(todo)
      <4>1. format = todo[1]
        BY <2>3
      <4> QED BY <3>3, <4>1 DEF ToSet
    <3>6. ToSet(rest) \subseteq ToSet(todo)
      BY <3>2 DEF ToSet
    <3> QED BY <3>4, <3>5, <3>6
  <2>5. ToSet(rest) \subseteq F
    BY <2>3 DEF ToSet
  <2> QED BY <2>1, <2>3, <2>4, <2>5 DEF F
<1>11. PICK draft : draft = stored[m].draft
  OBVIOUS
<1>12. /\ \A e \in S : stored[e].draft = draft
       /\ ~failed => {stored[e].format : e \in S} \cup ToSet(todo) = ToSet(Formats)
  BY <1>3, <1>5, <1>11
<1>13. CASE Exports(draft, format) # {}
  <2>1. PICK found : found = Min(Exports(draft, format))
    OBVIOUS
  <2>2. found \in OfKind("export") /\ stored[found].draft = draft /\ stored[found].format = format
    <3>1. StoredSound
      BY DEF PublicationInv
    <3>2. Len(stored) \in Nat /\ DOMAIN stored = 1 .. Len(stored)
      BY <3>1 DEF StoredSound
    <3>3. Exports(draft, format) \in SUBSET Nat
      BY <3>2 DEF Exports, OfKind, Stored
    <3>4. found \in Exports(draft, format)
      BY <1>13, <2>1, <3>3, FirstPlace
    <3> QED BY <3>4 DEF Exports
  <2>3. PICK next : next = [manuscript |-> m, exports |-> S \cup {found}, todo |-> rest, failed |-> failed]
    OBVIOUS
  <2>4. stored' = stored /\ prov' = prov /\ at' = "package" /\ call' = next
    <3>1. call' = [base EXCEPT !.exports = @ \cup {found}]
      BY <1>1, <1>5, <1>7, <1>11, <1>8, <1>13, <2>1 DEF PackageExport
    <3>2. [base EXCEPT !.exports = @ \cup {found}] = next
      <4>1. PICK T : T = S \cup {found}
        OBVIOUS
      <4>2. base.exports = S
        BY <1>9
      <4>3. [base EXCEPT !.exports = T] = [manuscript |-> m, exports |-> T, todo |-> rest, failed |-> failed]
        BY <1>9
      <4>4. [base EXCEPT !.exports = @ \cup {found}] = [base EXCEPT !.exports = T]
        BY <4>1, <4>2
      <4> QED BY <2>3, <4>1, <4>3, <4>4
    <3>3. call' = next
      BY <3>1, <3>2
    <3> QED BY <1>1, <1>5, <1>7, <1>11, <1>13, <3>3 DEF PackageExport, Goto
  <2>5. FormattedManuscripts' = FormattedManuscripts /\ OfKind("export")' = OfKind("export")
    BY <2>4 DEF FormattedManuscripts, OfKind, Stored
  <2>6. Packaging(next)'
    <3>1. next \in [manuscript : FormattedManuscripts, exports : SUBSET OfKind("export"),
                    todo : Seq(ToSet(Formats)), failed : BOOLEAN]
      BY <1>6, <1>10, <2>2, <2>3
    <3>2. \A e \in S \cup {found} : stored[e].draft = draft
      BY <1>12, <2>2
    <3>3. {stored[e].format : e \in S \cup {found}} = {stored[e].format : e \in S} \cup {format}
      BY <2>2
    <3>4. ~failed => {stored[e].format : e \in S \cup {found}} \cup ToSet(rest) = ToSet(Formats)
      BY <1>10, <1>12, <3>3
    <3>5. next.manuscript = m /\ next.exports = S \cup {found} /\ next.todo = rest /\ next.failed = failed
      BY <2>3
    <3> QED BY <1>11, <2>4, <2>5, <3>1, <3>2, <3>4, <3>5 DEF Packaging
  <2>7. PublicationCallSound'
    BY <2>4, <2>6 DEF PublicationCallSound
  <2>8. ChainsSound'
    BY <2>4, <2>5 DEF PublicationInv, ChainsSound
  <2> QED BY <2>4, <2>7, <2>8, PublicationQuiet
<1>14. CASE Exports(draft, format) = {}
  <2>1. CASE Put(ExportOf(m, format))
    <3>1. PICK a, new : a = ExportOf(m, format) /\ new = Latest + 1
      OBVIOUS
    <3>2. Put(a) /\ a.kind = "export" /\ a.draft = draft /\ a.format = format
      BY <1>11, <2>1, <3>1 DEF ExportOf
    <3>3. /\ Kept /\ StoredSound' /\ new \notin Stored /\ new \in Stored' /\ stored'[new] = a
          /\ OfKind("formatted manuscript")' = OfKind("formatted manuscript")
          /\ OfKind("export")' = OfKind("export") \cup {new}
      BY <3>1, <3>2, PublicationPut
    <3>4. stored' # stored /\ new = Len(stored) + 1
      BY <3>1, <3>3 DEF Stored, Latest
    <3>5. PICK next : next = [manuscript |-> m, exports |-> S \cup {new}, todo |-> rest, failed |-> failed]
      OBVIOUS
    <3>6. prov' = prov /\ at' = "package" /\ call' = next
      <4>1. /\ call' = [base EXCEPT !.exports = @ \cup {new}]
            /\ prov' = prov /\ at' = "package"
        BY <1>1, <1>5, <1>7, <1>11, <1>8, <1>14, <3>4 DEF PackageExport, PutThen, Goto
      <4>2. [base EXCEPT !.exports = @ \cup {new}] = next
        <5>1. PICK T : T = S \cup {new}
          OBVIOUS
        <5>2. base.exports = S
          BY <1>9
        <5>3. [base EXCEPT !.exports = T]
                = [manuscript |-> m, exports |-> T, todo |-> rest, failed |-> failed]
          BY <1>9
        <5>4. [base EXCEPT !.exports = @ \cup {new}] = [base EXCEPT !.exports = T]
          BY <5>1, <5>2
        <5> QED BY <3>5, <5>1, <5>3, <5>4
      <4> QED BY <4>1, <4>2
    <3>7. Packaging(next)'
      <4>1. /\ \A e \in S : stored'[e] = stored[e]
            /\ stored'[m] = stored[m] /\ FormattedManuscripts' = FormattedManuscripts
        BY <3>3 DEF Kept, OfKind, FormattedManuscripts
      <4>2. next \in [manuscript : FormattedManuscripts, exports : SUBSET (OfKind("export") \cup {new}),
                      todo : Seq(ToSet(Formats)), failed : BOOLEAN]
        BY <1>6, <1>10, <3>5
      <4>3. \A e \in S \cup {new} : stored'[e].draft = draft
        BY <1>12, <3>2, <3>3, <4>1
      <4>4. {stored'[e].format : e \in S \cup {new}} = {stored[e].format : e \in S} \cup {format}
        <5>1. stored'[new].format = format
          BY <3>2, <3>3
        <5>2. \A e \in S : stored'[e].format = stored[e].format
          BY <4>1
        <5> QED BY <5>1, <5>2
      <4>5. ~failed => {stored'[e].format : e \in S \cup {new}} \cup ToSet(rest) = ToSet(Formats)
        BY <1>10, <1>12, <4>4
      <4>6. next.manuscript = m /\ next.exports = S \cup {new} /\ next.todo = rest /\ next.failed = failed
        BY <3>5
      <4> QED BY <1>11, <3>3, <4>1, <4>2, <4>3, <4>5, <4>6 DEF Packaging
    <3>8. PublicationCallSound'
      BY <3>6, <3>7 DEF PublicationCallSound
    <3> QED BY <1>11, <1>14, <3>1, <3>2, <3>6, <3>8, ExportPut
  <2>2. CASE ~Put(ExportOf(m, format))
    <3>1. PICK next : next = [manuscript |-> m, exports |-> S, todo |-> rest, failed |-> TRUE]
      OBVIOUS
    <3>2. stored' = stored /\ prov' = prov /\ at' = "package" /\ call' = next
      <4>1. /\ call' = [base EXCEPT !.failed = TRUE]
            /\ stored' = stored /\ prov' = prov /\ at' = "package"
        BY <1>1, <1>5, <1>7, <1>11, <1>8, <1>14, <2>2 DEF PackageExport, PutThen, Goto
      <4>2. [base EXCEPT !.failed = TRUE] = next
        <5>1. PICK yes : yes = TRUE
          OBVIOUS
        <5>2. [base EXCEPT !.failed = yes] = [manuscript |-> m, exports |-> S, todo |-> rest, failed |-> yes]
          BY <1>9
        <5> QED BY <3>1, <5>1, <5>2
      <4> QED BY <4>1, <4>2
    <3>3. FormattedManuscripts' = FormattedManuscripts /\ OfKind("export")' = OfKind("export")
      BY <3>2 DEF FormattedManuscripts, OfKind, Stored
    <3>4. Packaging(next)'
      <4>1. next \in [manuscript : FormattedManuscripts, exports : SUBSET OfKind("export"),
                      todo : Seq(ToSet(Formats)), failed : BOOLEAN]
        BY <1>10, <3>1
      <4>2. next.manuscript = m /\ next.exports = S /\ next.failed
        BY <3>1
      <4> QED BY <1>11, <1>12, <3>2, <3>3, <4>1, <4>2 DEF Packaging
    <3>5. PublicationCallSound'
      BY <3>2, <3>4 DEF PublicationCallSound
    <3>6. ChainsSound'
      BY <3>2, <3>3 DEF PublicationInv, ChainsSound
    <3> QED BY <3>2, <3>5, <3>6, PublicationQuiet
  <2> QED BY <2>1, <2>2
<1> QED BY <1>13, <1>14

(* A package is ready with every format.                                    *)
LEMMA PutPackageKeeps ==
    ASSUME PublicationInv, NEW letterFails \in BOOLEAN, PutPackage(letterFails)
    PROVE  PublicationInv'
<1>1. Packaging(call) /\ call.todo = <<>>
  BY DEF PutPackage, PublicationInv, PublicationCallSound
<1>2. PICK m \in FormattedManuscripts, S \in SUBSET OfKind("export"), failed \in BOOLEAN :
         /\ m = call.manuscript /\ S = call.exports /\ failed = call.failed
         /\ \A e \in S : stored[e].draft = stored[m].draft
         /\ ~failed => {stored[e].format : e \in S} = ToSet(Formats)
  <2>1. ToSet(<<>>) = {}
    BY DEF ToSet
  <2> QED BY <1>1, <2>1 DEF Packaging
<1>3. PICK status : status = PackageStatus(failed \/ letterFails)
  OBVIOUS
<1>4. status = "ready" => stored[m].status = "validated" /\ {stored[e].format : e \in S} = ToSet(Formats)
  BY <1>2, <1>3 DEF PackageStatus
<1>5. PICK a : a = [kind |-> "submission package", manuscript |-> m, exports |-> S, status |-> status]
  OBVIOUS
<1>6. Put(a) /\ prov' = prov /\ at' = "execution"
  BY <1>2, <1>3, <1>5 DEF PutPackage, PutThen, Goto
<1>7. a.kind = "submission package" /\ a.manuscript = m /\ a.exports = S /\ a.status = status
  BY <1>5
<1>8. PICK new : new = Latest + 1
  OBVIOUS
<1>9. /\ Kept /\ StoredSound' /\ new \notin Stored /\ stored'[new] = a
      /\ OfKind("formatted manuscript")' = OfKind("formatted manuscript")
      /\ OfKind("export")' = OfKind("export")
      /\ OfKind("submission package")' = OfKind("submission package") \cup {new}
  BY <1>6, <1>7, <1>8, PublicationPut
<1>10. FormattedManuscripts' = FormattedManuscripts
  BY <1>9 DEF FormattedManuscripts
<1>11. /\ \A n \in FormattedManuscripts' : FormattedSound(n)'
       /\ \A q \in OfKind("submission package") : PackageSound(q)'
  BY <1>9, <1>10, PublicationKept
<1>12. /\ \A n \in FormattedManuscripts : stored'[n] = stored[n]
       /\ \A e \in OfKind("export") : stored'[e] = stored[e]
  BY <1>9 DEF Kept, FormattedManuscripts, OfKind
<1>13. PackageSound(new)'
  <2>1. {stored'[e].format : e \in S} = {stored[e].format : e \in S}
    BY <1>12
  <2>2. \A e \in S : stored'[e].draft = stored'[m].draft
    BY <1>2, <1>12
  <2>3. status = "ready" =>
           stored'[m].status = "validated" /\ {stored'[e].format : e \in S} = ToSet(Formats)
    BY <1>4, <1>12, <2>1
  <2> QED BY <1>7, <1>9, <1>10, <2>2, <2>3 DEF PackageSound
<1>14. ChainsSound'
  BY <1>6, <1>10 DEF PublicationInv, ChainsSound
<1>15. FormattedOnce' /\ ExportedOnce'
  BY <1>9, <1>10, MadeStays
<1>16. PublicationCallSound'
  BY <1>6, PublicationReturns
<1> QED BY <1>9, <1>11, <1>13, <1>14, <1>15, <1>16 DEF PublicationInv

LEMMA PutPublicationExecutionKeeps ==
    ASSUME PublicationInv, PutPublicationExecution
    PROVE  PublicationInv'
<1>1. PICK a : a = [kind |-> "publication execution", package |-> Latest]
  OBVIOUS
<1>2. Put(a) /\ prov' = prov /\ at' = "idle" /\ a.kind = "publication execution"
  BY <1>1 DEF PutPublicationExecution, Return
<1> QED BY <1>2, OtherPut, PublicationReturns

(* Steps that leave the artifacts and links alone and end the call, or none. *)
LEMMA PublicationStays ==
    ASSUME PublicationInv, UNCHANGED <<stored, prov>>, at' = "idle" \/ UNCHANGED <<at, call>>
    PROVE  PublicationInv'
<1>1. /\ FormattedManuscripts' = FormattedManuscripts /\ OfKind("export")' = OfKind("export")
      /\ stored' = stored /\ prov' = prov
  BY DEF FormattedManuscripts, OfKind, Stored
<1>2. ChainsSound'
  BY <1>1 DEF PublicationInv, ChainsSound
<1>3. CASE at' = "idle"
  BY <1>1, <1>2, <1>3, PublicationQuiet, PublicationReturns
<1>4. CASE UNCHANGED <<at, call>>
  <2>1. ASSUME ToBePut PROVE ToBePut'
    <3>1. PICK d \in DOMAIN Drafts, p \in DOMAIN Profiles, fits \in BOOLEAN, kept \in BOOLEAN :
             /\ call.new = Formatting(d, p, fits, kept, "formatted")
             /\ Formatted(d, p) = {}
             /\ kept => VerifiedNow(d)
      BY <2>1 DEF ToBePut
    <3>2. \A kind : OfKind(kind)' = OfKind(kind)
      BY <1>1 DEF OfKind, Stored
    <3>3. VerifiedNow(d) => VerifiedNow(d)'
      BY <1>1, <3>2 DEF VerifiedNow
    <3>4. Formatted(d, p)' = {}
      BY <1>1, <3>1, <3>2 DEF Formatted
    <3>5. call'.new = call.new
      BY <1>4
    <3> QED BY <3>1, <3>3, <3>4, <3>5 DEF ToBePut
  <2>2. \A k : Packaging(k)' = Packaging(k)
    BY <1>1 DEF Packaging
  <2>3. PublicationCallSound'
    BY <1>1, <1>4, <2>1, <2>2 DEF PublicationInv, PublicationCallSound, Latest
  <2> QED BY <1>1, <1>2, <2>3, PublicationQuiet
<1> QED BY <1>3, <1>4

LEMMA PublicationInductive ==
    PublicationInv /\ [PublicationNext]_researchVars => PublicationInv'
<1> SUFFICES ASSUME PublicationInv, [PublicationNext]_researchVars PROVE PublicationInv'
  OBVIOUS
<1>1. ASSUME NEW p \in Propositions, NEW status \in {"verified", "failed"}, Verify(p, status)
      PROVE  PublicationInv'
  BY <1>1, VerifyKeeps
<1>2. ASSUME NEW d \in DOMAIN Drafts, NEW p \in DOMAIN Profiles, FormatAgain(d, p)
      PROVE  PublicationInv'
  BY <1>2, PublicationStays DEF FormatAgain, researchVars
<1>3. ASSUME NEW d \in DOMAIN Drafts, NEW p \in DOMAIN Profiles, NEW fits \in BOOLEAN, Format(d, p, fits)
      PROVE  PublicationInv'
  BY <1>3, FormatKeeps
<1>4. CASE PutBibliography
  BY <1>4, PutBibliographyKeeps
<1>5. CASE PutManuscript
  BY <1>5, PutManuscriptKeeps
<1>6. ASSUME NEW m \in OfKind("formatted manuscript"), ValidateManuscript(m)
      PROVE  PublicationInv'
  BY <1>6, ValidateManuscriptKeeps DEF FormattedManuscripts
<1>7. ASSUME NEW m \in OfKind("formatted manuscript"), Package(m)
      PROVE  PublicationInv'
  BY <1>7, PackageKeeps DEF FormattedManuscripts
<1>8. ASSUME NEW m \in OfKind("formatted manuscript"), NEW format \in ToSet(Formats), Export(m, format)
      PROVE  PublicationInv'
  BY <1>8, ExportKeeps DEF FormattedManuscripts
<1>9. CASE PutValidated
  BY <1>9, PutValidatedKeeps
<1>10. CASE SupersedeManuscript
  BY <1>10, SupersedeManuscriptKeeps
<1>11. CASE PackageExport
  BY <1>11, PackageExportKeeps
<1>12. ASSUME NEW letterFails \in BOOLEAN, PutPackage(letterFails)
       PROVE  PublicationInv'
  BY <1>12, PutPackageKeeps
<1>13. CASE PutPublicationExecution
  BY <1>13, PutPublicationExecutionKeeps
<1>14. CASE Die
  BY <1>14, PublicationStays DEF Die
<1>15. CASE UNCHANGED researchVars
  BY <1>15, PublicationStays DEF researchVars
<1> QED BY <1>1, <1>2, <1>3, <1>4, <1>5, <1>6, <1>7, <1>8, <1>9, <1>10, <1>11, <1>12, <1>13, <1>14, <1>15
        DEF PublicationNext

(* A manuscript's sections are those of its draft.                          *)
LEMMA SectionsOrdered ==
    ASSUME NEW d \in DOMAIN Drafts, NEW p \in DOMAIN Profiles, NEW order, order = Profiles[p].order
    PROVE  ToSet(Ordered(d, order)) = {s.id : s \in ToSet(Drafts[d])}
<1>1. PICK list : list = Drafts[d]
  OBVIOUS
<1>2. PICK ids : ids = [k \in DOMAIN list |-> list[k].id]
  OBVIOUS
<1>3. PICK T : T = {s.id : s \in ToSet(list)}
  OBVIOUS
<1>4. Len(list) \in Nat /\ DOMAIN list = 1 .. Len(list)
  BY <1>1, DraftsAssumption
<1>5. ids \in Seq(T) /\ ToSet(ids) = T
  <2>1. \A k \in 1 .. Len(list) : list[k].id \in T
    BY <1>3, <1>4 DEF ToSet
  <2>2. ids = [k \in 1 .. Len(list) |-> list[k].id]
    BY <1>2, <1>4
  <2>3. ids \in Seq(T)
    BY <1>4, <2>1, <2>2
  <2>4. DOMAIN ids = DOMAIN list /\ \A k \in DOMAIN list : ids[k] = list[k].id
    BY <1>2
  <2>5. ToSet(ids) = T
    BY <1>3, <2>4 DEF ToSet
  <2> QED BY <2>3, <2>5
<1>6. order \in Seq(ToSet(order))
  BY ProfilesAssumption
<1>7. PICK first, others : first = Among(order, T) /\ others = Among(ids, T \ ToSet(order))
  OBVIOUS
<1>8. Ordered(d, order) = first \o others
  BY <1>1, <1>2, <1>5, <1>7 DEF Ordered
<1>9. first \in Seq(ToSet(order)) /\ ToSet(first) = ToSet(order) \cap T
  BY <1>6, <1>7, AmongLists
<1>10. others \in Seq(T) /\ ToSet(others) = T \ ToSet(order)
  <2>1. ToSet(others) = ToSet(ids) \cap (T \ ToSet(order)) /\ others \in Seq(T)
    BY <1>5, <1>7, AmongLists
  <2> QED BY <1>5, <2>1
<1>11. ToSet(first \o others) = ToSet(first) \cup ToSet(others)
  <2>1. PICK all : all = first \o others
    OBVIOUS
  <2>2. /\ Len(first) \in Nat /\ Len(others) \in Nat
        /\ DOMAIN first = 1 .. Len(first) /\ DOMAIN others = 1 .. Len(others)
        /\ DOMAIN all = 1 .. Len(first) + Len(others)
        /\ \A i \in 1 .. Len(first) : all[i] = first[i]
        /\ \A i \in Len(first) + 1 .. Len(first) + Len(others) : all[i] = others[i - Len(first)]
    <3> DEFINE U == ToSet(order) \cup T
    <3>1. first \in Seq(U) /\ others \in Seq(U)
      BY <1>9, <1>10
    <3> HIDE DEF U
    <3> QED BY ONLY <2>1, <3>1
  <2>3. ASSUME NEW i \in DOMAIN all PROVE all[i] \in ToSet(first) \cup ToSet(others)
    <3>1. CASE i \in 1 .. Len(first)
      BY <2>2, <3>1 DEF ToSet
    <3>2. CASE i \notin 1 .. Len(first)
      <4>1. i \in Len(first) + 1 .. Len(first) + Len(others) /\ i - Len(first) \in 1 .. Len(others)
        BY <2>2, <2>3, <3>2
      <4> QED BY <2>2, <4>1 DEF ToSet
    <3> QED BY <3>1, <3>2
  <2>4. ASSUME NEW i \in DOMAIN first PROVE first[i] \in ToSet(all)
    <3>1. i \in DOMAIN all /\ all[i] = first[i]
      BY <2>2
    <3> QED BY <3>1 DEF ToSet
  <2>5. ASSUME NEW i \in DOMAIN others PROVE others[i] \in ToSet(all)
    <3>1. PICK j : j = i + Len(first)
      OBVIOUS
    <3>2. j \in DOMAIN all /\ j \in Len(first) + 1 .. Len(first) + Len(others) /\ j - Len(first) = i
      BY <2>2, <3>1
    <3> QED BY <2>2, <3>2 DEF ToSet
  <2>6. /\ ToSet(all) \subseteq ToSet(first) \cup ToSet(others)
        /\ ToSet(first) \subseteq ToSet(all) /\ ToSet(others) \subseteq ToSet(all)
    BY <2>3, <2>4, <2>5 DEF ToSet
  <2> QED BY <2>1, <2>6
<1> QED BY <1>1, <1>3, <1>8, <1>9, <1>10, <1>11

(* Where sections do not share citation ids and use only what they declare, *)
(* the bibliography lists every paper the text cites.                       *)
LEMMA CitesCovered ==
    ASSUME NEW d \in DOMAIN Drafts, ~SharedIds(d),
           \A s \in ToSet(Drafts[d]) : s.used \subseteq DOMAIN s.cites
    PROVE  CitedInText(d) \subseteq Entries(d)
<1>1. PICK list : list = Drafts[d]
  OBVIOUS
<1>2. Len(list) \in Nat /\ DOMAIN list = 1 .. Len(list)
  BY <1>1, DraftsAssumption
<1>3. PICK map : map = CitationMap(d)
  OBVIOUS
<1>4. SUFFICES ASSUME NEW s \in ToSet(list), NEW c \in s.used
               PROVE  s.cites[c] \in Entries(d)
  BY <1>1 DEF CitedInText
<1>5. c \in DOMAIN s.cites
  BY <1>1, <1>4
<1>6. PICK K, last : K = {k \in DOMAIN list : c \in DOMAIN list[k].cites} /\ last = Max(K)
  OBVIOUS
<1>7. last \in K
  <2>1. K \in SUBSET (1 .. Len(list))
    BY <1>2, <1>6
  <2>2. K # {}
    BY <1>4, <1>5, <1>6 DEF ToSet
  <2> QED BY <1>2, <1>6, <2>1, <2>2, LastPlace
<1>8. c \in DOMAIN map /\ map[c] = list[last].cites[c]
  <2>1. c \in UNION {DOMAIN t.cites : t \in ToSet(list)}
    BY <1>4, <1>5
  <2> QED BY <1>1, <1>3, <1>6, <2>1 DEF CitationMap
<1>9. list[last] \in ToSet(list) /\ c \in DOMAIN list[last].cites
  BY <1>6, <1>7 DEF ToSet
<1>10. list[last].cites[c] = s.cites[c]
  BY <1>1, <1>4, <1>5, <1>9 DEF SharedIds
<1>11. c \in UNION {t.used : t \in ToSet(list)} /\ c \in DOMAIN map
  <2>1. s.used \in {t.used : t \in ToSet(list)}
    BY <1>4
  <2> QED BY <1>4, <1>8, <2>1
<1>12. map[c] \in Entries(d)
  <2>1. PICK used : used = (UNION {t.used : t \in ToSet(list)}) \cap DOMAIN map
    OBVIOUS
  <2>2. c \in used
    BY <1>11, <2>1
  <2>3. Entries(d) = {map[x] : x \in used}
    BY <1>1, <1>3, <2>1 DEF Entries
  <2> QED BY <2>2, <2>3
<1> QED BY <1>8, <1>10, <1>12

\* Of an order, what is there is there in that order.
OrderKept(sections, order) ==
    LET place(id) == CHOOSE k \in DOMAIN sections : sections[k] = id
    IN  \A j, k \in DOMAIN order :
           j < k /\ {order[j], order[k]} \subseteq ToSet(sections) => place(order[j]) < place(order[k])

(* A manuscript that passed has its profile's order.                        *)
LEMMA PlacesOrdered ==
    ASSUME NEW p \in DOMAIN Profiles, NEW order, order = Profiles[p].order,
           NEW sections, order # <<>> => sections = Among(order, ToSet(sections))
    PROVE  OrderKept(sections, order)
<1>1. order \in Seq(ToSet(order)) /\ IsInjective(order)
  BY ProfilesAssumption
<1>2. PICK present : present = ToSet(sections)
  OBVIOUS
<1>3. ASSUME NEW j \in DOMAIN order, NEW k \in DOMAIN order, order[j] \in present, order[k] \in present,
             j < k
      PROVE  (CHOOSE x \in DOMAIN sections : sections[x] = order[j])
                < (CHOOSE x \in DOMAIN sections : sections[x] = order[k])
  <2>1. order # <<>>
    BY <1>3
  <2>2. sections = Among(order, present)
    BY <1>2, <2>1
  <2>3. \A a, b \in DOMAIN sections, i, l \in DOMAIN order :
           sections[a] = order[i] /\ sections[b] = order[l] /\ i < l => a < b
    BY <1>1, <2>2, AmongLists
  <2>4. PICK a, b : /\ a = CHOOSE x \in DOMAIN sections : sections[x] = order[j]
                    /\ b = CHOOSE x \in DOMAIN sections : sections[x] = order[k]
    OBVIOUS
  <2>5. a \in DOMAIN sections /\ sections[a] = order[j]
    <3>1. \E x \in DOMAIN sections : sections[x] = order[j]
      BY <1>2, <1>3 DEF ToSet
    <3> QED BY <2>4, <3>1
  <2>6. b \in DOMAIN sections /\ sections[b] = order[k]
    <3>1. \E x \in DOMAIN sections : sections[x] = order[k]
      BY <1>2, <1>3 DEF ToSet
    <3> QED BY <2>4, <3>1
  <2>7. a < b
    BY <1>3, <2>3, <2>5, <2>6
  <2> QED BY <2>4, <2>7
<1> QED BY <1>2, <1>3 DEF OrderKept

\* What SubmittedWhole says of a package that is ready.
WholePackage(p) ==
    LET manuscript == stored[stored[p].manuscript]
        profile == Profiles[manuscript.profile]
    IN  /\ ToSet(manuscript.sections) = {s.id : s \in ToSet(Drafts[manuscript.draft])}
        /\ profile.required \subseteq ToSet(manuscript.sections)
        /\ OrderKept(manuscript.sections, profile.order)
        /\ VerifiedBefore(manuscript.draft, stored[p].manuscript)
        /\ ~SharedIds(manuscript.draft) => CitedInText(manuscript.draft) \subseteq manuscript.entries
        /\ {stored[e].format : e \in stored[p].exports} = ToSet(Formats)
        /\ \A e \in stored[p].exports : stored[e].draft = manuscript.draft

(* A package that is ready is whole.                                        *)
LEMMA ReadyIsWhole ==
    ASSUME PublicationInv, NEW q \in OfKind("submission package"), stored[q].status = "ready"
    PROVE  WholePackage(q)
<1>1. PICK m, manuscript : m = stored[q].manuscript /\ manuscript = stored[m]
  OBVIOUS
<1>2. PackageSound(q)
  BY DEF PublicationInv
<1>3. /\ m \in FormattedManuscripts /\ manuscript.status = "validated"
      /\ {stored[e].format : e \in stored[q].exports} = ToSet(Formats)
      /\ \A e \in stored[q].exports : stored[e].draft = manuscript.draft
  BY <1>1, <1>2 DEF PackageSound
<1>4. FormattedSound(m)
  BY <1>3 DEF PublicationInv
<1>5. PICK d \in DOMAIN Drafts, p \in DOMAIN Profiles :
         \E fits, kept, status :
            /\ manuscript = Formatting(d, p, fits, kept, status)
            /\ kept => VerifiedBefore(d, m)
            /\ status = "validated" => Passes(manuscript)
  BY <1>1, <1>4 DEF FormattedSound
<1>6. PICK fits, kept, status :
         /\ manuscript = Formatting(d, p, fits, kept, status)
         /\ kept => VerifiedBefore(d, m)
         /\ status = "validated" => Passes(manuscript)
  BY <1>5
<1>7. PICK sections, order, required :
         /\ sections = manuscript.sections /\ order = Profiles[p].order
         /\ required = Profiles[p].required
  OBVIOUS
<1>8. /\ manuscript.draft = d /\ manuscript.profile = p /\ sections = Ordered(d, order)
      /\ manuscript.entries = Entries(d) /\ manuscript.kept = kept /\ manuscript.status = status
  BY <1>6, <1>7 DEF Formatting
<1>9. Passes(manuscript)
  BY <1>3, <1>6, <1>8
<1>10. /\ kept
       /\ \A s \in ToSet(Drafts[d]) : s.used \subseteq DOMAIN s.cites
       /\ required \subseteq ToSet(sections)
       /\ order # <<>> => sections = Among(order, ToSet(sections))
  BY <1>7, <1>8, <1>9 DEF Passes
<1>11. ToSet(sections) = {s.id : s \in ToSet(Drafts[d])}
  <2>1. sections = Ordered(d, order)
    BY <1>8
  <2>2. order = Profiles[p].order
    BY <1>7
  <2>3. ToSet(Ordered(d, order)) = {s.id : s \in ToSet(Drafts[d])}
    BY <2>2, SectionsOrdered
  <2> QED BY <2>1, <2>3
<1>12. OrderKept(sections, order)
  <2>1. order = Profiles[p].order /\ (order # <<>> => sections = Among(order, ToSet(sections)))
    BY <1>7, <1>10
  <2> QED BY <2>1, PlacesOrdered
<1>13. VerifiedBefore(d, m)
  BY <1>6, <1>10
<1>14. ~SharedIds(d) => CitedInText(d) \subseteq Entries(d)
  BY <1>10, CitesCovered
<1> QED BY <1>1, <1>3, <1>7, <1>8, <1>10, <1>11, <1>12, <1>13, <1>14 DEF WholePackage

LEMMA PublicationsWhole == ASSUME PublicationInv PROVE SubmittedWhole
<1>1. \A q \in OfKind("submission package") : stored[q].status = "ready" => WholePackage(q)
  BY ReadyIsWhole
<1>2. FormattedOnce /\ ExportedOnce
  BY DEF PublicationInv
<1> QED BY <1>1, <1>2
        DEF SubmittedWhole, FormattedOnce, ExportedOnce, FormattedManuscripts, WholePackage, OrderKept,
            VerifiedBefore

LEMMA PublicationInit == NothingStored => PublicationInv
<1> SUFFICES ASSUME NothingStored PROVE PublicationInv
  OBVIOUS
<1>1. StoredSound /\ at = "idle" /\ prov = {} /\ \A kind : OfKind(kind) = {}
  BY NothingIsStored DEF NothingStored
<1>2. FormattedManuscripts = {}
  BY <1>1 DEF FormattedManuscripts
<1> QED BY <1>1, <1>2 DEF PublicationInv, ChainsSound, FormattedOnce, ExportedOnce, PublicationCallSound

(* A draft is formatted for a profile and exported in a format once, and a  *)
(* package is ready only with a manuscript that passed, whose sections,     *)
(* order, verified propositions and bibliography are as they have to be,    *)
(* and an export in every format, however often calls are made, fail and    *)
(* are cut short.                                                           *)
THEOREM SubmissionsWhole == PublicationSpec => []SubmittedWhole
<1>1. NothingStored => PublicationInv
  BY PublicationInit
<1>2. PublicationInv /\ [PublicationNext]_researchVars => PublicationInv'
  BY PublicationInductive
<1>3. PublicationInv => SubmittedWhole
  BY PublicationsWhole
<1> QED BY <1>1, <1>2, <1>3, PTL DEF PublicationSpec
=============================================================================
