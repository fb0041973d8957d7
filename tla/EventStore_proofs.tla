------------------------- MODULE EventStore_proofs -------------------------
(***************************************************************************)
(* Theorems about the event store, for every catalogue of events.          *)
(***************************************************************************)
EXTENDS EventStore, TLAPS

\* What EventContent says of an event.
LEMMA ContentTypes ==
    ASSUME NEW e \in Id
    PROVE  /\ AuthorOf(e) \in Author
           /\ KindOf(e) \in Nat
           /\ CreatedAt(e) \in Nat
           /\ ExpiresAt(e) \in Nat \cup {NoExpiry}
           /\ DTags(e) \in Seq(Value \cup {NoValue})
           /\ ETags(e) \subseteq Id \X Spelling
BY EventsAssumption
   DEF EventContent, AuthorOf, KindOf, CreatedAt, ExpiresAt, DTags, ETags

\* A kind belongs to one class only.
LEMMA KindClasses ==
    ASSUME NEW e \in Id
    PROVE  /\ IsReplaceable(e) => ~IsParamReplaceable(e) /\ ~IsDeletion(e)
           /\ IsParamReplaceable(e) => ~IsDeletion(e)
BY ContentTypes
   DEF IsReplaceable, IsParamReplaceable, IsDeletion, ReplaceableKind, ParamReplaceableKind

\* Versions of a stored event agree on its class.
LEMMA SameKindSameClass ==
    ASSUME NEW e \in Id, NEW f \in Id, SameAuthorKind(e, f)
    PROVE  /\ IsReplaceable(e) <=> IsReplaceable(f)
           /\ IsParamReplaceable(e) <=> IsParamReplaceable(f)
           /\ IsDeletion(e) <=> IsDeletion(f)
BY DEF SameAuthorKind, IsReplaceable, IsParamReplaceable, IsDeletion

\* What the two DELETE statements of persist_event leave, when the event was not
\* shadowed: only older versions go, all of them go, and the new row stays unless
\* its own d value is in two of its tags.
LEMMA SurvivorsLemma ==
    ASSUME event \subseteq Id,
           NEW n \in Id, ~Ignored(n),
           NEW kept \in Survivors(event \cup {n}, n)
    PROVE  /\ kept \subseteq event \cup {n}
           /\ \A r \in event \ kept :
                 /\ SameAuthorKind(r, n) /\ CreatedAt(r) < CreatedAt(n)
                 /\ \/ IsReplaceable(n)
                    \/ IsParamReplaceable(n) /\ DistinctParam(n) \in DValues(r)
           /\ ~RepeatsValue(n, DistinctParam(n)) => n \in kept
           /\ IsReplaceable(n) => n \in kept
           /\ IsReplaceable(n) => \A r \in kept : SameAuthorKind(r, n) => r = n
           /\ IsParamReplaceable(n) /\ DistinctParam(n) \in DValues(n) =>
                \A r \in kept :
                    SameAuthorKind(r, n) /\ DistinctParam(n) \in DValues(r) => r = n
<1> DEFINE rows == event \cup {n}
<1>a. \A r \in rows : CreatedAt(r) \in Nat
  BY ContentTypes
<1>b. n \notin event
  BY DEF Ignored
<1>c. SameAuthorKind(n, n)
  BY DEF SameAuthorKind
<1>1. CASE IsReplaceable(n)
  <2>1. \A r \in event : SameAuthorKind(r, n) => CreatedAt(r) < CreatedAt(n)
    BY <1>1, <1>a DEF Ignored, ShadowedReplaceable
  <2>2. n \in Versions(rows, n)
    BY <1>c DEF Versions
  <2>3. \A first \in Newest(Versions(rows, n)) : first = n
    <3>1. SUFFICES ASSUME NEW first \in Newest(Versions(rows, n)), first # n
                   PROVE  FALSE
      OBVIOUS
    <3>2. first \in event /\ SameAuthorKind(first, n)
      BY <3>1 DEF Newest, Versions
    <3>3. CreatedAt(n) <= CreatedAt(first)
      BY <2>2, <3>1 DEF Newest
    <3>. QED BY <2>1, <3>2, <3>3, <1>a
  <2>4. kept = rows \ (Versions(rows, n) \ {n})
    BY <1>1, <2>3 DEF Survivors
  <2>5. ~IsParamReplaceable(n)
    BY <1>1, KindClasses
  <2>. QED BY <1>1, <1>b, <2>1, <2>4, <2>5 DEF Versions
<1>2. CASE ~IsReplaceable(n) /\ IsParamReplaceable(n) /\ ParamVersions(rows, n) # {}
  <2>1. \A r \in event :
            SameAuthorKind(r, n) /\ DistinctParam(n) \in DValues(r)
                => CreatedAt(r) < CreatedAt(n)
    BY <1>2, <1>a DEF Ignored, ShadowedParam
  <2>2. PICK first \in Newest(ParamVersions(rows, n)) :
               kept = rows \ (ParamVersions(rows, n) \ Skipped(first, n))
    BY <1>2 DEF Survivors
  <2>3. DistinctParam(n) \in DValues(n) => first = n
    <3>1. SUFFICES ASSUME DistinctParam(n) \in DValues(n), first # n
                   PROVE  FALSE
      OBVIOUS
    <3>2. n \in ParamVersions(rows, n)
      BY <3>1, <1>c DEF ParamVersions, Versions
    <3>3. /\ first \in event /\ SameAuthorKind(first, n)
          /\ DistinctParam(n) \in DValues(first)
      BY <2>2, <3>1 DEF Newest, ParamVersions, Versions
    <3>4. CreatedAt(n) <= CreatedAt(first)
      BY <3>2, <2>2 DEF Newest
    <3>. QED BY <2>1, <3>3, <3>4, <1>a
  <2>4. kept \subseteq rows
    BY <2>2
  <2>5. \A r \in rows \ kept : SameAuthorKind(r, n) /\ DistinctParam(n) \in DValues(r)
    BY <2>2 DEF ParamVersions, Versions
  <2>6. ~RepeatsValue(n, DistinctParam(n)) => n \in kept
    <3>1. SUFFICES ASSUME ~RepeatsValue(n, DistinctParam(n)), n \notin kept
                   PROVE  FALSE
      OBVIOUS
    <3>2. first = n
      BY <2>5, <3>1, <2>3
    <3>3. n \in Skipped(first, n)
      BY <3>1, <3>2 DEF Skipped
    <3>. QED BY <2>2, <3>1, <3>3
  <2>7. DistinctParam(n) \in DValues(n) =>
          \A r \in kept :
              SameAuthorKind(r, n) /\ DistinctParam(n) \in DValues(r) => r = n
    <3>1. SUFFICES ASSUME DistinctParam(n) \in DValues(n),
                          NEW r \in kept, SameAuthorKind(r, n),
                          DistinctParam(n) \in DValues(r)
                   PROVE  r = n
      OBVIOUS
    <3>2. r \in ParamVersions(rows, n)
      BY <3>1, <2>4 DEF ParamVersions, Versions
    <3>3. r \in Skipped(first, n)
      BY <3>2, <2>2
    <3>. QED BY <3>1, <3>3, <2>3 DEF Skipped
  <2>. QED BY <1>2, <2>1, <2>4, <2>5, <2>6, <2>7
<1>3. CASE ~IsReplaceable(n) /\ ~(IsParamReplaceable(n) /\ ParamVersions(rows, n) # {})
  <2>1. kept = rows
    BY <1>3 DEF Survivors
  <2>2. IsParamReplaceable(n) => DistinctParam(n) \notin DValues(n)
    BY <1>3, <1>c DEF ParamVersions, Versions
  <2>. QED BY <1>3, <2>1, <2>2
<1>. QED BY <1>1, <1>2, <1>3

-----------------------------------------------------------------------------
(* The inductive invariant. *)

LEMMA InitStoreInv == Init => StoreInv
BY DEF Init, StoreInv, TypeOK, OneReplaceable, OneAddressable, DeletedStaysHidden,
       HiddenMeansDeleted

LEMMA DeletionPreservesStoreInv ==
    ASSUME StoreInv, NEW n \in Id, WriteDeletion(n)
    PROVE  StoreInv'
<1>1. /\ event' = event \cup {n}
      /\ hidden' = hidden \cup {r \in event : HiddenBy(r, n)}
      /\ received' = received \cup {n} /\ announced' = {n} /\ now' = now
      /\ IsDeletion(n) /\ n \notin event
  BY DEF WriteDeletion, Ignored
<1>2. TypeOK' /\ (event \subseteq received)'
  BY <1>1 DEF StoreInv, TypeOK
<1>3. ~IsReplaceable(n) /\ ~IsParamReplaceable(n)
  BY <1>1, KindClasses
<1>4. OneReplaceable'
  BY <1>1, <1>3, SameKindSameClass DEF StoreInv, TypeOK, OneReplaceable
<1>5. OneAddressable'
  BY <1>1, <1>3, SameKindSameClass DEF StoreInv, TypeOK, OneAddressable
<1>6. DeletedStaysHidden'
  <2>1. SUFFICES ASSUME NEW e \in event', NEW d \in event', DeletionOnRecord(e, d)
                 PROVE  e \in hidden'
    BY DEF DeletedStaysHidden
  <2>2. e \in event
    BY <2>1, <1>1 DEF DeletionOnRecord
  <2>3. CASE d \in event
    BY <2>1, <2>2, <2>3, <1>1 DEF StoreInv, DeletedStaysHidden
  <2>4. CASE d = n
    BY <2>1, <2>2, <2>4, <1>1 DEF DeletionOnRecord, HiddenBy, Spelling
  <2>. QED BY <2>1, <2>3, <2>4, <1>1
<1>7. HiddenMeansDeleted'
  BY <1>1 DEF StoreInv, HiddenMeansDeleted
<1>. QED BY <1>2, <1>4, <1>5, <1>6, <1>7 DEF StoreInv

LEMMA OrdinaryPreservesStoreInv ==
    ASSUME StoreInv, NEW n \in Id, WriteOrdinary(n)
    PROVE  StoreInv'
<1>1. PICK kept \in Survivors(event \cup {n}, n) :
         /\ event' = kept
         /\ hidden' = kept \cap (hidden \cup {r \in {n} : AlreadyDeleted(r)})
  BY DEF WriteOrdinary
<1>2. /\ announced' = {r \in {n} : ~AlreadyDeleted(r)}
      /\ received' = received \cup {n} /\ now' = now
      /\ ~IsDeletion(n) /\ ~Ignored(n) /\ n \notin event
  BY DEF WriteOrdinary, Ignored
<1>3. event \subseteq Id
  BY DEF StoreInv, TypeOK
<1>4. kept \subseteq event \cup {n}
  BY <1>2, <1>3, SurvivorsLemma
<1>5. TypeOK' /\ (event \subseteq received)'
  BY <1>1, <1>2, <1>4 DEF StoreInv, TypeOK
<1>6. OneReplaceable'
  <2>1. SUFFICES ASSUME NEW e \in kept, NEW f \in kept,
                        IsReplaceable(e), SameAuthorKind(e, f)
                 PROVE  e = f
    BY <1>1 DEF OneReplaceable
  <2>2. SameAuthorKind(f, e) /\ IsReplaceable(f)
    BY <2>1, <1>3, <1>4, SameKindSameClass DEF SameAuthorKind
  <2>3. CASE e \in event /\ f \in event
    BY <2>1, <2>3 DEF StoreInv, OneReplaceable
  <2>4. CASE e = n
    BY <2>1, <2>2, <2>4, <1>2, <1>3, SurvivorsLemma
  <2>5. CASE f = n
    BY <2>1, <2>2, <2>5, <1>2, <1>3, SurvivorsLemma
  <2>. QED BY <1>4, <2>3, <2>4, <2>5
<1>7. OneAddressable'
  <2>1. SUFFICES ASSUME NEW e \in kept, NEW f \in kept,
                        IsParamReplaceable(e), SameAuthorKind(e, f),
                        DistinctParam(e) = DistinctParam(f),
                        DistinctParam(e) \in DValues(e) \cap DValues(f)
                 PROVE  e = f
    BY <1>1 DEF OneAddressable
  <2>2. SameAuthorKind(f, e) /\ IsParamReplaceable(f)
    BY <2>1, <1>3, <1>4, SameKindSameClass DEF SameAuthorKind
  <2>3. CASE e \in event /\ f \in event
    BY <2>1, <2>3 DEF StoreInv, OneAddressable
  <2>4. CASE e = n
    BY <2>1, <2>2, <2>4, <1>2, <1>3, SurvivorsLemma
  <2>5. CASE f = n
    BY <2>1, <2>2, <2>5, <1>2, <1>3, SurvivorsLemma
  <2>. QED BY <1>4, <2>3, <2>4, <2>5
<1>8. DeletedStaysHidden'
  <2>1. SUFFICES ASSUME NEW e \in kept, NEW d \in kept, DeletionOnRecord(e, d)
                 PROVE  e \in hidden'
    BY <1>1 DEF DeletedStaysHidden
  <2>2. d \in event
    BY <2>1, <1>2, <1>4 DEF DeletionOnRecord
  <2>3. CASE e \in event
    BY <2>1, <2>2, <2>3, <1>1 DEF StoreInv, DeletedStaysHidden
  <2>4. CASE e = n
    BY <2>1, <2>2, <2>4, <1>1 DEF AlreadyDeleted
  <2>. QED BY <1>4, <2>3, <2>4
<1>9. HiddenMeansDeleted'
  <2>1. SUFFICES ASSUME NEW e \in hidden'
                 PROVE  \E d \in received' : HiddenBy(e, d)
    BY DEF HiddenMeansDeleted
  <2>2. CASE e \in hidden
    BY <2>2, <1>2 DEF StoreInv, HiddenMeansDeleted
  <2>3. CASE e = n /\ AlreadyDeleted(n)
    BY <2>3, <1>2 DEF StoreInv, AlreadyDeleted, DeletionOnRecord, HiddenBy, Spelling
  <2>. QED BY <2>1, <2>2, <2>3, <1>1
<1>. QED BY <1>5, <1>6, <1>7, <1>8, <1>9 DEF StoreInv

LEMMA NextStoreInv == StoreInv /\ [Next]_vars => StoreInv'
<1>. SUFFICES ASSUME StoreInv, [Next]_vars PROVE StoreInv'
  OBVIOUS
<1>. USE DEF StoreInv, TypeOK, OneReplaceable, OneAddressable, DeletedStaysHidden,
             HiddenMeansDeleted
<1>1. ASSUME NEW n \in Id, WriteIgnored(n) PROVE StoreInv'
  BY <1>1 DEF WriteIgnored
<1>2. ASSUME NEW n \in Id, WriteDeletion(n) PROVE StoreInv'
  BY <1>2, DeletionPreservesStoreInv
<1>3. ASSUME NEW n \in Id, WriteOrdinary(n) PROVE StoreInv'
  BY <1>3, OrdinaryPreservesStoreInv
<1>4. CASE WriteFails
  BY <1>4 DEF WriteFails
<1>5. CASE DeleteExpired
  BY <1>5 DEF DeleteExpired
<1>6. CASE Tick
  BY <1>6 DEF Tick
<1>7. CASE UNCHANGED vars
  BY <1>7 DEF vars
<1>. QED BY <1>1, <1>2, <1>3, <1>4, <1>5, <1>6, <1>7 DEF Next, WriteEvent

\* The invariant holds of every catalogue of events.
THEOREM StoreInvariant == Spec => []StoreInv
BY InitStoreInv, NextStoreInv, PTL DEF Spec

\* Type correctness of the event store.
THEOREM TypeCorrect == Spec => []TypeOK
<1>1. StoreInv => TypeOK
  BY DEF StoreInv
<1>. QED BY <1>1, StoreInvariant, PTL

\* At most one version of a replaceable event is stored (persist_event's first DELETE).
THEOREM UniqueReplaceable == Spec => []OneReplaceable
<1>1. StoreInv => OneReplaceable
  BY DEF StoreInv
<1>. QED BY <1>1, StoreInvariant, PTL

\* At most one version of a parameterized replaceable event is stored per d value
\* (persist_event's second DELETE).
THEOREM UniqueAddressable == Spec => []OneAddressable
<1>1. StoreInv => OneAddressable
  BY DEF StoreInv
<1>. QED BY <1>1, StoreInvariant, PTL

\* A deletion on record hides its target whichever arrived first (persist_event's
\* UPDATE and its later check for an existing deletion).
THEOREM DeletionIsPermanent == Spec => []DeletedStaysHidden
<1>1. StoreInv => DeletedStaysHidden
  BY DEF StoreInv
<1>. QED BY <1>1, StoreInvariant, PTL

-----------------------------------------------------------------------------
(* No event is lost and each is announced when it appears. *)

\* What a stored row is replaced by overrides it or is taken for a version of it.
LEMMA RemovedIsOverridden ==
    ASSUME event \subseteq Id, NEW n \in Id, ~Ignored(n),
           NEW kept \in Survivors(event \cup {n}, n),
           NEW r \in event \ kept
    PROVE  Overrides(n, r) \/ TakenForVersion(n, r)
<1>1. /\ SameAuthorKind(r, n) /\ CreatedAt(r) < CreatedAt(n)
      /\ \/ IsReplaceable(n)
         \/ IsParamReplaceable(n) /\ DistinctParam(n) \in DValues(r)
  BY SurvivorsLemma
<1>2. r # n
  BY DEF Ignored
<1>3. SameAuthorKind(n, r) /\ CreatedAt(n) >= CreatedAt(r)
  BY <1>1, ContentTypes DEF SameAuthorKind
<1>. QED
  BY <1>1, <1>2, <1>3, SameKindSameClass
     DEF Overrides, TakenForVersion, SameAddress, SameAuthorKind

LEMMA ShadowedIsOverridden ==
    ASSUME event \subseteq Id, NEW n \in Id, Ignored(n), n \notin event
    PROVE  \E r \in event : Overrides(r, n) \/ TakenForVersion(r, n)
<1>1. PICK r \in event :
         /\ SameAuthorKind(r, n) /\ CreatedAt(r) >= CreatedAt(n)
         /\ \/ IsReplaceable(n)
            \/ IsParamReplaceable(n) /\ DistinctParam(n) \in DValues(r)
  BY DEF Ignored, ShadowedReplaceable, ShadowedParam
<1>2. r # n
  OBVIOUS
<1>. QED
  BY <1>1, <1>2, SameKindSameClass
     DEF Overrides, TakenForVersion, SameAddress, SameAuthorKind

\* persist_event confuses two addresses only when one of the events has a second d tag.
THEOREM OneTagOneAddress ==
    ASSUME NEW g \in Id, NEW e \in Id, Len(DTags(g)) <= 1, Len(DTags(e)) <= 1
    PROVE  ~TakenForVersion(g, e)
<1>1. ASSUME NEW f \in Id, Len(DTags(f)) <= 1 PROVE DValues(f) \subseteq {DistinctParam(f)}
  <2>1. DTags(f) \in Seq(Value \cup {NoValue})
    BY EventsAssumption DEF DTags, EventContent
  <2>2. \A i \in DOMAIN DTags(f) : i = 1
    BY <1>1, <2>1
  <2>. QED
    BY <2>1, <2>2 DEF DValues, DistinctParam
<1>. QED
  BY <1>1 DEF TakenForVersion

LEMMA HiddenIsDeletedByAuthor ==
    ASSUME NEW e, NEW d, HiddenBy(e, d)
    PROVE  DeletedByAuthor(e, d)
BY DEF HiddenBy, DeletedByAuthor

LEMMA NothingLostStep ==
    ASSUME NoRepeatedParam, StoreInv, NothingLost, [Next]_vars
    PROVE  NothingLost'
<1> DEFINE Kept(e) == \/ e \in Shown
                      \/ Expired(e, now)
                      \/ \E g \in received : \/ Overrides(g, e)
                                            \/ DeletedByAuthor(e, g)
                                            \/ TakenForVersion(g, e)
<1>a. event \subseteq Id /\ hidden \subseteq event /\ event \subseteq received /\ now \in Nat
  BY DEF StoreInv, TypeOK
<1>b. \A e \in received : Kept(e)
  BY DEF NothingLost
<1>1. ASSUME NEW n \in Id, WriteIgnored(n) PROVE NothingLost'
  <2>1. Kept(n)
    <3>1. CASE n \in event
      BY <3>1, HiddenIsDeletedByAuthor DEF Shown, StoreInv, HiddenMeansDeleted
    <3>2. CASE n \notin event
      BY <1>1, <3>2, <1>a, ShadowedIsOverridden DEF WriteIgnored
    <3>. QED BY <3>1, <3>2
  <2>. QED BY <2>1, <1>1, <1>b DEF WriteIgnored, NothingLost, Shown
<1>2. ASSUME NEW n \in Id, WriteDeletion(n) PROVE NothingLost'
  <2>1. SUFFICES ASSUME NEW e \in received' PROVE Kept(e)'
    BY DEF NothingLost
  <2>2. CASE e = n
    BY <1>2, <2>2, <1>a DEF WriteDeletion, Ignored, Shown, HiddenBy
  <2>3. CASE e \in Shown /\ HiddenBy(e, n)
    BY <1>2, <2>3, HiddenIsDeletedByAuthor DEF WriteDeletion
  <2>4. CASE e \in Shown /\ ~HiddenBy(e, n)
    BY <1>2, <2>4 DEF WriteDeletion, Shown
  <2>5. CASE e \in received /\ e \notin Shown
    BY <1>2, <2>5, <1>b DEF WriteDeletion
  <2>. QED BY <1>2, <2>1, <2>2, <2>3, <2>4, <2>5 DEF WriteDeletion
<1>3. ASSUME NEW n \in Id, WriteOrdinary(n) PROVE NothingLost'
  <2>1. SUFFICES ASSUME NEW e \in received' PROVE Kept(e)'
    BY DEF NothingLost
  <2>2. PICK kept \in Survivors(event \cup {n}, n) :
           /\ event' = kept
           /\ hidden' = kept \cap (hidden \cup {r \in {n} : AlreadyDeleted(r)})
    BY <1>3 DEF WriteOrdinary
  <2>3. ~Ignored(n) /\ n \notin event /\ received' = received \cup {n} /\ now' = now
    BY <1>3 DEF WriteOrdinary, Ignored
  <2>4. CASE e = n
    <3>1. n \in kept
      BY <2>3, <1>a, SurvivorsLemma DEF NoRepeatedParam
    <3>2. CASE AlreadyDeleted(n)
      BY <2>3, <2>4, <3>2, <1>a
         DEF AlreadyDeleted, DeletionOnRecord, DeletedByAuthor, Spelling
    <3>3. CASE ~AlreadyDeleted(n)
      BY <2>2, <2>3, <2>4, <3>1, <3>3, <1>a DEF Shown
    <3>. QED BY <3>2, <3>3
  <2>5. CASE e \in Shown /\ e \in kept
    BY <2>2, <2>3, <2>5 DEF Shown
  <2>6. CASE e \in Shown /\ e \notin kept
    BY <2>3, <2>6, <1>a, RemovedIsOverridden DEF Shown
  <2>7. CASE e \in received /\ e \notin Shown
    BY <2>3, <2>7, <1>b
  <2>. QED BY <2>1, <2>3, <2>4, <2>5, <2>6, <2>7
<1>4. CASE WriteFails
  BY <1>4, <1>b DEF WriteFails, NothingLost, Shown
<1>5. CASE DeleteExpired
  BY <1>5, <1>b DEF DeleteExpired, NothingLost, Shown
<1>6. CASE Tick
  <2>1. \A e \in Id : Expired(e, now) => Expired(e, now + 1)
    BY <1>a, EventsAssumption DEF Expired, ExpiresAt, EventContent
  <2>. QED BY <1>6, <2>1, <1>b DEF Tick, NothingLost, Shown, StoreInv, TypeOK
<1>7. CASE UNCHANGED vars
  BY <1>7, <1>b DEF vars, NothingLost, Shown
<1>. QED BY <1>1, <1>2, <1>3, <1>4, <1>5, <1>6, <1>7 DEF Next, WriteEvent

\* Whatever was written can be queried until it expires, unless its author deleted it
\* or published a newer version at its address, or one with a second d tag at another
\* address (OneTagOneAddress); provided no event repeats its d value (see
\* MCEventStoreRepeated), as an event that does may remove itself.
THEOREM NoEventIsLost ==
    ASSUME NoRepeatedParam
    PROVE  Spec => []NothingLost
<1>1. Init => NothingLost
  BY DEF Init, NothingLost
<1>2. StoreInv /\ NothingLost /\ [Next]_vars => NothingLost'
  BY NothingLostStep
<1>. QED BY <1>1, <1>2, StoreInvariant, PTL DEF Spec

\* Each step broadcasts exactly the events that it makes queryable.
THEOREM BroadcastMatchesStore ==
    ASSUME NoRepeatedParam
    PROVE  Spec => AnnouncedExactly
<1>1. StoreInv /\ [Next]_vars => [announced' = Shown' \ Shown]_vars
  <2>. SUFFICES ASSUME StoreInv, Next PROVE announced' = Shown' \ Shown
    OBVIOUS
  <2>a. event \subseteq Id /\ hidden \subseteq event
    BY DEF StoreInv, TypeOK
  <2>1. ASSUME NEW n \in Id, WriteIgnored(n) PROVE announced' = Shown' \ Shown
    BY <2>1 DEF WriteIgnored, Shown
  <2>2. ASSUME NEW n \in Id, WriteDeletion(n) PROVE announced' = Shown' \ Shown
    BY <2>2, <2>a DEF WriteDeletion, Ignored, Shown, HiddenBy
  <2>3. ASSUME NEW n \in Id, WriteOrdinary(n) PROVE announced' = Shown' \ Shown
    <3>1. PICK kept \in Survivors(event \cup {n}, n) :
             /\ event' = kept
             /\ hidden' = kept \cap (hidden \cup {r \in {n} : AlreadyDeleted(r)})
      BY <2>3 DEF WriteOrdinary
    <3>2. /\ ~Ignored(n) /\ n \notin event
          /\ announced' = {r \in {n} : ~AlreadyDeleted(r)}
      BY <2>3 DEF WriteOrdinary, Ignored
    <3>3. n \in kept /\ kept \subseteq event \cup {n}
      BY <3>2, <2>a, SurvivorsLemma DEF NoRepeatedParam
    <3>. QED BY <3>1, <3>2, <3>3, <2>a DEF Shown
  <2>4. CASE WriteFails
    BY <2>4 DEF WriteFails, Shown
  <2>5. CASE DeleteExpired
    BY <2>5 DEF DeleteExpired, Shown
  <2>6. CASE Tick
    BY <2>6 DEF Tick, Shown
  <2>. QED BY <2>1, <2>2, <2>3, <2>4, <2>5, <2>6 DEF Next, WriteEvent
<1>. QED BY <1>1, StoreInvariant, PTL DEF Spec, AnnouncedExactly

-----------------------------------------------------------------------------
(* The store implements RelayStore. *)

LEMMA DistinctParamValue ==
    ASSUME RegularContent, NEW e \in Id, IsParamReplaceable(e)
    PROVE  DValues(e) = {DistinctParam(e)}
<1>1. Len(DTags(e)) = 1 /\ DTags(e)[1] # NoValue /\ DTags(e) \in Seq(Value \cup {NoValue})
  BY ContentTypes DEF RegularContent
<1>2. DOMAIN DTags(e) = {1} /\ DTags(e) # <<>> /\ Head(DTags(e)) = DTags(e)[1]
  BY <1>1
<1>. QED BY <1>1, <1>2 DEF DValues, DistinctParam

LEMMA RegularHasNoRepeats ==
    ASSUME RegularContent, NEW e \in Id, IsParamReplaceable(e)
    PROVE  ~RepeatsValue(e, DistinctParam(e))
<1>1. Len(DTags(e)) = 1 /\ DTags(e) \in Seq(Value \cup {NoValue})
  BY ContentTypes DEF RegularContent
<1>2. DOMAIN DTags(e) = {1}
  BY <1>1
<1>. QED BY <1>2 DEF RepeatsValue

LEMMA SupersedesOrder ==
    ASSUME NEW e \in Id, NEW f \in Id, NEW g \in Id
    PROVE  /\ ~Supersedes(e, e)
           /\ Supersedes(g, f) /\ Supersedes(f, e) => Supersedes(g, e)
BY ContentTypes, SameKindSameClass
   DEF Supersedes, SameAddress, SameAuthorKind, IsReplaceable, IsParamReplaceable

\* Under RegularContent the SQL conditions say what SameAddress says.
LEMMA ShadowedIsSuperseded ==
    ASSUME RegularContent, event \subseteq Id,
           NEW n \in Id, Ignored(n), n \notin event
    PROVE  \E r \in event : Supersedes(r, n)
<1>1. PICK r \in event :
         /\ SameAuthorKind(r, n) /\ CreatedAt(r) >= CreatedAt(n)
         /\ \/ IsReplaceable(n)
            \/ IsParamReplaceable(n) /\ DistinctParam(n) \in DValues(r)
  BY DEF Ignored, ShadowedReplaceable, ShadowedParam
<1>2. CreatedAt(r) > CreatedAt(n)
  BY <1>1, ContentTypes DEF RegularContent
<1>3. SameAddress(r, n)
  BY <1>1, SameKindSameClass, DistinctParamValue DEF SameAddress
<1>. QED BY <1>2, <1>3 DEF Supersedes

LEMMA SurvivorsAreCurrent ==
    ASSUME RegularContent, event \subseteq Id,
           NEW n \in Id, ~Ignored(n),
           NEW kept \in Survivors(event \cup {n}, n)
    PROVE  kept = {e \in event : ~Supersedes(n, e)} \cup {n}
<1>1. n \notin event /\ \A e \in event : CreatedAt(e) \in Nat
  BY ContentTypes DEF Ignored
<1>2. n \in kept
  <2>1. CASE IsReplaceable(n)
    BY <2>1, SurvivorsLemma
  <2>2. CASE IsParamReplaceable(n)
    BY <2>2, RegularHasNoRepeats, SurvivorsLemma
  <2>3. CASE ~IsReplaceable(n) /\ ~IsParamReplaceable(n)
    BY <2>3 DEF Survivors
  <2>. QED BY <2>1, <2>2, <2>3
<1>3. ASSUME NEW e \in event, e \notin kept PROVE Supersedes(n, e)
  <2>1. /\ SameAuthorKind(e, n) /\ CreatedAt(e) < CreatedAt(n)
        /\ \/ IsReplaceable(n)
           \/ IsParamReplaceable(n) /\ DistinctParam(n) \in DValues(e)
    BY <1>3, SurvivorsLemma
  <2>2. SameAddress(n, e)
    BY <2>1, SameKindSameClass, DistinctParamValue DEF SameAddress, SameAuthorKind
  <2>. QED BY <2>1, <2>2, ContentTypes DEF Supersedes
<1>4. ASSUME NEW e \in event, e \in kept PROVE ~Supersedes(n, e)
  <2>1. SUFFICES ASSUME Supersedes(n, e) PROVE FALSE
    OBVIOUS
  <2>2. /\ SameAuthorKind(e, n)
        /\ \/ IsReplaceable(n)
           \/ /\ IsParamReplaceable(n) /\ IsParamReplaceable(e)
              /\ DistinctParam(n) = DistinctParam(e)
    BY <2>1, SameKindSameClass DEF Supersedes, SameAddress, SameAuthorKind
  <2>3. IsParamReplaceable(n) /\ DistinctParam(n) = DistinctParam(e) /\ IsParamReplaceable(e)
           => DistinctParam(n) \in DValues(n) /\ DistinctParam(n) \in DValues(e)
    BY DistinctParamValue
  <2>. QED BY <2>2, <2>3, <1>1, <1>4, SurvivorsLemma
<1>5. kept \subseteq event \cup {n}
  BY SurvivorsLemma
<1>. QED BY <1>1, <1>2, <1>3, <1>4, <1>5

LEMMA DeletionsAreNotVersions ==
    ASSUME NEW d \in Id, IsDeletion(d), NEW e \in Id
    PROVE  ~Supersedes(d, e) /\ ~Supersedes(e, d)
BY KindClasses, SameKindSameClass DEF Supersedes, SameAddress

\* What write_event does not ignore is no older than anything received at its address.
LEMMA NotIgnoredIsCurrent ==
    ASSUME RegularContent, RelayInv, NEW n \in Id, ~Ignored(n)
    PROVE  \A g \in received : ~Supersedes(g, n)
<1> USE DEF RelayInv
<1>1. SUFFICES ASSUME NEW g \in received, Supersedes(g, n) PROVE FALSE
  OBVIOUS
<1>2. PICK r \in event : Supersedes(r, n)
  BY <1>1, SupersedesOrder
<1>3. /\ SameAuthorKind(r, n) /\ CreatedAt(r) >= CreatedAt(n)
      /\ \/ IsReplaceable(n)
         \/ IsParamReplaceable(n) /\ DistinctParam(n) \in DValues(r)
  <2>1. /\ r \in Id /\ SameAuthorKind(r, n) /\ CreatedAt(r) > CreatedAt(n)
        /\ \/ IsReplaceable(r)
           \/ IsParamReplaceable(r) /\ DistinctParam(r) = DistinctParam(n)
    BY <1>2 DEF Supersedes, SameAddress
  <2>2. CreatedAt(r) >= CreatedAt(n)
    BY <2>1, ContentTypes
  <2>3. /\ IsReplaceable(r) => IsReplaceable(n)
        /\ IsParamReplaceable(r) => IsParamReplaceable(n)
    BY <2>1, SameKindSameClass
  <2>4. IsParamReplaceable(r) => DistinctParam(r) \in DValues(r)
    BY <2>1, DistinctParamValue
  <2>. QED BY <2>1, <2>2, <2>3, <2>4
<1>. QED BY <1>3 DEF Ignored, ShadowedReplaceable, ShadowedParam

LEMMA RelayInvStep ==
    ASSUME RegularContent, RelayInv, [Next]_vars
    PROVE  RelayInv'
<1> USE DEF RelayInv
<1>a. event \subseteq Id
  OBVIOUS
<1>1. ASSUME NEW n \in Id, WriteIgnored(n) PROVE RelayInv'
  <2>1. UNCHANGED <<event, hidden>> /\ received' = received \cup {n} /\ Ignored(n)
    BY <1>1 DEF WriteIgnored
  <2>2. CASE n \in event
    BY <2>1, <2>2
  <2>3. CASE n \notin event
    <3>1. PICK r \in event : Supersedes(r, n)
      BY <2>1, <2>3, ShadowedIsSuperseded
    <3>2. \A e \in event : ~Supersedes(n, e)
      BY <3>1, SupersedesOrder
    <3>3. ~IsDeletion(n)
      BY <3>1, DeletionsAreNotVersions
    <3>4. \A e \in event : ~HiddenBy(e, n)
      BY <3>3 DEF HiddenBy
    <3>. QED BY <2>1, <3>1, <3>2, <3>4
  <2>. QED BY <2>2, <2>3
<1>2. ASSUME NEW n \in Id, WriteDeletion(n) PROVE RelayInv'
  <2>1. /\ event' = event \cup {n} /\ received' = received \cup {n}
        /\ hidden' = hidden \cup {r \in event : HiddenBy(r, n)} /\ IsDeletion(n)
    BY <1>2 DEF WriteDeletion
  <2>2. \A d \in Id : ~HiddenBy(n, d)
    BY <2>1 DEF HiddenBy
  <2>. QED BY <2>1, <2>2, DeletionsAreNotVersions
<1>3. ASSUME NEW n \in Id, WriteOrdinary(n) PROVE RelayInv'
  <2>1. PICK kept \in Survivors(event \cup {n}, n) :
           /\ event' = kept
           /\ hidden' = kept \cap (hidden \cup {r \in {n} : AlreadyDeleted(r)})
    BY <1>3 DEF WriteOrdinary
  <2>2. received' = received \cup {n} /\ ~IsDeletion(n) /\ ~Ignored(n) /\ n \notin event
    BY <1>3 DEF WriteOrdinary, Ignored
  <2>3. kept = {e \in event : ~Supersedes(n, e)} \cup {n}
    BY <2>2, SurvivorsAreCurrent
  <2>4. \A g \in received : ~Supersedes(g, n)
    BY <2>2, NotIgnoredIsCurrent
  <2>5. AlreadyDeleted(n) <=> \E d \in received : HiddenBy(n, d)
    <3>1. \A d \in received : IsDeletion(d) => d \in event
      BY DeletionsAreNotVersions
    <3>2. \A d \in Id : HiddenBy(n, d) <=> DeletionOnRecord(n, d)
      BY DEF HiddenBy, DeletionOnRecord, Spelling, RegularContent
    <3>. QED BY <3>1, <3>2 DEF AlreadyDeleted, HiddenBy
  <2>6. \A e \in Id : ~HiddenBy(e, n)
    BY <2>2 DEF HiddenBy
  <2>7. (\A e \in event, g \in received : ~Supersedes(g, e))'
    BY <2>1, <2>2, <2>3, <2>4, SupersedesOrder
  <2>8. (\A g \in received : \E r \in event : r = g \/ Supersedes(r, g))'
    <3>1. SUFFICES ASSUME NEW g \in received
                   PROVE  \E r \in kept : r = g \/ Supersedes(r, g)
      BY <2>1, <2>2, <2>3
    <3>2. PICK r \in event : r = g \/ Supersedes(r, g)
      OBVIOUS
    <3>3. CASE Supersedes(n, r)
      BY <3>2, <3>3, <2>3, SupersedesOrder
    <3>. QED BY <3>2, <3>3, <2>3
  <2>9. hidden' = {e \in kept : \E d \in received' : HiddenBy(e, d)}
    BY <2>1, <2>2, <2>3, <2>5, <2>6
  <2>. QED BY <2>1, <2>2, <2>3, <2>7, <2>8, <2>9
<1>4. CASE WriteFails
  BY <1>4 DEF WriteFails
<1>5. CASE DeleteExpired
  BY <1>5 DEF DeleteExpired, RegularContent, Expired
<1>6. CASE Tick
  BY <1>6 DEF Tick
<1>7. CASE UNCHANGED vars
  BY <1>7 DEF vars
<1>. QED BY <1>1, <1>2, <1>3, <1>4, <1>5, <1>6, <1>7 DEF Next, WriteEvent

\* The abstract module reads the same definitions of the events.
LEMMA CurrentIs ==
    ASSUME NEW S
    PROVE  Relay!Current(S) = {e \in S : \A g \in S : ~Supersedes(g, e) /\ ~HiddenBy(e, g)}
BY DEF Relay!Current, Relay!Supersedes, Relay!SameAddress, Relay!SameAuthorKind,
       Relay!IsReplaceable, Relay!IsParamReplaceable, Relay!ReplaceableKind,
       Relay!ParamReplaceableKind, Relay!DistinctParam, Relay!HiddenBy, Relay!IsDeletion,
       Relay!AuthorOf, Relay!KindOf, Relay!CreatedAt, Relay!DTags, Relay!ETags, Relay!Spelling,
       Supersedes, SameAddress, SameAuthorKind, IsReplaceable, IsParamReplaceable,
       ReplaceableKind, ParamReplaceableKind, DistinctParam, HiddenBy, IsDeletion,
       AuthorOf, KindOf, CreatedAt, DTags, ETags, Spelling

LEMMA ShownIsCurrent == RelayInv => Shown = Relay!Current(received)
<1>. SUFFICES ASSUME RelayInv PROVE Shown = Relay!Current(received)
  OBVIOUS
<1>1. ASSUME NEW e \in Shown PROVE e \in Relay!Current(received)
  BY <1>1, CurrentIs DEF RelayInv, Shown
<1>2. ASSUME NEW e \in Relay!Current(received) PROVE e \in Shown
  <2>1. e \in received /\ \A g \in received : ~Supersedes(g, e) /\ ~HiddenBy(e, g)
    BY <1>2, CurrentIs
  <2>2. e \in event
    BY <2>1 DEF RelayInv
  <2>. QED BY <2>1, <2>2 DEF RelayInv, Shown
<1>. QED BY <1>1, <1>2

\* On a regular catalogue the tables, whatever order they were filled in, show what
\* the abstract relay shows: write_event implements RelayStore.
THEOREM StoreImplementsRelay ==
    ASSUME RegularContent
    PROVE  Spec => ImplementsRelay
<1>1. Init => Relay!Init /\ RelayInv
  BY DEF Init, Relay!Init, RelayInv, Shown
<1>2. RelayInv /\ [Next]_vars => RelayInv'
  BY RelayInvStep
<1>3. RelayInv /\ RelayInv' /\ [Next]_vars => [Relay!Next]_<<received, Shown>>
  <2>. SUFFICES ASSUME RelayInv, RelayInv', [Next]_vars
                PROVE  Relay!Next \/ UNCHANGED <<received, Shown>>
    OBVIOUS
  <2>1. Shown = Relay!Current(received)
    BY ShownIsCurrent
  <2>2. Shown' = Relay!Current(received')
    <3>1. (RelayInv => Shown = Relay!Current(received))'
      BY ShownIsCurrent, PTL
    <3>. QED BY <3>1
  <2>3. received' = received \/ \E n \in Id : received' = received \cup {n}
    BY DEF Next, vars, WriteEvent, WriteIgnored, WriteDeletion, WriteOrdinary,
           WriteFails, DeleteExpired, Tick
  <2>. QED BY <2>1, <2>2, <2>3 DEF Relay!Next, Relay!Receive
<1>. QED BY <1>1, <1>2, <1>3, PTL DEF Spec, ImplementsRelay, Relay!Spec

\* An event is broadcast at most once, in however many calls of write_event it is
\* presented: what has been received once is ignored ever after.
THEOREM BroadcastOnce ==
    ASSUME RegularContent
    PROVE  Spec => AnnouncedOnce
<1>1. Init => RelayInv
  BY DEF Init, RelayInv
<1>2. RelayInv /\ [Next]_vars => RelayInv'
  BY RelayInvStep
<1>3. RelayInv /\ [Next]_vars => [announced' \cap received = {}]_vars
  <2>. SUFFICES ASSUME RelayInv, Next PROVE announced' \cap received = {}
    OBVIOUS
  <2>1. ASSUME NEW n \in Id, ~Ignored(n) PROVE n \notin received
    <3>. SUFFICES ASSUME n \in received PROVE FALSE
      OBVIOUS
    <3>1. PICK r \in event : r = n \/ Supersedes(r, n)
      BY DEF RelayInv
    <3>2. r # n
      BY <2>1, <3>1 DEF Ignored
    <3>3. ~Supersedes(r, n)
      BY <2>1, NotIgnoredIsCurrent DEF RelayInv
    <3>. QED BY <3>1, <3>2, <3>3
  <2>2. announced' = {} \/ \E n \in Id : ~Ignored(n) /\ announced' \subseteq {n}
    BY DEF Next, WriteEvent, WriteIgnored, WriteDeletion, WriteOrdinary, WriteFails,
           DeleteExpired, Tick
  <2>. QED BY <2>1, <2>2
<1>. QED BY <1>1, <1>2, <1>3, PTL DEF Spec, AnnouncedOnce

=============================================================================
