--------------------------- MODULE SharedWaitRefs ---------------------------
(***************************************************************************)
(* The reference counts of module SharedWait are exact: on a waiter, on a  *)
(* mailbox and on the backing of the shared memory.  RInv adds to them     *)
(* where a record can be: in the list or in one notifier's chain, which    *)
(* has the list's references until they are dropped, then in its owner's   *)
(* ready list, and freed only when a post for it can no longer come.  Each *)
(* step moves one count and the set it counts by the same one element.     *)
(***************************************************************************)
EXTENDS SharedWaitProofs, FiniteSetTheorems
-----------------------------------------------------------------------------
(* Counting. *)

\* Sets that differ in at most one element.
LEMMA OneMember ==
  ASSUME NEW S, NEW T, NEW x, IsFiniteSet(S), \A y : y # x => (y \in T <=> y \in S)
  PROVE  /\ Cardinality(S) \in Nat /\ Cardinality(T) \in Nat
         /\ Cardinality(T) = Cardinality(S) + (IF x \in T THEN 1 ELSE 0) - (IF x \in S THEN 1 ELSE 0)
<1>1. Cardinality(S) \in Nat
  BY FS_CardinalityType, Zenon
<1>2. CASE x \in T /\ x \notin S
  <2>1. T = S \cup {x}
    BY <1>2, Zenon
  <2> QED
    BY <1>1, <1>2, <2>1, FS_AddElement
<1>3. CASE x \notin T /\ x \in S
  <2>1. T = S \ {x}
    BY <1>3, Zenon
  <2>2. Cardinality(T) = Cardinality(S) - 1 /\ IsFiniteSet(T)
    BY <1>3, <2>1, FS_RemoveElement, Zenon
  <2> QED
    BY <1>1, <1>3, <2>2, FS_CardinalityType
<1>4. CASE x \in T <=> x \in S
  <2>1. T = S
    BY <1>4
  <2> QED
    BY <1>1, <2>1
<1> QED
  BY <1>2, <1>3, <1>4, Zenon

\* The records that hold a's mailbox, and those that hold the backing.
Mail(a) == {r \in Records : Owner[r] = a /\ Named(r)}
Backed == {r \in Records : refs[r] > 0}
Holders == {a \in Agents : holds[a]}

\* The sets whose sizes the references count.
LEMMA CountedSets ==
  /\ \A a \in Agents : IsFiniteSet(Mail(a)) /\ Cardinality(Mail(a)) \in Nat
  /\ \A a \in Agents : MailboxHolds(a) = (IF pc[a] = "gone" THEN 0 ELSE 1) + Cardinality(Mail(a))
  /\ IsFiniteSet(Backed) /\ Cardinality(Backed) \in Nat
  /\ IsFiniteSet(Holders) /\ Cardinality(Holders) \in Nat
  /\ BackingHolds = Cardinality(Holders) + Cardinality(Backed)
<1>1. \A a \in Agents : Mail(a) \subseteq Records
  BY Zenon DEF Mail
<1>2. Backed \subseteq Records /\ Holders \subseteq Agents
  BY Zenon DEF Backed, Holders
<1>3. \A a \in Agents : MailboxHolds(a) = (IF pc[a] = "gone" THEN 0 ELSE 1) + Cardinality(Mail(a))
  BY Zenon DEF MailboxHolds, Mail, Named
<1>4. BackingHolds = Cardinality(Holders) + Cardinality(Backed)
  BY Zenon DEF BackingHolds, Holders, Backed
<1>5. \A S : S \subseteq Records \/ S \subseteq Agents => IsFiniteSet(S) /\ Cardinality(S) \in Nat
  BY FiniteAssumption, FS_Subset, FS_CardinalityType, Zenon
<1> QED
  BY <1>1, <1>2, <1>3, <1>4, <1>5, Zenon

\* The references on a waiter, as a sum of two.
LEMMA WaiterCount ==
  ASSUME NEW r \in Records
  PROVE  WaiterHolds(r) = (IF rec[r] = "linked" THEN 1 ELSE 0)
                          + (IF Listed(bucket, r) \/ Undropped(r) THEN 1 ELSE 0)
  BY Zenon DEF WaiterHolds, Undropped

\* The counts do not see a step that moves no reference.
LEMMA CountsStay ==
  ASSUME Counts, UNCHANGED <<refs, mailRefs, memRefs, holds>>,
         \A a \in Agents : pc'[a] = "gone" <=> pc[a] = "gone",
         \A r \in Records :
           /\ rec'[r] = "linked" <=> rec[r] = "linked"
           /\ (Listed(bucket, r) \/ Undropped(r))' <=> Listed(bucket, r) \/ Undropped(r)
           /\ Named(r)' <=> Named(r)
  PROVE  Counts'
<1>1. ASSUME NEW r \in Records PROVE refs'[r] = WaiterHolds(r)'
  <2>1. WaiterHolds(r)' = (IF rec'[r] = "linked" THEN 1 ELSE 0)
                          + (IF (Listed(bucket, r) \/ Undropped(r))' THEN 1 ELSE 0)
    BY Zenon DEF WaiterHolds, Undropped
  <2>2. WaiterHolds(r)' = WaiterHolds(r)
    BY <2>1, WaiterCount
  <2> QED
    BY <2>2, Zenon DEF Counts
<1>2. ASSUME NEW a \in Agents PROVE mailRefs'[a] = MailboxHolds(a)'
  <2>1. Mail(a)' = Mail(a)
    BY Zenon DEF Mail
  <2>2. MailboxHolds(a)' = (IF pc'[a] = "gone" THEN 0 ELSE 1) + Cardinality(Mail(a)')
    BY Zenon DEF MailboxHolds, Mail, Named
  <2>3. MailboxHolds(a)' = MailboxHolds(a)
    BY <2>1, <2>2, CountedSets, Zenon
  <2> QED
    BY <2>3, Zenon DEF Counts
<1>3. BackingHolds' = BackingHolds
  BY Zenon DEF BackingHolds
<1> QED
  BY <1>1, <1>2, <1>3, Zenon DEF Counts

\* One record moves.
LEMMA CountsMove ==
  ASSUME Counts, Sizes, NEW r \in Records, holds' = holds,
         \A a \in Agents : pc'[a] = "gone" <=> pc[a] = "gone",
         \A q \in Records \ {r} :
           /\ refs'[q] = refs[q]
           /\ rec'[q] = "linked" <=> rec[q] = "linked"
           /\ (Listed(bucket, q) \/ Undropped(q))' <=> Listed(bucket, q) \/ Undropped(q)
           /\ Named(q)' <=> Named(q),
         refs'[r] = (IF rec'[r] = "linked" THEN 1 ELSE 0)
                    + (IF (Listed(bucket, r) \/ Undropped(r))' THEN 1 ELSE 0),
         memRefs' = memRefs + (IF refs'[r] > 0 THEN 1 ELSE 0) - (IF refs[r] > 0 THEN 1 ELSE 0),
         \A a \in Agents \ {Owner[r]} : mailRefs'[a] = mailRefs[a],
         mailRefs'[Owner[r]] =
           mailRefs[Owner[r]] + (IF Named(r)' THEN 1 ELSE 0) - (IF Named(r) THEN 1 ELSE 0)
  PROVE  Counts'
<1>1. ASSUME NEW q \in Records PROVE refs'[q] = WaiterHolds(q)'
  <2>1. WaiterHolds(q)' = (IF rec'[q] = "linked" THEN 1 ELSE 0)
                          + (IF (Listed(bucket, q) \/ Undropped(q))' THEN 1 ELSE 0)
    BY Zenon DEF WaiterHolds, Undropped
  <2>2. CASE q # r
    <3>1. WaiterHolds(q)' = WaiterHolds(q)
      BY <2>1, <2>2, WaiterCount
    <3> QED
      BY <2>2, <3>1, Zenon DEF Counts
  <2> QED
    BY <2>1, <2>2, Zenon
<1>2. ASSUME NEW a \in Agents PROVE mailRefs'[a] = MailboxHolds(a)'
  <2>1. MailboxHolds(a)' = (IF pc'[a] = "gone" THEN 0 ELSE 1) + Cardinality(Mail(a)')
    BY Zenon DEF MailboxHolds, Mail, Named
  <2>2. MailboxHolds(a)' = (IF pc[a] = "gone" THEN 0 ELSE 1) + Cardinality(Mail(a)')
    BY <2>1, Zenon
  <2>3. \A q : q # r => (q \in Mail(a)' <=> q \in Mail(a))
    BY Zenon DEF Mail
  <2>4. /\ r \in Mail(a)' <=> a = Owner[r] /\ Named(r)'
        /\ r \in Mail(a) <=> a = Owner[r] /\ Named(r)
    BY Zenon DEF Mail
  <2>5. Cardinality(Mail(a)') = Cardinality(Mail(a)) + (IF r \in Mail(a)' THEN 1 ELSE 0)
                                - (IF r \in Mail(a) THEN 1 ELSE 0)
    <3>1. IsFiniteSet(Mail(a))
      BY CountedSets, Zenon
    <3> QED
      BY <2>3, <3>1, OneMember
  <2>6. mailRefs[a] = (IF pc[a] = "gone" THEN 0 ELSE 1) + Cardinality(Mail(a))
    BY CountedSets, Zenon DEF Counts
  <2>7. Cardinality(Mail(a)) \in Nat
    BY CountedSets, Zenon
  <2>8. CASE a = Owner[r]
    <3>1. Cardinality(Mail(a)') = Cardinality(Mail(a)) + (IF Named(r)' THEN 1 ELSE 0)
                                  - (IF Named(r) THEN 1 ELSE 0)
      BY <2>4, <2>5, <2>8, Zenon
    <3>2. mailRefs'[a] = mailRefs[a] + (IF Named(r)' THEN 1 ELSE 0) - (IF Named(r) THEN 1 ELSE 0)
      BY <2>8, Zenon
    <3> QED
      BY <2>2, <2>6, <2>7, <3>1, <3>2
  <2>9. CASE a # Owner[r]
    <3>1. Cardinality(Mail(a)') = Cardinality(Mail(a))
      BY <2>4, <2>5, <2>7, <2>9
    <3> QED
      BY <2>2, <2>6, <2>9, <3>1, Zenon
  <2> QED
    BY <2>8, <2>9, Zenon
<1>3. memRefs' = BackingHolds'
  <2>1. BackingHolds' = Cardinality(Holders) + Cardinality(Backed')
    BY Zenon DEF BackingHolds, Holders, Backed
  <2>2. \A q : q # r => (q \in Backed' <=> q \in Backed)
    BY Zenon DEF Backed
  <2>3. (r \in Backed' <=> refs'[r] > 0) /\ (r \in Backed <=> refs[r] > 0)
    BY Zenon DEF Backed
  <2>4. Cardinality(Backed') = Cardinality(Backed) + (IF r \in Backed' THEN 1 ELSE 0)
                               - (IF r \in Backed THEN 1 ELSE 0)
    <3>1. IsFiniteSet(Backed)
      BY CountedSets, Zenon
    <3> QED
      BY <2>2, <3>1, OneMember, Zenon
  <2>5. memRefs = Cardinality(Holders) + Cardinality(Backed)
    BY CountedSets, Zenon DEF Counts
  <2>6. Cardinality(Backed) \in Nat /\ Cardinality(Holders) \in Nat
    BY CountedSets, Zenon
  <2> QED
    BY <2>1, <2>3, <2>4, <2>5, <2>6
<1> QED
  BY <1>1, <1>2, <1>3, Zenon DEF Counts

\* An agent drops its wrapper, and perhaps its mailbox.
LEMMA CountsLeave ==
  ASSUME Counts, Sizes, NEW a \in Agents, refs' = refs, holds' = [holds EXCEPT ![a] = FALSE],
         memRefs' = memRefs - (IF holds[a] THEN 1 ELSE 0),
         \A b \in Agents : mailRefs'[b] = mailRefs[b]
           + (IF pc'[b] = "gone" THEN 0 ELSE 1) - (IF pc[b] = "gone" THEN 0 ELSE 1),
         \A r \in Records :
           /\ rec'[r] = rec[r]
           /\ (Listed(bucket, r) \/ Undropped(r))' <=> Listed(bucket, r) \/ Undropped(r)
           /\ Named(r)' <=> Named(r)
  PROVE  Counts'
<1>1. ASSUME NEW r \in Records PROVE refs'[r] = WaiterHolds(r)'
  <2>1. WaiterHolds(r)' = (IF rec'[r] = "linked" THEN 1 ELSE 0)
                          + (IF (Listed(bucket, r) \/ Undropped(r))' THEN 1 ELSE 0)
    BY Zenon DEF WaiterHolds, Undropped
  <2>2. WaiterHolds(r)' = WaiterHolds(r)
    BY <2>1, WaiterCount, Zenon
  <2> QED
    BY <2>2, Zenon DEF Counts
<1>2. ASSUME NEW b \in Agents PROVE mailRefs'[b] = MailboxHolds(b)'
  <2>1. Mail(b)' = Mail(b)
    BY Zenon DEF Mail
  <2>2. MailboxHolds(b)' = (IF pc'[b] = "gone" THEN 0 ELSE 1) + Cardinality(Mail(b)')
    BY Zenon DEF MailboxHolds, Mail, Named
  <2>3. /\ mailRefs[b] = (IF pc[b] = "gone" THEN 0 ELSE 1) + Cardinality(Mail(b))
        /\ Cardinality(Mail(b)) \in Nat
    BY CountedSets, Zenon DEF Counts
  <2> QED
    BY <2>1, <2>2, <2>3
<1>3. memRefs' = BackingHolds'
  <2>1. BackingHolds' = Cardinality(Holders') + Cardinality(Backed)
    BY Zenon DEF BackingHolds, Holders, Backed
  <2>2. \A b : b # a => (b \in Holders' <=> b \in Holders)
    BY Zenon DEF Holders, Sizes
  <2>3. a \notin Holders' /\ (a \in Holders <=> holds[a])
    BY Zenon DEF Holders, Sizes
  <2>4. Cardinality(Holders') = Cardinality(Holders) + (IF a \in Holders' THEN 1 ELSE 0)
                                - (IF a \in Holders THEN 1 ELSE 0)
    <3>1. IsFiniteSet(Holders)
      BY CountedSets, Zenon
    <3> QED
      BY <2>2, <3>1, OneMember, Zenon
  <2>5. memRefs = Cardinality(Holders) + Cardinality(Backed)
    BY CountedSets, Zenon DEF Counts
  <2>6. Cardinality(Backed) \in Nat /\ Cardinality(Holders) \in Nat
    BY CountedSets, Zenon
  <2> QED
    BY <2>1, <2>3, <2>4, <2>5, <2>6
<1> QED
  BY <1>1, <1>2, <1>3, Zenon DEF Counts

-----------------------------------------------------------------------------
(* Steps that leave the chains alone. *)

\* Where an agent is in a chain, or past its last delivery.
Engaged == PostPCs \cup {"teardown", "gone"}

\* A step that moves no chain and no poster leaves a record where it was in them.
LEMMA ChainsStay ==
  ASSUME Chains, posts' = posts, \A b \in Agents : pc[b] \in PostPCs => pc'[b] = pc[b], NEW q
  PROVE  Posters(q)' = Posters(q) /\ (Undropped(q)' <=> Undropped(q)) /\ (Unposted(q)' <=> Unposted(q))
<1>1. Posters(q)' = Posters(q)
  BY Zenon DEF Posters
<1>2. ASSUME NEW b \in Posters(q) PROVE pc'[b] = pc[b]
  <2>1. b \in Agents /\ Listed(posts[b], q)
    BY Zenon DEF Posters
  <2>2. posts[b] # <<>>
    BY <2>1 DEF Listed
  <2> QED
    BY <2>1, <2>2, Zenon DEF Chains
<1> QED
  BY <1>1, <1>2, Zenon DEF Undropped, Unposted

\* Nothing is posted, and a record that awaits its post stays linked.
LEMMA ChainsKept ==
  ASSUME Chains, posts' = posts, \A b \in Agents : reactor'[b] => reactor[b],
         \A b \in Agents : pc[b] \in PostPCs => pc'[b] = pc[b],
         \A q \in Records : rec'[q] = rec[q]
           \/ /\ Posters(q) # {} => rec'[q] \in {"linked", "freed"}
              /\ Unposted(q) /\ reactor[Owner[q]] => rec'[q] = "linked"
  PROVE  Chains'
<1>1. \A b \in Agents : Distinct(posts'[b]) /\ (posts'[b] # <<>> => pc'[b] \in PostPCs)
  BY Zenon DEF Chains
<1>2. ASSUME NEW q \in Records
      PROVE  /\ \A a, b \in Posters(q)' : a = b
             /\ Posters(q)' # {} => rec'[q] \in {"linked", "freed"}
             /\ Unposted(q)' /\ reactor'[Owner[q]] => rec'[q] = "linked"
  <2>1. Posters(q)' = Posters(q) /\ (Unposted(q)' <=> Unposted(q))
    BY ChainsStay, Zenon
  <2>2. Owner[q] \in Agents
    BY AgentsAssumption, Zenon
  <2> QED
    BY <2>1, <2>2, Zenon DEF Chains
<1> QED
  BY <1>1, <1>2, Zenon DEF Chains

\* Nothing becomes ready, and what stays ready stays linked.
LEMMA ReadiesKept ==
  ASSUME Chains, Readies, UNCHANGED <<posts, reactor>>,
         \A b \in Agents : pc[b] \in PostPCs => pc'[b] = pc[b],
         \A b \in Agents : pc'[b] \in {"teardown", "gone"} <=> pc[b] \in {"teardown", "gone"},
         \A b \in Agents : Distinct(ready'[b]),
         \A b \in Agents : \A q \in Records :
           Listed(ready'[b], q) => Listed(ready[b], q) /\ rec'[q] = "linked",
         \A b \in Agents : pc'[b] \in {"wait", "blocked", "woken"} => holds'[b]
  PROVE  Readies'
<1>1. ASSUME NEW b \in Agents, NEW q \in Records, Listed(ready'[b], q)
      PROVE  Owner[q] = b /\ rec'[q] = "linked" /\ reactor'[b] /\ ~Unposted(q)'
  <2>1. Unposted(q)' <=> Unposted(q)
    BY ChainsStay, Zenon
  <2> QED
    BY <1>1, <2>1, Zenon DEF Readies
<1>2. ASSUME NEW b \in Agents PROVE reactor'[b] <=> pc'[b] \notin {"teardown", "gone"}
  BY Zenon DEF Readies
<1> QED
  BY <1>1, <1>2, Zenon DEF Readies

\* A step that moves no reference, no chain and nothing ready.
LEMMA CalmKeeps ==
  ASSUME RInv, UNCHANGED <<posts, rec, refs, mailRefs, memRefs, holds, reactor, ready>>,
         \A b \in Agents : pc'[b] = pc[b] \/ (pc[b] \notin Engaged /\ pc'[b] \notin Engaged),
         \A b \in Agents : pc'[b] \in {"wait", "blocked", "woken"} => holds[b],
         \A q \in Records : Listed(bucket', q) <=> Listed(bucket, q),
         timer' \in [Records -> BOOLEAN], deadline' \in [Agents -> {"none", "set", "passed"}]
  PROVE  RInv'
<1>1. Chains /\ Readies /\ Counts
  BY Zenon DEF RInv
<1>2. Sizes'
  BY Zenon DEF RInv, Sizes
<1>3. \A b \in Agents : /\ pc[b] \in PostPCs => pc'[b] = pc[b]
                        /\ pc'[b] \in {"teardown", "gone"} <=> pc[b] \in {"teardown", "gone"}
  BY Zenon DEF Engaged
<1>4. Chains'
  BY <1>1, <1>3, ChainsKept, Zenon
<1>5. Readies'
  <2>1. /\ \A b \in Agents : Distinct(ready'[b])
        /\ \A b \in Agents : \A q \in Records : Listed(ready'[b], q) => Listed(ready[b], q) /\ rec'[q] = "linked"
    BY <1>1, Zenon DEF Readies
  <2> QED
    BY <1>1, <1>3, <2>1, ReadiesKept, Zenon
<1>6. Counts'
  <2>1. ASSUME NEW q \in Records
        PROVE  /\ (Listed(bucket, q) \/ Undropped(q))' <=> Listed(bucket, q) \/ Undropped(q)
               /\ Named(q)' <=> Named(q)
    <3>1. Posters(q)' = Posters(q) /\ (Undropped(q)' <=> Undropped(q))
      BY <1>1, <1>3, ChainsStay, Zenon
    <3> QED
      BY <3>1, Zenon DEF Named
  <2>2. \A b \in Agents : pc'[b] = "gone" <=> pc[b] = "gone"
    BY Zenon DEF Engaged
  <2> QED
    BY <1>1, <2>1, <2>2, CountsStay, Zenon
<1> QED
  BY <1>2, <1>4, <1>5, <1>6, Zenon DEF RInv

\* One record is linked or freed; nothing is posted.
LEMMA RecordKeeps ==
  ASSUME RInv, NEW r \in Records, UNCHANGED <<posts, holds, reactor>>,
         \A b \in Agents : pc'[b] = pc[b] \/ (pc[b] \notin Engaged /\ pc'[b] \notin Engaged),
         \A b \in Agents : pc'[b] \in {"wait", "blocked", "woken"} => holds[b],
         \A q \in Records \ {r} : rec'[q] = rec[q] /\ refs'[q] = refs[q]
                                  /\ (Listed(bucket', q) <=> Listed(bucket, q)),
         \A b \in Agents \ {Owner[r]} : mailRefs'[b] = mailRefs[b],
         Posters(r) # {} => rec'[r] \in {"linked", "freed"},
         Unposted(r) /\ reactor[Owner[r]] => rec'[r] = "linked",
         refs'[r] = (IF rec'[r] = "linked" THEN 1 ELSE 0)
                    + (IF Listed(bucket', r) \/ Undropped(r) THEN 1 ELSE 0),
         memRefs' = memRefs + (IF refs'[r] > 0 THEN 1 ELSE 0) - (IF refs[r] > 0 THEN 1 ELSE 0),
         mailRefs'[Owner[r]] = mailRefs[Owner[r]]
           + (IF rec'[r] = "linking" \/ Listed(bucket', r) \/ Posters(r) # {} THEN 1 ELSE 0)
           - (IF Named(r) THEN 1 ELSE 0),
         \A b \in Agents : Distinct(ready'[b]),
         \A b \in Agents : \A q \in Records : Listed(ready'[b], q) =>
           Listed(ready[b], q) /\ (q = r => rec'[r] = "linked"),
         Sizes'
  PROVE  RInv'
<1>1. Sizes /\ Chains /\ Readies /\ Counts
  BY Zenon DEF RInv
<1>2. \A b \in Agents : /\ pc[b] \in PostPCs => pc'[b] = pc[b]
                        /\ pc'[b] \in {"teardown", "gone"} <=> pc[b] \in {"teardown", "gone"}
  BY Zenon DEF Engaged
<1>3. \A q \in Records : Posters(q)' = Posters(q) /\ (Undropped(q)' <=> Undropped(q))
  BY <1>1, <1>2, ChainsStay, Zenon
<1>4. Chains'
  BY <1>1, <1>2, ChainsKept, Zenon
<1>5. Readies'
  <2>1. \A b \in Agents : \A q \in Records : Listed(ready'[b], q) => Listed(ready[b], q) /\ rec'[q] = "linked"
    BY <1>1 DEF Readies
  <2> QED
    BY <1>1, <1>2, <2>1, ReadiesKept, Zenon
<1>6. Counts'
  <2>1. ASSUME NEW q \in Records \ {r}
        PROVE  /\ refs'[q] = refs[q]
               /\ rec'[q] = "linked" <=> rec[q] = "linked"
               /\ (Listed(bucket, q) \/ Undropped(q))' <=> Listed(bucket, q) \/ Undropped(q)
               /\ Named(q)' <=> Named(q)
    BY <1>3, Zenon DEF Named
  <2>2. \A b \in Agents : pc'[b] = "gone" <=> pc[b] = "gone"
    BY Zenon DEF Engaged
  <2>3. Named(r)' <=> rec'[r] = "linking" \/ Listed(bucket', r) \/ Posters(r) # {}
    BY <1>3, Zenon DEF Named
  <2>4. mailRefs'[Owner[r]] = mailRefs[Owner[r]] + (IF Named(r)' THEN 1 ELSE 0) - (IF Named(r) THEN 1 ELSE 0)
    BY <2>3, Zenon
  <2>5. refs'[r] = (IF rec'[r] = "linked" THEN 1 ELSE 0)
                   + (IF (Listed(bucket, r) \/ Undropped(r))' THEN 1 ELSE 0)
    BY <1>3, Zenon
  <2> QED
    BY <1>1, <2>1, <2>2, <2>4, <2>5, CountsMove, Zenon
<1> QED
  BY <1>4, <1>5, <1>6, Zenon DEF RInv

\* A step of the synchronous part.
LEMMA SyncKeeps ==
  ASSUME IInv, RInv, UNCHANGED <<asyncVars, memVars>>,
         \A b \in Agents : pc'[b] = pc[b] \/ (pc[b] \notin Engaged /\ pc'[b] \notin Engaged),
         \A b \in Agents : pc'[b] \in {"wait", "blocked", "woken"} => holds[b],
         \A q \in Records : Listed(bucket', q) <=> Listed(bucket, q),
         deadline' \in [Agents -> {"none", "set", "passed"}]
  PROVE  RInv'
<1>1. UNCHANGED <<posts, rec, refs, mailRefs, memRefs, holds, reactor, ready, timer>>
  BY Zenon DEF asyncVars, memVars
<1>2. timer' \in [Records -> BOOLEAN]
  BY <1>1, Zenon DEF RInv, Sizes
<1> QED
  BY <1>1, <1>2, CalmKeeps, Zenon

\* An agent inside a wait holds the backing.
LEMMA WaitingHolds ==
  ASSUME RInv, NEW b \in Agents, pc[b] \in {"wait", "blocked", "woken"}
  PROVE  holds[b]
  BY Zenon DEF RInv, Readies

\* A wait registers its waiter with the interrupt: no reference moves.
LEMMA WaitBeginCalm ==
  ASSUME IInv, RInv, NEW a \in Agents, WaitBegin(a)
  PROVE  RInv'
<1>1. /\ UNCHANGED <<bucket, asyncVars, memVars>> /\ pc[a] = "run" /\ holds[a]
      /\ pc' = [pc EXCEPT ![a] = "wait"]
      /\ \E d \in {"none", "set"} : deadline' = [deadline EXCEPT ![a] = d]
  BY Zenon DEF WaitBegin
<1>2. \A b \in Agents : pc'[b] = IF b = a THEN "wait" ELSE pc[b]
  BY <1>1, Zenon DEF IInv, Types
<1>3. deadline' \in [Agents -> {"none", "set", "passed"}]
  BY <1>1, Zenon DEF RInv, Sizes
<1> QED
  BY <1>1, <1>2, <1>3, WaitingHolds, SyncKeeps DEF Engaged, PostPCs

\* A wait unregisters and returns: no reference moves.
LEMMA WaitLeaveCalm ==
  ASSUME IInv, RInv, NEW a \in Agents, WaitLeave(a)
  PROVE  RInv'
<1>1. /\ UNCHANGED <<bucket, asyncVars, memVars>> /\ pc[a] = "leaving"
      /\ pc' = [pc EXCEPT ![a] = "run"]
      /\ deadline' = [deadline EXCEPT ![a] = "none"]
  BY Zenon DEF WaitLeave
<1>2. \A b \in Agents : pc'[b] = IF b = a THEN "run" ELSE pc[b]
  BY <1>1, Zenon DEF IInv, Types
<1>3. deadline' \in [Agents -> {"none", "set", "passed"}]
  BY <1>1, Zenon DEF RInv, Sizes
<1> QED
  BY <1>1, <1>2, <1>3, WaitingHolds, SyncKeeps DEF Engaged, PostPCs

\* A waiter that gives up moves nobody else.
LEMMA OthersStay ==
  ASSUME NEW list \in Seq(Waiters), Distinct(list), NEW x, NEW y, y # x,
         NEW t, t = list \/ t = Without(list, x)
  PROVE  Listed(t, y) <=> Listed(list, y)
<1>1. \A z : Listed(Without(list, x), z) <=> Listed(list, z) /\ z # x
  BY WithoutCells, Zenon
<1> QED
  BY <1>1, Zenon

\* One round of the wait loop moves no reference.
LEMMA RoundCalm ==
  ASSUME IInv, RInv, NEW a \in Agents, pc[a] \in {"wait", "woken"},
         pc' = [pc EXCEPT ![a] = "blocked"] \/ pc' = [pc EXCEPT ![a] = "leaving"],
         \A q \in Records : Listed(bucket', q) <=> Listed(bucket, q),
         UNCHANGED <<deadline, asyncVars, memVars>>
  PROVE  RInv'
<1>1. \A b \in Agents : IF b = a THEN pc'[b] \in {"blocked", "leaving"} ELSE pc'[b] = pc[b]
  BY Zenon DEF IInv, Types
<1>2. deadline' \in [Agents -> {"none", "set", "passed"}]
  BY Zenon DEF RInv, Sizes
<1> QED
  BY <1>1, <1>2, WaitingHolds, SyncKeeps, Zenon DEF Engaged, PostPCs

\* The critical section up to the first sleep: no reference moves.
LEMMA WaitEnterCalm ==
  ASSUME IInv, RInv, NEW a \in Agents, WaitEnter(a)
  PROVE  RInv'
<1>1. /\ UNCHANGED <<deadline, asyncVars, memVars>> /\ pc[a] = "wait"
      /\ pc' = [pc EXCEPT ![a] = "blocked"] \/ pc' = [pc EXCEPT ![a] = "leaving"]
      /\ \/ bucket' = bucket
         \/ bucket' = Append(bucket, a)
         \/ bucket' = Without(Append(bucket, a), a)
  BY Zenon DEF WaitEnter, Round, GiveUp
<1>2. ASSUME NEW q \in Records PROVE Listed(bucket', q) <=> Listed(bucket, q)
  <2> DEFINE list == Append(bucket, a)
  <2>1. a \in Waiters /\ ~Listed(bucket, a) /\ q # a /\ bucket \in Seq(Waiters) /\ Distinct(bucket)
    <3>1. pc[a] = "wait"
      BY <1>1, Zenon
    <3>2. bucket \in Seq(Waiters) /\ Distinct(bucket) /\ ~Listed(bucket, a)
      BY <3>1, Zenon DEF IInv, Types, Sync
    <3> QED
      BY <3>2, AgentsAssumption, Zenon DEF Waiters
  <2>2. /\ list \in Seq(Waiters) /\ Distinct(list)
        /\ \A y : Listed(list, y) <=> Listed(bucket, y) \/ y = a
    BY <2>1, AppendCells, Zenon
  <2>3. bucket' = bucket \/ bucket' = list \/ bucket' = Without(list, a)
    BY <1>1, Zenon
  <2> HIDE DEF list
  <2>4. CASE bucket' # bucket
    <3>1. Listed(bucket', q) <=> Listed(list, q)
      BY <2>1, <2>2, <2>3, <2>4, OthersStay, Zenon
    <3> QED
      BY <2>1, <2>2, <3>1, Zenon
  <2> QED
    BY <2>4, Zenon
<1> QED
  BY <1>1, <1>2, RoundCalm, Zenon

\* The condition variable returns: no reference moves.
LEMMA WaitResumeCalm ==
  ASSUME IInv, RInv, NEW a \in Agents, WaitResume(a)
  PROVE  RInv'
<1>1. /\ UNCHANGED <<deadline, asyncVars, memVars>> /\ pc[a] = "woken"
      /\ pc' = [pc EXCEPT ![a] = "blocked"] \/ pc' = [pc EXCEPT ![a] = "leaving"]
      /\ bucket' = bucket \/ bucket' = Without(bucket, a)
  BY Zenon DEF WaitResume, Round, GiveUp
<1>2. ASSUME NEW q \in Records PROVE Listed(bucket', q) <=> Listed(bucket, q)
  <2>1. q # a /\ bucket \in Seq(Waiters) /\ Distinct(bucket)
    BY AgentsAssumption DEF IInv, Types
  <2> QED
    BY <1>1, <2>1, OthersStay, Zenon
<1> QED
  BY <1>1, <1>2, RoundCalm, Zenon

\* A deadline passes, or a spurious wake-up: no reference moves.
LEMMA ExpireCalm ==
  ASSUME IInv, RInv, NEW a \in Agents, Expire(a)
  PROVE  RInv'
<1>1. UNCHANGED <<bucket, asyncVars, memVars>>
  BY Zenon DEF Expire, listVars
<1>2. \A b \in Agents : pc'[b] = pc[b] \/ (pc[b] = "blocked" /\ pc'[b] = "woken")
  BY Zenon DEF Expire, IInv, Types
<1>3. deadline' \in [Agents -> {"none", "set", "passed"}]
  BY Zenon DEF Expire, RInv, Sizes
<1> QED
  BY <1>1, <1>2, <1>3, WaitingHolds, SyncKeeps, Zenon DEF Engaged, PostPCs

\* mal_shared_wait_interrupt_signal reads the current waiter: no reference moves.
LEMMA SignalCalm ==
  ASSUME IInv, RInv, NEW a \in Agents, NEW c \in Interruptible, Signal(a, c)
  PROVE  RInv'
<1>1. UNCHANGED <<bucket, deadline, asyncVars, memVars>>
  BY Zenon DEF Signal, listVars
<1>2. \A b \in Agents : pc'[b] = pc[b] \/ (pc[b] = "run" /\ pc'[b] = "broadcast")
  BY Zenon DEF Signal, IInv, Types
<1>3. deadline' \in [Agents -> {"none", "set", "passed"}]
  BY <1>1, Zenon DEF RInv, Sizes
<1> QED
  BY <1>1, <1>2, <1>3, WaitingHolds, SyncKeeps, Zenon DEF Engaged, PostPCs

\* The broadcast to the waiter that was read: no reference moves.
LEMMA BroadcastCalm ==
  ASSUME IInv, RInv, NEW a \in Agents, Broadcast(a)
  PROVE  RInv'
<1>1. UNCHANGED <<bucket, deadline, asyncVars, memVars>>
  BY Zenon DEF Broadcast, listVars
<1>2. target[a] \in Agents /\ Waiting(target[a]) /\ pc[a] = "broadcast"
  BY AgentsAssumption, Zenon DEF Broadcast, IInv, Interrupts
<1>3. \A b \in Agents : \/ pc'[b] = pc[b]
                        \/ pc[b] = "broadcast" /\ pc'[b] = "run"
                        \/ pc[b] = "blocked" /\ pc'[b] = "woken"
  BY <1>2, Zenon DEF Broadcast, IInv, Types, Waiting
<1>4. deadline' \in [Agents -> {"none", "set", "passed"}]
  BY <1>1, Zenon DEF RInv, Sizes
<1> QED
  BY <1>1, <1>3, <1>4, WaitingHolds, SyncKeeps, Zenon DEF Engaged, PostPCs

\* A program stores before it notifies: no reference moves.
LEMMA StoreCalm ==
  ASSUME IInv, RInv, NEW a \in Agents, Store(a)
  PROVE  RInv'
<1>1. /\ UNCHANGED <<bucket, deadline, asyncVars, memVars>> /\ pc[a] = "run"
      /\ pc' = [pc EXCEPT ![a] = "notify"]
  BY Zenon DEF Store, syncVars
<1>2. \A b \in Agents : pc'[b] = IF b = a THEN "notify" ELSE pc[b]
  BY <1>1, Zenon DEF IInv, Types
<1>3. deadline' \in [Agents -> {"none", "set", "passed"}]
  BY <1>1, Zenon DEF RInv, Sizes
<1> QED
  BY <1>1, <1>2, <1>3, WaitingHolds, SyncKeeps DEF Engaged, PostPCs

\* The loop polls its reactor: no reference moves.
LEMMA PollCalm ==
  ASSUME IInv, RInv, NEW a \in Agents, Poll(a)
  PROVE  RInv'
<1>1. UNCHANGED <<bucket, deadline, posts, rec, refs, mailRefs, memRefs, holds, reactor, ready, timer>>
  BY Zenon DEF Poll, listVars, syncVars, memVars
<1>2. \A b \in Agents : pc'[b] = pc[b] \/ (pc[b] \in {"run", "poll"} /\ pc'[b] \in {"run", "poll"})
  BY Zenon DEF Poll, IInv, Types
<1>3. timer' \in [Records -> BOOLEAN] /\ deadline' \in [Agents -> {"none", "set", "passed"}]
  BY <1>1, Zenon DEF RInv, Sizes
<1> QED
  BY <1>1, <1>2, <1>3, WaitingHolds, CalmKeeps, Zenon DEF Engaged, PostPCs

\* The waiter of a record that is not linked yet.
LEMMA Untouched ==
  ASSUME IInv, RInv, NEW r \in Records, rec[r] \in {"unused", "linking"}
  PROVE  /\ ~Listed(bucket, r) /\ Posters(r) = {} /\ ~Undropped(r) /\ ~Unposted(r)
         /\ refs[r] = 0
         /\ \A b \in Agents : ~Listed(ready[b], r)
<1>1. ~Listed(bucket, r)
  BY Zenon DEF IInv, Async
<1>2. Posters(r) = {} /\ ~Undropped(r) /\ ~Unposted(r)
  BY Zenon DEF RInv, Chains, Undropped, Unposted
<1>3. refs[r] = 0
  BY <1>1, <1>2, WaiterCount DEF RInv, Counts
<1>4. \A b \in Agents : ~Listed(ready[b], r)
  BY Zenon DEF RInv, Readies
<1> QED
  BY <1>1, <1>2, <1>3, <1>4, Zenon

\* atomics_async_wait links its record and retains the mailbox: the references stay exact.
LEMMA AsyncBeginMoves ==
  ASSUME IInv, RInv, NEW r \in Records, AsyncBegin(r)
  PROVE  RInv'
<1>1. /\ Owner[r] \in Agents /\ pc[Owner[r]] = "run" /\ rec[r] = "unused"
      /\ rec' = [rec EXCEPT ![r] = "linking"]
      /\ mailRefs' = [mailRefs EXCEPT ![Owner[r]] = @ + 1]
      /\ pc' = [pc EXCEPT ![Owner[r]] = "enqueue"]
      /\ UNCHANGED <<bucket, deadline, timer, refs, reactor, ready, posts, holds, memRefs>>
  BY AgentsAssumption, Zenon DEF AsyncBegin, Retained, syncVars, memVars
<1>2. /\ \A b \in Agents : pc'[b] = IF b = Owner[r] THEN "enqueue" ELSE pc[b]
      /\ \A q \in Records : rec'[q] = IF q = r THEN "linking" ELSE rec[q]
  BY <1>1, Zenon DEF IInv, Types
<1>3. /\ \A b \in Agents \ {Owner[r]} : mailRefs'[b] = mailRefs[b]
      /\ mailRefs'[Owner[r]] = mailRefs[Owner[r]] + 1 /\ mailRefs[Owner[r]] \in Int
      /\ memRefs \in Int
  BY <1>1, Zenon DEF RInv, Sizes
<1>4. Sizes'
  BY <1>1 DEF RInv, Sizes
<1>5. /\ ~Listed(bucket, r) /\ Posters(r) = {} /\ ~Undropped(r) /\ ~Unposted(r) /\ refs[r] = 0
      /\ \A b \in Agents : ~Listed(ready[b], r)
  BY <1>1, Untouched, Zenon
<1>6. ~Named(r)
  BY <1>1, <1>5, Zenon DEF Named
<1>7. \A b \in Agents : Distinct(ready[b])
  BY Zenon DEF RInv, Readies
<1>8. \A b \in Agents : pc'[b] = pc[b] \/ (pc[b] \notin Engaged /\ pc'[b] \notin Engaged)
  BY <1>1, <1>2 DEF Engaged, PostPCs
<1>9. \A b \in Agents : pc'[b] \in {"wait", "blocked", "woken"} => holds[b]
  BY <1>2, WaitingHolds, Zenon
<1> QED
  BY <1>1, <1>2, <1>3, <1>4, <1>5, <1>6, <1>7, <1>8, <1>9, RecordKeeps

\* mal_shared_memory_wait_async: the references stay exact.
LEMMA AsyncEnqueueMoves ==
  ASSUME IInv, RInv, NEW r \in Records, AsyncEnqueue(r)
  PROVE  RInv'
<1>1. /\ Owner[r] \in Agents /\ pc[Owner[r]] = "enqueue" /\ rec[r] = "linking"
      /\ pc' = [pc EXCEPT ![Owner[r]] = "run"]
      /\ UNCHANGED <<deadline, reactor, ready, posts, holds>>
  BY AgentsAssumption, Zenon DEF AsyncEnqueue, syncVars
<1>2. \A b \in Agents : pc'[b] = IF b = Owner[r] THEN "run" ELSE pc[b]
  BY <1>1, Zenon DEF IInv, Types
<1>3. /\ ~Listed(bucket, r) /\ Posters(r) = {} /\ ~Undropped(r) /\ ~Unposted(r) /\ refs[r] = 0
      /\ \A b \in Agents : ~Listed(ready[b], r)
  BY <1>1, Untouched, Zenon
<1>4. Named(r) /\ \A b \in Agents : Distinct(ready[b])
  BY <1>1, Zenon DEF Named, RInv, Readies
<1>5. \A b \in Agents : pc'[b] = pc[b] \/ (pc[b] \notin Engaged /\ pc'[b] \notin Engaged)
  BY <1>1, <1>2 DEF Engaged, PostPCs
<1>6. \A b \in Agents : pc'[b] \in {"wait", "blocked", "woken"} => holds[b]
  BY <1>2, WaitingHolds, Zenon
<1>7. /\ mailRefs \in [Agents -> Int] /\ refs \in [Records -> Int] /\ memRefs \in Int
      /\ timer \in [Records -> BOOLEAN] /\ rec \in [Records -> {"unused", "linking", "linked", "freed"}]
      /\ reactor \in [Agents -> BOOLEAN] /\ holds \in [Agents -> BOOLEAN]
      /\ deadline \in [Agents -> {"none", "set", "passed"}]
  BY Zenon DEF RInv, Sizes, IInv, Types
<1>8. CASE /\ bucket' = Append(bucket, r)
           /\ refs' = [refs EXCEPT ![r] = 2]
           /\ memRefs' = memRefs + 1
           /\ \E t \in BOOLEAN : timer' = [timer EXCEPT ![r] = t]
           /\ rec' = [rec EXCEPT ![r] = "linked"]
           /\ mailRefs' = mailRefs
  <2>1. \A y : Listed(bucket', y) <=> Listed(bucket, y) \/ y = r
    <3>1. r \in Waiters /\ bucket \in Seq(Waiters) /\ Distinct(bucket)
      BY Zenon DEF IInv, Types, Waiters
    <3> QED
      BY <1>3, <1>8, <3>1, AppendCells, Zenon
  <2>2. \A q \in Records : /\ rec'[q] = IF q = r THEN "linked" ELSE rec[q]
                           /\ refs'[q] = IF q = r THEN 2 ELSE refs[q]
    BY <1>7, <1>8, Zenon
  <2>3. Sizes'
    <3>1. timer' \in [Records -> BOOLEAN] /\ refs' \in [Records -> Int] /\ memRefs' \in Int
      BY <1>7, <1>8
    <3> QED
      BY <1>1, <1>7, <1>8, <3>1, Zenon DEF Sizes
  <2>4. memRefs' = memRefs + 1 /\ mailRefs' = mailRefs /\ mailRefs[Owner[r]] \in Int
    BY <1>1, <1>7, <1>8, Zenon
  <2> QED
    BY <1>1, <1>3, <1>4, <1>5, <1>6, <1>7, <2>1, <2>2, <2>3, <2>4, RecordKeeps
<1>9. CASE /\ rec' = [rec EXCEPT ![r] = "freed"]
           /\ mailRefs' = [mailRefs EXCEPT ![Owner[r]] = @ - 1]
           /\ UNCHANGED <<bucket, refs, memRefs, timer>>
  <2>1. /\ \A q \in Records : rec'[q] = IF q = r THEN "freed" ELSE rec[q]
        /\ \A b \in Agents \ {Owner[r]} : mailRefs'[b] = mailRefs[b]
        /\ mailRefs'[Owner[r]] = mailRefs[Owner[r]] - 1 /\ mailRefs[Owner[r]] \in Int
    BY <1>1, <1>7, <1>9, Zenon
  <2>2. Sizes'
    <3>1. mailRefs' \in [Agents -> Int]
      <4>1. mailRefs[Owner[r]] - 1 \in Int
        BY <2>1
      <4> QED
        BY <1>7, <1>9, <4>1, Zenon
    <3>2. UNCHANGED <<refs, memRefs, reactor, holds, timer, deadline>>
      BY <1>1, <1>9, Zenon
    <3> QED
      BY <1>7, <3>1, <3>2, Zenon DEF Sizes
  <2> QED
    BY <1>1, <1>3, <1>4, <1>5, <1>6, <1>7, <1>9, <2>1, <2>2, RecordKeeps
<1> QED
  BY <1>8, <1>9, Zenon DEF AsyncEnqueue

\* A waiter dropped with its last reference drops the backing.
LEMMA DroppedOne ==
  ASSUME NEW r
  PROVE  Cardinality(DropMemory({r})) = IF refs[r] = 1 THEN 1 ELSE 0
<1>1. CASE refs[r] = 1
  <2>1. DropMemory({r}) = {r}
    BY <1>1, Zenon DEF DropMemory
  <2> QED
    BY <1>1, <2>1, FS_Singleton, Zenon
<1>2. CASE refs[r] # 1
  <2>1. DropMemory({r}) = {}
    BY <1>2, Zenon DEF DropMemory
  <2> QED
    BY <1>2, <2>1, FS_EmptySet, Zenon
<1> QED
  BY <1>1, <1>2, Zenon

\* atomics_async_drain settles one record: the references stay exact.
LEMMA DrainMoves ==
  ASSUME IInv, RInv, NEW a \in Agents, Drain(a)
  PROVE  RInv'
<1> DEFINE r == Head(ready[a])
<1>1. ready[a] \in Seq(Waiters) /\ ready[a] # <<>> /\ Distinct(ready[a])
  BY Zenon DEF Drain, IInv, Types, RInv, Readies
<1>2. /\ Listed(ready[a], r) /\ r \in Waiters
      /\ Distinct(Tail(ready[a]))
      /\ \A y : Listed(Tail(ready[a]), y) <=> Listed(ready[a], y) /\ y # r
  BY <1>1, TailCells, Zenon
<1>3. /\ rec' = [rec EXCEPT ![r] = "freed"] /\ timer' = [timer EXCEPT ![r] = FALSE]
      /\ refs' = [q \in Records |-> IF q \in {r} THEN refs[q] - 1 ELSE refs[q]]
      /\ memRefs' = memRefs - Cardinality(DropMemory({r}))
      /\ ready' = [ready EXCEPT ![a] = Tail(ready[a])]
  BY Zenon DEF Drain, Settle, ReleaseWaiters
<1>u. UNCHANGED <<bucket, pc, deadline, mailRefs, reactor, posts, holds>>
  BY Zenon DEF Drain, syncVars
<1> HIDE DEF r
<1>4. r \in Records /\ result[r] = "ok"
  BY <1>2, Zenon DEF IInv, Posted
<1>5. rec[r] = "linked" /\ ~Unposted(r) /\ Owner[r] = a
  BY <1>2, <1>4, Zenon DEF RInv, Readies
<1>6. ~Listed(bucket, r)
  BY <1>4, Zenon DEF IInv, Async
<1>7. refs[r] = 1 + (IF Undropped(r) THEN 1 ELSE 0)
  BY <1>4, <1>5, <1>6, WaiterCount, Zenon DEF RInv, Counts
<1>8. Cardinality(DropMemory({r})) = IF refs[r] = 1 THEN 1 ELSE 0
  BY <1>4, DroppedOne, Zenon
<1>9. /\ mailRefs \in [Agents -> Int] /\ refs \in [Records -> Int] /\ memRefs \in Int
      /\ timer \in [Records -> BOOLEAN] /\ rec \in [Records -> {"unused", "linking", "linked", "freed"}]
  BY Zenon DEF RInv, Sizes, IInv, Types
<1>10. /\ \A q \in Records : /\ rec'[q] = IF q = r THEN "freed" ELSE rec[q]
                             /\ refs'[q] = IF q = r THEN refs[r] - 1 ELSE refs[q]
       /\ \A b \in Agents : ready'[b] = IF b = a THEN Tail(ready[a]) ELSE ready[b]
  BY <1>3, <1>4, <1>9, Zenon DEF IInv, Types
<1>11. Sizes'
  <2>1. timer' \in [Records -> BOOLEAN]
    BY <1>3, <1>9, Zenon
  <2>2. refs' \in [Records -> Int]
    <3>1. \A q \in Records : refs[q] \in Int /\ refs[q] - 1 \in Int
      BY <1>9
    <3> QED
      BY <1>3, <3>1, Zenon
  <2>3. memRefs' \in Int
    BY <1>3, <1>8, <1>9
  <2> QED
    BY <1>u, <2>1, <2>2, <2>3, Zenon DEF RInv, Sizes
<1>12. \A b \in Agents : Distinct(ready'[b])
  BY <1>2, <1>10, Zenon DEF RInv, Readies
<1>13. \A b \in Agents : \A q \in Records : Listed(ready'[b], q) => Listed(ready[b], q) /\ q # r
  BY <1>2, <1>4, <1>5, <1>10 DEF RInv, Readies
<1>14. Named(r) <=> Posters(r) # {}
  BY <1>5, <1>6, Zenon DEF Named
<1>15. memRefs' = memRefs + (IF refs'[r] > 0 THEN 1 ELSE 0) - (IF refs[r] > 0 THEN 1 ELSE 0)
  BY <1>3, <1>4, <1>7, <1>8, <1>9, <1>10
<1>16. mailRefs'[Owner[r]] = mailRefs[Owner[r]]
           + (IF rec'[r] = "linking" \/ Listed(bucket', r) \/ Posters(r) # {} THEN 1 ELSE 0)
           - (IF Named(r) THEN 1 ELSE 0)
  <2>1. rec'[r] = "linking" \/ Listed(bucket', r) \/ Posters(r) # {} <=> Named(r)
    BY <1>u, <1>4, <1>6, <1>10, <1>14, Zenon
  <2>2. mailRefs'[Owner[r]] = mailRefs[Owner[r]] /\ mailRefs[Owner[r]] \in Int
    BY <1>u, <1>5, <1>9, Zenon
  <2> QED
    BY <2>1, <2>2
<1>17. refs'[r] = (IF rec'[r] = "linked" THEN 1 ELSE 0)
                  + (IF Listed(bucket', r) \/ Undropped(r) THEN 1 ELSE 0)
  BY <1>u, <1>4, <1>6, <1>7, <1>10
<1>18. \A b \in Agents : pc'[b] = pc[b] /\ (pc'[b] \in {"wait", "blocked", "woken"} => holds[b])
  BY <1>u, WaitingHolds, Zenon
<1> QED
  BY <1>u, <1>4, <1>5, <1>10, <1>11, <1>12, <1>13, <1>15, <1>16, <1>17, <1>18, RecordKeeps

\* An owner cancels and frees a record of its own: the references stay exact.
LEMMA CancelMoves ==
  ASSUME IInv, RInv, NEW r \in Records, NEW c, NEW d, Cancel(r, c), Settle(r, d), rec[r] = "linked",
         mailRefs' = [mailRefs EXCEPT ![Owner[r]] = IF Listed(bucket, r) THEN @ - 1 ELSE @],
         Listed(bucket, r) \/ ~reactor[Owner[r]],
         \A b \in Agents : pc'[b] = pc[b] \/ (pc[b] \notin Engaged /\ pc'[b] = "run"),
         UNCHANGED <<deadline, reactor, ready, posts, holds>>
  PROVE  RInv'
<1>1. /\ mailRefs \in [Agents -> Int] /\ refs \in [Records -> Int] /\ memRefs \in Int
      /\ timer \in [Records -> BOOLEAN] /\ rec \in [Records -> {"unused", "linking", "linked", "freed"}]
      /\ Owner[r] \in Agents
  BY AgentsAssumption, Zenon DEF RInv, Sizes, IInv, Types
<1>2. \A y : Listed(bucket', y) <=> Listed(bucket, y) /\ y # r
  <2> DEFINE t == Without(bucket, r)
  <2>1. \A y : Listed(t, y) <=> Listed(bucket, y) /\ y # r
    <3>1. bucket \in Seq(Waiters) /\ Distinct(bucket)
      BY Zenon DEF IInv, Types
    <3> QED
      BY <3>1, WithoutCells, Zenon
  <2>2. bucket' = t
    BY Zenon DEF Cancel
  <2> HIDE DEF t
  <2> QED
    BY <2>1, <2>2, Zenon
<1>3. rec' = [rec EXCEPT ![r] = "freed"] /\ timer' = [timer EXCEPT ![r] = FALSE]
  BY Zenon DEF Settle
<1>4. \A q \in Records : rec'[q] = IF q = r THEN "freed" ELSE rec[q]
  BY <1>1, <1>3, Zenon
<1>5. timer' \in [Records -> BOOLEAN]
  BY <1>1, <1>3, Zenon
<1>6. /\ Listed(bucket, r) => Posters(r) = {} /\ \A b \in Agents : ~Listed(ready[b], r)
      /\ ~Listed(bucket, r) => \A b \in Agents : ~Listed(ready[b], r)
  <2>1. r \in Waiters
    BY Zenon DEF Waiters
  <2>2. Listed(bucket, r) => result[r] # "ok"
    BY Zenon DEF IInv, Async
  <2>3. Listed(bucket, r) => \A b \in Agents : ~Listed(posts[b], r) /\ ~Listed(ready[b], r)
    BY <2>1, <2>2, Zenon DEF IInv, Posted
  <2>4. ~Listed(bucket, r) => \A b \in Agents : ~Listed(ready[b], r)
    BY DEF RInv, Readies
  <2> QED
    BY <2>3, <2>4, Zenon DEF Posters
<1>7. refs[r] = 1 + (IF Listed(bucket, r) \/ Undropped(r) THEN 1 ELSE 0)
  BY WaiterCount, Zenon DEF RInv, Counts
<1>8. /\ \A q \in Records \ {r} : refs'[q] = refs[q]
      /\ refs' \in [Records -> Int] /\ memRefs' \in Int
      /\ refs'[r] = IF Undropped(r) THEN 1 ELSE 0
      /\ memRefs' = memRefs + (IF refs'[r] > 0 THEN 1 ELSE 0) - (IF refs[r] > 0 THEN 1 ELSE 0)
  <2>1. CASE Listed(bucket, r)
    <3>1. ~Undropped(r) /\ refs[r] = 2
      BY <1>6, <1>7, <2>1 DEF Undropped
    <3>2. refs' = [refs EXCEPT ![r] = refs[r] - 2] /\ memRefs' = memRefs - 1
      BY <2>1, Zenon DEF Cancel
    <3> QED
      BY <1>1, <3>1, <3>2
  <2>2. CASE ~Listed(bucket, r)
    <3>1. /\ refs' = [q \in Records |-> IF q \in {r} THEN refs[q] - 1 ELSE refs[q]]
          /\ memRefs' = memRefs - Cardinality(DropMemory({r}))
      BY <2>2, Zenon DEF Cancel, ReleaseWaiters
    <3>2. Cardinality(DropMemory({r})) = IF refs[r] = 1 THEN 1 ELSE 0
      BY DroppedOne, Zenon
    <3>3. /\ \A q \in Records \ {r} : refs'[q] = refs[q]
          /\ refs'[r] = refs[r] - 1
      BY <3>1, Zenon
    <3>4. refs' \in [Records -> Int]
      <4>1. \A q \in Records : refs[q] \in Int /\ refs[q] - 1 \in Int
        BY <1>1
      <4> QED
        BY <3>1, <4>1, Zenon
    <3> QED
      BY <1>1, <1>7, <2>2, <3>1, <3>2, <3>3, <3>4
  <2> QED
    BY <2>1, <2>2, Zenon
<1>9. /\ mailRefs' \in [Agents -> Int]
      /\ \A b \in Agents \ {Owner[r]} : mailRefs'[b] = mailRefs[b]
      /\ mailRefs'[Owner[r]] = mailRefs[Owner[r]]
           + (IF rec'[r] = "linking" \/ Listed(bucket', r) \/ Posters(r) # {} THEN 1 ELSE 0)
           - (IF Named(r) THEN 1 ELSE 0)
  <2>1. /\ mailRefs[Owner[r]] \in Int /\ mailRefs[Owner[r]] - 1 \in Int
        /\ mailRefs'[Owner[r]] = IF Listed(bucket, r) THEN mailRefs[Owner[r]] - 1 ELSE mailRefs[Owner[r]]
        /\ \A b \in Agents \ {Owner[r]} : mailRefs'[b] = mailRefs[b]
    BY <1>1
  <2>2. mailRefs' \in [Agents -> Int]
    BY <1>1, <2>1, Zenon
  <2>3. /\ rec'[r] = "linking" \/ Listed(bucket', r) \/ Posters(r) # {} <=> Posters(r) # {}
        /\ Named(r) <=> Listed(bucket, r) \/ Posters(r) # {}
    BY <1>2, <1>4, Zenon DEF Named
  <2> QED
    BY <1>6, <2>1, <2>2, <2>3
<1>10. Sizes'
  BY <1>5, <1>8, <1>9, Zenon DEF RInv, Sizes
<1>11. \A b \in Agents : Distinct(ready'[b]) /\ (pc'[b] \in {"wait", "blocked", "woken"} => holds[b])
  BY WaitingHolds, Zenon DEF RInv, Readies
<1>12. refs'[r] = (IF rec'[r] = "linked" THEN 1 ELSE 0)
                  + (IF Listed(bucket', r) \/ Undropped(r) THEN 1 ELSE 0)
  BY <1>2, <1>4, <1>8
<1>13. \A b \in Agents : pc'[b] = pc[b] \/ (pc[b] \notin Engaged /\ pc'[b] \notin Engaged)
  BY Zenon DEF Engaged, PostPCs
<1>14. Unposted(r) /\ reactor[Owner[r]] => rec'[r] = "linked"
  BY <1>6, Zenon DEF Unposted
<1>15. \A b \in Agents : \A q \in Records : Listed(ready'[b], q) => Listed(ready[b], q) /\ q # r
  BY <1>6, Zenon
<1>16. \A q \in Records \ {r} : rec'[q] = rec[q] /\ refs'[q] = refs[q] /\ (Listed(bucket', q) <=> Listed(bucket, q))
  BY <1>2, <1>4, <1>8, Zenon
<1> QED
  BY <1>4, <1>8, <1>9, <1>10, <1>11, <1>12, <1>13, <1>14, <1>15, <1>16, RecordKeeps

\* atomics_async_timeout: the references stay exact.
LEMMA TimeoutMoves ==
  ASSUME IInv, RInv, NEW r \in Records, Timeout(r)
  PROVE  RInv'
<1>1. /\ Owner[r] \in Agents /\ pc[Owner[r]] \in {"run", "poll"}
      /\ pc' = [pc EXCEPT ![Owner[r]] = "run"]
      /\ UNCHANGED <<deadline, reactor, ready, posts, holds>>
  BY AgentsAssumption, Zenon DEF Timeout, syncVars
<1>2. \A b \in Agents : pc'[b] = pc[b] \/ (pc[b] \notin Engaged /\ pc'[b] = "run")
  BY <1>1, Zenon DEF IInv, Types, Engaged, PostPCs
<1>3. CASE Listed(bucket, r)
  <2>1. /\ Cancel(r, "timed-out") /\ Settle(r, "timed-out")
        /\ mailRefs' = [mailRefs EXCEPT ![Owner[r]] = mailRefs[Owner[r]] - 1]
    BY <1>3, Zenon DEF Timeout, TimedOut
  <2>2. mailRefs' = [mailRefs EXCEPT ![Owner[r]] = IF Listed(bucket, r) THEN @ - 1 ELSE @]
    BY <1>3, <2>1, Zenon
  <2>3. rec[r] = "linked"
    BY <1>3, Zenon DEF IInv, Async
  <2> QED
    BY <1>1, <1>2, <1>3, <2>1, <2>2, <2>3, CancelMoves, Zenon
<1>4. CASE ~Listed(bucket, r)
  <2>1. UNCHANGED <<bucket, refs, memRefs, mailRefs, rec>> /\ timer' = [timer EXCEPT ![r] = FALSE]
    BY <1>4, Zenon DEF Timeout, TimedOut
  <2>2. timer' \in [Records -> BOOLEAN] /\ deadline' \in [Agents -> {"none", "set", "passed"}]
    BY <1>1, <2>1, Zenon DEF RInv, Sizes
  <2>3. \A b \in Agents : pc'[b] = pc[b] \/ (pc[b] \notin Engaged /\ pc'[b] \notin Engaged)
    BY <1>2, Zenon DEF Engaged, PostPCs
  <2>4. \A b \in Agents : pc'[b] \in {"wait", "blocked", "woken"} => holds[b]
    BY <1>2, WaitingHolds, Zenon
  <2> QED
    BY <1>1, <2>1, <2>2, <2>3, <2>4, CalmKeeps, Zenon
<1> QED
  BY <1>3, <1>4, Zenon

\* atomics_async_free handles one pending record: the references stay exact.
LEMMA TearRecordMoves ==
  ASSUME IInv, RInv, NEW r \in Records, TearRecord(r)
  PROVE  RInv'
<1>1. /\ Cancel(r, "interrupted") /\ Settle(r, "none") /\ rec[r] = "linked"
      /\ mailRefs' = [mailRefs EXCEPT ![Owner[r]] = IF Listed(bucket, r) THEN @ - 1 ELSE @]
      /\ UNCHANGED <<pc, deadline, reactor, ready, posts, holds>>
      /\ pc[Owner[r]] = "teardown" /\ Owner[r] \in Agents
  BY AgentsAssumption, Zenon DEF TearRecord, syncVars
<1>2. ~reactor[Owner[r]]
  BY <1>1, Zenon DEF RInv, Readies
<1> QED
  BY <1>1, <1>2, CancelMoves, Zenon

\* atomics_async_free stops deliveries: the references stay exact.
LEMMA TearBeginMoves ==
  ASSUME IInv, RInv, NEW a \in Agents, TearBegin(a)
  PROVE  RInv'
<1>1. /\ UNCHANGED <<bucket, deadline, rec, timer, refs, mailRefs, posts, holds, memRefs>>
      /\ reactor' = [reactor EXCEPT ![a] = FALSE] /\ ready' = [ready EXCEPT ![a] = <<>>]
      /\ pc[a] \in {"run", "poll"} /\ pc' = [pc EXCEPT ![a] = "teardown"]
  BY Zenon DEF TearBegin, listVars, syncVars, memVars
<1>2. \A b \in Agents : pc'[b] = IF b = a THEN "teardown" ELSE pc[b]
  BY <1>1, Zenon DEF IInv, Types
<1>3. \A b \in Agents : /\ reactor'[b] <=> reactor[b] /\ b # a
                        /\ ready'[b] = IF b = a THEN <<>> ELSE ready[b]
  BY <1>1, Zenon DEF IInv, Types, RInv, Sizes
<1>4. /\ Chains /\ Readies /\ Counts
      /\ \A b \in Agents : pc[b] \in PostPCs => pc'[b] = pc[b]
  BY <1>1, <1>2, Zenon DEF RInv, PostPCs
<1>5. Sizes'
  BY <1>1, Zenon DEF RInv, Sizes
<1>6. Chains'
  BY <1>1, <1>3, <1>4, ChainsKept, Zenon
<1>7. \A q \in Records : /\ Posters(q)' = Posters(q) /\ (Undropped(q)' <=> Undropped(q))
                         /\ Unposted(q)' <=> Unposted(q)
  BY <1>1, <1>4, ChainsStay, Zenon
<1>8. Readies'
  <2>1. ASSUME NEW b \in Agents
        PROVE  /\ reactor'[b] <=> pc'[b] \notin {"teardown", "gone"}
               /\ pc'[b] \in {"wait", "blocked", "woken"} => holds'[b]
    BY <1>1, <1>2, <1>3, <1>4 DEF Readies
  <2>2. ASSUME NEW b \in Agents
        PROVE  /\ Distinct(ready'[b])
               /\ \A q \in Records : Listed(ready'[b], q) =>
                    Owner[q] = b /\ rec'[q] = "linked" /\ reactor'[b] /\ ~Unposted(q)'
    <3>1. CASE b = a
      BY <1>3, <3>1 DEF Distinct, Listed
    <3>2. CASE b # a
      BY <1>1, <1>3, <1>4, <1>7, <3>2 DEF Readies
    <3> QED
      BY <3>1, <3>2, Zenon
  <2> QED
    BY <2>1, <2>2, Zenon DEF Readies
<1>9. Counts'
  <2>1. \A b \in Agents : pc'[b] = "gone" <=> pc[b] = "gone"
    BY <1>1, <1>2
  <2>2. ASSUME NEW q \in Records
        PROVE  /\ (Listed(bucket, q) \/ Undropped(q))' <=> Listed(bucket, q) \/ Undropped(q)
               /\ Named(q)' <=> Named(q)
    BY <1>1, <1>7, Zenon DEF Named
  <2> QED
    BY <1>1, <1>4, <2>1, <2>2, CountsStay, Zenon
<1> QED
  BY <1>5, <1>6, <1>8, <1>9, Zenon DEF RInv

\* An agent lets go of its wrapper.
LEMMA LeaveMoves ==
  ASSUME IInv, RInv, NEW a \in Agents, pc[a] \notin PostPCs,
         UNCHANGED <<bucket, deadline, rec, timer, refs, reactor, ready, posts>>,
         holds' = [holds EXCEPT ![a] = FALSE], memRefs' = memRefs - (IF holds[a] THEN 1 ELSE 0),
         mailRefs' \in [Agents -> Int],
         \A b \in Agents : mailRefs'[b] = mailRefs[b]
           + (IF pc'[b] = "gone" THEN 0 ELSE 1) - (IF pc[b] = "gone" THEN 0 ELSE 1),
         \A b \in Agents \ {a} : pc'[b] = pc[b],
         pc'[a] \notin {"wait", "blocked", "woken"},
         pc'[a] \in {"teardown", "gone"} <=> pc[a] \in {"teardown", "gone"}
  PROVE  RInv'
<1>1. Sizes /\ Chains /\ Readies /\ Counts
  BY Zenon DEF RInv
<1>2. Sizes'
  BY <1>1 DEF Sizes
<1>3. \A b \in Agents : pc[b] \in PostPCs => pc'[b] = pc[b]
  BY Zenon
<1>4. Chains'
  BY <1>1, <1>3, ChainsKept, Zenon
<1>5. Readies'
  <2>1. /\ \A b \in Agents : Distinct(ready'[b])
        /\ \A b \in Agents : \A q \in Records : Listed(ready'[b], q) => Listed(ready[b], q) /\ rec'[q] = "linked"
    BY <1>1, Zenon DEF Readies
  <2>2. \A b \in Agents : pc'[b] \in {"wait", "blocked", "woken"} => holds'[b]
    BY <1>1 DEF Readies, Sizes
  <2>3. \A b \in Agents : pc'[b] \in {"teardown", "gone"} <=> pc[b] \in {"teardown", "gone"}
    BY Zenon
  <2> QED
    BY <1>1, <1>3, <2>1, <2>2, <2>3, ReadiesKept, Zenon
<1>6. Counts'
  <2>1. ASSUME NEW q \in Records
        PROVE  /\ (Listed(bucket, q) \/ Undropped(q))' <=> Listed(bucket, q) \/ Undropped(q)
               /\ Named(q)' <=> Named(q)
    <3>1. Posters(q)' = Posters(q) /\ (Undropped(q)' <=> Undropped(q))
      BY <1>1, <1>3, ChainsStay, Zenon
    <3> QED
      BY <3>1, Zenon DEF Named
  <2> QED
    BY <1>1, <2>1, CountsLeave, Zenon
<1> QED
  BY <1>2, <1>4, <1>5, <1>6, Zenon DEF RInv

\* The collector frees the last wrapper: the references stay exact.
LEMMA DropBufferMoves ==
  ASSUME IInv, RInv, NEW a \in Agents, DropBuffer(a)
  PROVE  RInv'
<1>1. /\ UNCHANGED <<bucket, deadline, rec, timer, refs, reactor, ready, posts, pc, mailRefs>>
      /\ holds' = [holds EXCEPT ![a] = FALSE] /\ memRefs' = memRefs - 1 /\ holds[a]
      /\ pc[a] \in {"run", "poll"}
  BY Zenon DEF DropBuffer, listVars, syncVars, asyncVars
<1>2. mailRefs \in [Agents -> Int]
  BY Zenon DEF RInv, Sizes
<1>3. \A b \in Agents : mailRefs'[b] = mailRefs[b]
           + (IF pc'[b] = "gone" THEN 0 ELSE 1) - (IF pc[b] = "gone" THEN 0 ELSE 1)
  BY <1>1, <1>2
<1> QED
  BY <1>1, <1>2, <1>3, LeaveMoves, Zenon DEF PostPCs

\* The owner drops its mailbox: the references stay exact.
LEMMA TearEndMoves ==
  ASSUME IInv, RInv, NEW a \in Agents, TearEnd(a)
  PROVE  RInv'
<1>1. /\ UNCHANGED <<bucket, deadline, rec, timer, refs, reactor, ready, posts>>
      /\ holds' = [holds EXCEPT ![a] = FALSE]
      /\ memRefs' = IF holds[a] THEN memRefs - 1 ELSE memRefs
      /\ mailRefs' = [mailRefs EXCEPT ![a] = mailRefs[a] - 1]
      /\ pc[a] = "teardown" /\ pc' = [pc EXCEPT ![a] = "gone"]
  BY Zenon DEF TearEnd, listVars, syncVars
<1>2. mailRefs \in [Agents -> Int] /\ memRefs \in Int /\ pc \in [Agents -> PCs]
  BY Zenon DEF RInv, Sizes, IInv, Types
<1>3. mailRefs' \in [Agents -> Int] /\ mailRefs'[a] = mailRefs[a] - 1 /\ mailRefs[a] \in Int
  BY <1>1, <1>2
<1>4. \A b \in Agents \ {a} : mailRefs'[b] = mailRefs[b] /\ mailRefs[b] \in Int
  BY <1>1, <1>2, Zenon
<1>5. pc'[a] = "gone" /\ \A b \in Agents \ {a} : pc'[b] = pc[b]
  BY <1>1, <1>2, Zenon
<1>6. \A b \in Agents : mailRefs'[b] = mailRefs[b]
           + (IF pc'[b] = "gone" THEN 0 ELSE 1) - (IF pc[b] = "gone" THEN 0 ELSE 1)
  BY <1>1, <1>3, <1>4, <1>5
<1>7. memRefs' = memRefs - (IF holds[a] THEN 1 ELSE 0)
  BY <1>1, <1>2
<1> QED
  BY <1>1, <1>3, <1>5, <1>6, <1>7, LeaveMoves DEF PostPCs

\* The head of a chain: it is in no other, and was taken out of the list.
LEMMA ChainHead ==
  ASSUME IInv, RInv, NEW a \in Agents, pc[a] \in PostPCs
  PROVE  LET r == Head(posts[a]) IN
         /\ posts[a] # <<>> /\ posts[a] \in Seq(Waiters) /\ Distinct(posts[a])
         /\ r \in Records /\ Posters(r) = {a} /\ ~Listed(bucket, r) /\ Owner[r] \in Agents
         /\ rec[r] \in {"linked", "freed"}
         /\ Undropped(r) <=> pc[a] # "drop-mailbox"
         /\ Unposted(r) <=> pc[a] = "post"
<1> DEFINE r == Head(posts[a])
<1>1. posts[a] # <<>> /\ posts[a] \in Seq(Waiters) /\ Distinct(posts[a])
  BY Zenon DEF PostPCs, IInv, Types, Posted, RInv, Chains
<1>2. r \in Waiters /\ Listed(posts[a], r)
  BY <1>1, TailCells, Zenon
<1> HIDE DEF r
<1>3. r \in Records /\ result[r] = "ok"
  BY <1>2, Zenon DEF IInv, Posted
<1>4. ~Listed(bucket, r)
  BY <1>3, Zenon DEF IInv, Async
<1>5. a \in Posters(r)
  BY <1>2, Zenon DEF Posters
<1>6. Posters(r) = {a} /\ rec[r] \in {"linked", "freed"}
  BY <1>3, <1>5 DEF RInv, Chains
<1>7. Undropped(r) <=> pc[a] # "drop-mailbox"
  BY <1>6, Zenon DEF Undropped, r
<1>8. Unposted(r) <=> pc[a] = "post"
  BY <1>6, Zenon DEF Unposted, r
<1>9. Owner[r] \in Agents
  BY <1>3, AgentsAssumption, Zenon
<1> QED
  BY <1>1, <1>3, <1>4, <1>6, <1>7, <1>8, <1>9, Zenon DEF r

\* One step along a chain: nobody else's moves.
LEMMA ChainStep ==
  ASSUME Chains, NEW a \in Agents, NEW q, q # Head(posts[a]), posts' = posts,
         \A b \in Agents \ {a} : pc'[b] = pc[b]
  PROVE  Posters(q)' = Posters(q) /\ (Undropped(q)' <=> Undropped(q)) /\ (Unposted(q)' <=> Unposted(q))
<1>1. Posters(q)' = Posters(q)
  BY Zenon DEF Posters
<1>2. ASSUME NEW b \in Posters(q) PROVE b \in Agents /\ (Head(posts[b]) = q => b # a)
  BY Zenon DEF Posters
<1> QED
  BY <1>1, <1>2, Zenon DEF Undropped, Unposted

\* atomics_async_post: the references stay exact.
LEMMA PostMoves ==
  ASSUME IInv, RInv, NEW a \in Agents, Post(a)
  PROVE  RInv'
<1>1. /\ pc[a] = "post" /\ pc' = [pc EXCEPT ![a] = "drop-waiter"]
      /\ UNCHANGED <<bucket, deadline, rec, timer, refs, mailRefs, reactor, posts, holds, memRefs>>
  BY Zenon DEF Post, listVars, syncVars, memVars
<1>2. PICK r \in Records :
        /\ r = Head(posts[a]) /\ Posters(r) = {a} /\ Owner[r] \in Agents /\ Undropped(r) /\ Unposted(r)
        /\ posts[a] # <<>> /\ rec[r] \in {"linked", "freed"}
  BY <1>1, ChainHead, Zenon DEF PostPCs
<1> DEFINE m == Owner[r]
<1>r. ready' = IF reactor[m] THEN [ready EXCEPT ![m] = Append(ready[m], r)] ELSE ready
  BY <1>2, Zenon DEF Post, Accepts
<1> HIDE DEF m
<1>3. Sizes /\ Chains /\ Readies /\ Counts
  BY Zenon DEF RInv
<1>4. \A b \in Agents : pc'[b] = IF b = a THEN "drop-waiter" ELSE pc[b]
  BY <1>1, Zenon DEF IInv, Types
<1>5. \A q : q # r => /\ Posters(q)' = Posters(q) /\ (Undropped(q)' <=> Undropped(q))
                      /\ Unposted(q)' <=> Unposted(q)
  BY <1>1, <1>2, <1>3, <1>4, ChainStep, Zenon
<1>6. Posters(r)' = Posters(r) /\ Undropped(r)' /\ ~Unposted(r)'
  <2>1. Posters(r)' = {a}
    BY <1>1, <1>2, Zenon DEF Posters
  <2>2. pc'[a] = "drop-waiter" /\ Head(posts'[a]) = r
    BY <1>1, <1>2, <1>4, Zenon
  <2>3. Undropped(r)' /\ ~Unposted(r)'
    BY <2>1, <2>2, Zenon DEF Undropped, Unposted
  <2> QED
    BY <1>2, <2>1, <2>3, Zenon
<1>7. Sizes'
  BY <1>1, <1>3, Zenon DEF Sizes
<1>8. Chains'
  <2>1. \A b \in Agents : Distinct(posts'[b]) /\ (posts'[b] # <<>> => pc'[b] \in PostPCs)
    BY <1>1, <1>3, <1>4, Zenon DEF Chains, PostPCs
  <2>2. ASSUME NEW q \in Records
        PROVE  /\ \A b, c \in Posters(q)' : b = c
               /\ Posters(q)' # {} => rec'[q] \in {"linked", "freed"}
               /\ Unposted(q)' /\ reactor'[Owner[q]] => rec'[q] = "linked"
    BY <1>1, <1>2, <1>3, <1>5, <1>6 DEF Chains
  <2> QED
    BY <2>1, <2>2, Zenon DEF Chains
<1>9. Readies'
  <2>1. ASSUME NEW b \in Agents
        PROVE  /\ reactor'[b] <=> pc'[b] \notin {"teardown", "gone"}
               /\ pc'[b] \in {"wait", "blocked", "woken"} => holds'[b]
    BY <1>1, <1>3, <1>4 DEF Readies
  <2>2. ASSUME NEW b \in Agents
        PROVE  /\ Distinct(ready'[b])
               /\ \A q \in Records : Listed(ready'[b], q) =>
                    Owner[q] = b /\ rec'[q] = "linked" /\ reactor'[b] /\ ~Unposted(q)'
    <3>1. ASSUME NEW q \in Records, Listed(ready[b], q)
          PROVE  Owner[q] = b /\ rec'[q] = "linked" /\ reactor'[b] /\ ~Unposted(q)'
      BY <1>1, <1>3, <1>5, <1>6, <3>1 DEF Readies
    <3>2. CASE reactor[m] /\ b = m
      <4>1. r \in Waiters /\ ready[b] \in Seq(Waiters) /\ Distinct(ready[b]) /\ ~Listed(ready[b], r)
        BY <1>2, <1>3, Zenon DEF IInv, Types, Readies, Waiters
      <4>2. /\ Distinct(Append(ready[b], r))
            /\ \A y : Listed(Append(ready[b], r), y) <=> Listed(ready[b], y) \/ y = r
        BY <4>1, AppendCells, Zenon
      <4>3. ready'[b] = Append(ready[b], r)
        BY <1>r, <3>2, Zenon DEF IInv, Types
      <4>4. Owner[r] = b /\ rec'[r] = "linked" /\ reactor'[b] /\ ~Unposted(r)'
        BY <1>1, <1>2, <1>3, <1>6, <3>2 DEF Chains, m
      <4> QED
        BY <3>1, <4>2, <4>3, <4>4, Zenon
    <3>3. CASE ~(reactor[m] /\ b = m)
      <4>1. ready'[b] = ready[b]
        BY <1>r, <3>3, Zenon DEF IInv, Types, m
      <4> QED
        BY <1>3, <3>1, <4>1, Zenon DEF Readies
    <3> QED
      BY <3>2, <3>3, Zenon
  <2> QED
    BY <2>1, <2>2, Zenon DEF Readies
<1>10. Counts'
  <2>1. \A b \in Agents : pc'[b] = "gone" <=> pc[b] = "gone"
    BY <1>1, <1>4
  <2>2. ASSUME NEW q \in Records
        PROVE  /\ (Listed(bucket, q) \/ Undropped(q))' <=> Listed(bucket, q) \/ Undropped(q)
               /\ Named(q)' <=> Named(q)
    BY <1>1, <1>2, <1>5, <1>6, Zenon DEF Named
  <2> QED
    BY <1>1, <1>3, <2>1, <2>2, CountsStay, Zenon
<1> QED
  BY <1>7, <1>8, <1>9, <1>10, Zenon DEF RInv

\* The notifier drops the waiter it posted: the references stay exact.
LEMMA PostDropWaiterMoves ==
  ASSUME IInv, RInv, NEW a \in Agents, PostDropWaiter(a)
  PROVE  RInv'
<1>1. /\ pc[a] = "drop-waiter" /\ pc' = [pc EXCEPT ![a] = "drop-mailbox"]
      /\ UNCHANGED <<bucket, deadline, rec, timer, mailRefs, reactor, ready, posts, holds>>
  BY Zenon DEF PostDropWaiter, listVars, syncVars
<1>3. PICK r \in Records :
        /\ r = Head(posts[a]) /\ Posters(r) = {a} /\ Owner[r] \in Agents /\ Undropped(r) /\ ~Unposted(r)
        /\ ~Listed(bucket, r)
  BY <1>1, ChainHead, Zenon DEF PostPCs
<1>2. /\ refs' = [q \in Records |-> IF q \in {r} THEN refs[q] - 1 ELSE refs[q]]
      /\ memRefs' = memRefs - Cardinality(DropMemory({r}))
  BY <1>3, Zenon DEF PostDropWaiter, ReleaseWaiters
<1>4. Sizes /\ Chains /\ Readies /\ Counts
  BY Zenon DEF RInv
<1>5. \A b \in Agents : pc'[b] = IF b = a THEN "drop-mailbox" ELSE pc[b]
  BY <1>1, Zenon DEF IInv, Types
<1>6. \A q : q # r => /\ Posters(q)' = Posters(q) /\ (Undropped(q)' <=> Undropped(q))
                      /\ Unposted(q)' <=> Unposted(q)
  BY <1>1, <1>3, <1>4, <1>5, ChainStep, Zenon
<1>7. Posters(r)' = Posters(r) /\ ~Undropped(r)' /\ ~Unposted(r)'
  <2>1. Posters(r)' = {a}
    BY <1>1, <1>3, Zenon DEF Posters
  <2> QED
    BY <1>1, <1>3, <1>5, <2>1 DEF Undropped, Unposted
<1>8. refs[r] = (IF rec[r] = "linked" THEN 1 ELSE 0) + 1
  BY <1>3, <1>4, WaiterCount, Zenon DEF Counts
<1>9. /\ refs'[r] = refs[r] - 1 /\ \A q \in Records \ {r} : refs'[q] = refs[q]
      /\ memRefs' = memRefs - (IF refs[r] = 1 THEN 1 ELSE 0)
  <2>1. Cardinality(DropMemory({r})) = IF refs[r] = 1 THEN 1 ELSE 0
    BY DroppedOne, Zenon
  <2> QED
    BY <1>2, <1>3, <2>1, Zenon
<1>10. Sizes'
  <2>1. refs' \in [Records -> Int]
    <3>1. \A q \in Records : refs[q] \in Int /\ refs[q] - 1 \in Int
      BY <1>4 DEF Sizes
    <3> QED
      BY <1>2, <3>1, Zenon
  <2>2. memRefs' \in Int
    BY <1>4, <1>9 DEF Sizes
  <2> QED
    BY <1>1, <1>4, <2>1, <2>2, Zenon DEF Sizes
<1>11. Chains'
  <2>1. \A b \in Agents : Distinct(posts'[b]) /\ (posts'[b] # <<>> => pc'[b] \in PostPCs)
    BY <1>1, <1>4, <1>5, Zenon DEF Chains, PostPCs
  <2>2. ASSUME NEW q \in Records
        PROVE  /\ \A b, c \in Posters(q)' : b = c
               /\ Posters(q)' # {} => rec'[q] \in {"linked", "freed"}
               /\ Unposted(q)' /\ reactor'[Owner[q]] => rec'[q] = "linked"
    BY <1>1, <1>3, <1>4, <1>6, <1>7 DEF Chains
  <2> QED
    BY <2>1, <2>2, Zenon DEF Chains
<1>12. Readies'
  <2>1. ASSUME NEW b \in Agents
        PROVE  /\ reactor'[b] <=> pc'[b] \notin {"teardown", "gone"}
               /\ pc'[b] \in {"wait", "blocked", "woken"} => holds'[b]
    BY <1>1, <1>4, <1>5 DEF Readies
  <2>2. ASSUME NEW b \in Agents
        PROVE  /\ Distinct(ready'[b])
               /\ \A q \in Records : Listed(ready'[b], q) =>
                    Owner[q] = b /\ rec'[q] = "linked" /\ reactor'[b] /\ ~Unposted(q)'
    BY <1>1, <1>4, <1>6, <1>7, Zenon DEF Readies
  <2> QED
    BY <2>1, <2>2, Zenon DEF Readies
<1>13. Counts'
  <2>1. \A b \in Agents : pc'[b] = "gone" <=> pc[b] = "gone"
    BY <1>1, <1>5
  <2>2. ASSUME NEW q \in Records \ {r}
        PROVE  /\ refs'[q] = refs[q]
               /\ rec'[q] = "linked" <=> rec[q] = "linked"
               /\ (Listed(bucket, q) \/ Undropped(q))' <=> Listed(bucket, q) \/ Undropped(q)
               /\ Named(q)' <=> Named(q)
    BY <1>1, <1>6, <1>9, Zenon DEF Named
  <2>3. refs'[r] = (IF rec'[r] = "linked" THEN 1 ELSE 0)
                   + (IF (Listed(bucket, r) \/ Undropped(r))' THEN 1 ELSE 0)
    BY <1>1, <1>3, <1>7, <1>8, <1>9
  <2>4. memRefs' = memRefs + (IF refs'[r] > 0 THEN 1 ELSE 0) - (IF refs[r] > 0 THEN 1 ELSE 0)
    BY <1>4, <1>8, <1>9 DEF Sizes
  <2>5. Named(r) /\ Named(r)'
    BY <1>3, <1>7, Zenon DEF Named
  <2>6. /\ \A b \in Agents : mailRefs'[b] = mailRefs[b] /\ mailRefs[b] \in Int
        /\ mailRefs'[Owner[r]] = mailRefs[Owner[r]] + (IF Named(r)' THEN 1 ELSE 0) - (IF Named(r) THEN 1 ELSE 0)
    BY <1>1, <1>3, <1>4, <2>5 DEF Sizes
  <2> QED
    BY <1>1, <1>3, <1>4, <2>1, <2>2, <2>3, <2>4, <2>6, CountsMove
<1> QED
  BY <1>10, <1>11, <1>12, <1>13, Zenon DEF RInv

\* The notifier drops the mailbox it posted to: the references stay exact.
LEMMA PostDropMailboxMoves ==
  ASSUME IInv, RInv, NEW a \in Agents, PostDropMailbox(a)
  PROVE  RInv'
<1>1. /\ pc[a] = "drop-mailbox"
      /\ UNCHANGED <<bucket, deadline, rec, timer, refs, reactor, ready, holds, memRefs>>
  BY Zenon DEF PostDropMailbox, listVars, syncVars, memVars
<1>2. PICK r \in Records :
        /\ r = Head(posts[a]) /\ Posters(r) = {a} /\ Owner[r] \in Agents /\ ~Undropped(r) /\ ~Unposted(r)
        /\ posts[a] # <<>> /\ posts[a] \in Seq(Waiters) /\ Distinct(posts[a]) /\ ~Listed(bucket, r)
        /\ rec[r] \in {"linked", "freed"}
  BY <1>1, ChainHead, Zenon DEF PostPCs
<1>3. /\ mailRefs' = [mailRefs EXCEPT ![Owner[r]] = mailRefs[Owner[r]] - 1]
      /\ posts' = [posts EXCEPT ![a] = Tail(posts[a])]
      /\ pc' = [pc EXCEPT ![a] = IF Len(posts[a]) = 1 THEN "run" ELSE "post"]
  BY <1>2, Zenon DEF PostDropMailbox
<1>4. Sizes /\ Chains /\ Readies /\ Counts
  BY Zenon DEF RInv
<1>5. /\ Distinct(Tail(posts[a]))
      /\ \A y : Listed(Tail(posts[a]), y) <=> Listed(posts[a], y) /\ y # r
      /\ Tail(posts[a]) = <<>> <=> Len(posts[a]) = 1
  <2>1. \A y : Listed(Tail(posts[a]), y) <=> Listed(posts[a], y) /\ y # Head(posts[a])
    BY <1>2, TailCells, Zenon
  <2>2. Distinct(Tail(posts[a])) /\ (Tail(posts[a]) = <<>> <=> Len(posts[a]) = 1)
    BY <1>2, TailCells, TailListed, Zenon
  <2> QED
    BY <1>2, <2>1, <2>2, Zenon
<1>6. /\ \A b \in Agents \ {a} : pc'[b] = pc[b] /\ posts'[b] = posts[b]
      /\ pc'[a] = IF Tail(posts[a]) = <<>> THEN "run" ELSE "post"
      /\ posts'[a] = Tail(posts[a])
  BY <1>3, <1>5, Zenon DEF IInv, Types
<1>7. ASSUME NEW q, q # r
      PROVE  /\ Posters(q)' = Posters(q) /\ (Undropped(q)' <=> Undropped(q))
             /\ Unposted(q)' <=> Unposted(q)
  <2>1. Posters(q)' = Posters(q)
    <3>1. \A b \in Agents : Listed(posts'[b], q) <=> Listed(posts[b], q)
      BY <1>5, <1>6, <1>7, Zenon
    <3> QED
      BY <3>1, Zenon DEF Posters
  <2>2. ASSUME NEW b \in Posters(q)
        PROVE  /\ Head(posts'[b]) # q \/ pc'[b] # "drop-mailbox" <=> Head(posts[b]) # q \/ pc[b] # "drop-mailbox"
               /\ Head(posts'[b]) # q \/ pc'[b] = "post" <=> Head(posts[b]) # q \/ pc[b] = "post"
    <3>1. b \in Agents /\ Listed(posts[b], q)
      BY Zenon DEF Posters
    <3>2. CASE b = a
      <4>1. Head(posts[a]) # q
        BY <1>2, <1>7, Zenon
      <4>2. Listed(Tail(posts[a]), q)
        BY <1>5, <1>7, <3>1, <3>2, Zenon
      <4>3. Tail(posts[a]) # <<>>
        BY <4>2 DEF Listed
      <4> QED
        BY <1>6, <3>2, <4>1, <4>3, Zenon
    <3>3. CASE b # a
      BY <1>6, <3>1, <3>3, Zenon
    <3> QED
      BY <3>2, <3>3, Zenon
  <2> QED
    BY <2>1, <2>2, Zenon DEF Undropped, Unposted
<1>8. Posters(r)' = {} /\ ~Undropped(r)' /\ ~Unposted(r)'
  <2>1. \A b \in Agents : ~Listed(posts'[b], r)
    BY <1>2, <1>5, <1>6, Zenon DEF Posters
  <2> QED
    BY <2>1, Zenon DEF Posters, Undropped, Unposted
<1>9. /\ mailRefs' \in [Agents -> Int] /\ mailRefs[Owner[r]] \in Int
      /\ \A b \in Agents \ {Owner[r]} : mailRefs'[b] = mailRefs[b]
      /\ mailRefs'[Owner[r]] = mailRefs[Owner[r]] - 1
  <2>1. mailRefs \in [Agents -> Int] /\ mailRefs[Owner[r]] - 1 \in Int /\ mailRefs[Owner[r]] \in Int
    BY <1>2, <1>4 DEF Sizes
  <2> QED
    BY <1>2, <1>3, <2>1, Zenon
<1>10. Sizes'
  BY <1>1, <1>4, <1>9, Zenon DEF Sizes
<1>11. Chains'
  <2>1. ASSUME NEW b \in Agents
        PROVE  Distinct(posts'[b]) /\ (posts'[b] # <<>> => pc'[b] \in PostPCs)
    BY <1>4, <1>5, <1>6, Zenon DEF Chains, PostPCs
  <2>2. ASSUME NEW q \in Records
        PROVE  /\ \A b, c \in Posters(q)' : b = c
               /\ Posters(q)' # {} => rec'[q] \in {"linked", "freed"}
               /\ Unposted(q)' /\ reactor'[Owner[q]] => rec'[q] = "linked"
    BY <1>1, <1>4, <1>7, <1>8 DEF Chains
  <2> QED
    BY <2>1, <2>2, Zenon DEF Chains
<1>12. Readies'
  <2>1. ASSUME NEW b \in Agents
        PROVE  /\ reactor'[b] <=> pc'[b] \notin {"teardown", "gone"}
               /\ pc'[b] \in {"wait", "blocked", "woken"} => holds'[b]
    BY <1>1, <1>4, <1>6, Zenon DEF Readies
  <2>2. ASSUME NEW b \in Agents
        PROVE  /\ Distinct(ready'[b])
               /\ \A q \in Records : Listed(ready'[b], q) =>
                    Owner[q] = b /\ rec'[q] = "linked" /\ reactor'[b] /\ ~Unposted(q)'
    BY <1>1, <1>4, <1>7, <1>8 DEF Readies
  <2> QED
    BY <2>1, <2>2, Zenon DEF Readies
<1>13. Counts'
  <2>1. \A b \in Agents : pc'[b] = "gone" <=> pc[b] = "gone"
    BY <1>1, <1>6, Zenon
  <2>2. ASSUME NEW q \in Records \ {r}
        PROVE  /\ refs'[q] = refs[q]
               /\ rec'[q] = "linked" <=> rec[q] = "linked"
               /\ (Listed(bucket, q) \/ Undropped(q))' <=> Listed(bucket, q) \/ Undropped(q)
               /\ Named(q)' <=> Named(q)
    BY <1>1, <1>7, Zenon DEF Named
  <2>3. /\ refs'[r] = refs[r]
        /\ refs'[r] = (IF rec'[r] = "linked" THEN 1 ELSE 0)
                      + (IF (Listed(bucket, r) \/ Undropped(r))' THEN 1 ELSE 0)
    BY <1>1, <1>2, <1>4, <1>8, WaiterCount DEF Counts
  <2>4. memRefs' = memRefs + (IF refs'[r] > 0 THEN 1 ELSE 0) - (IF refs[r] > 0 THEN 1 ELSE 0)
    BY <1>1, <1>4, <2>3 DEF Sizes
  <2>5. Named(r) /\ ~Named(r)'
    BY <1>1, <1>2, <1>8, Zenon DEF Named
  <2>6. mailRefs'[Owner[r]] = mailRefs[Owner[r]] + (IF Named(r)' THEN 1 ELSE 0) - (IF Named(r) THEN 1 ELSE 0)
    BY <1>9, <2>5
  <2> QED
    BY <1>1, <1>4, <1>9, <2>1, <2>2, <2>3, <2>4, <2>6, CountsMove
<1> QED
  BY <1>10, <1>11, <1>12, <1>13, Zenon DEF RInv

\* mal_shared_memory_notify: the references stay exact.
LEMMA NotifyMoves ==
  ASSUME IInv, RInv, NEW a \in Agents, Notify(a)
  PROVE  RInv'
<1>1. PICK o \in Offsets, last \in 0..Len(bucket) : Wake(a, o, last)
  <2>1. Len(bucket) \in 0..Len(bucket) /\ at[a] \in Offsets
    BY DEF IInv, Types, Waiters
  <2> QED
    BY <2>1, Zenon DEF Notify
<1>2. /\ UNCHANGED <<deadline, rec, timer, refs, mailRefs, reactor, ready, holds, memRefs>>
      /\ pc[a] \in {"notify", "run"}
  BY Zenon DEF Notify, syncVars, memVars
<1>3. PICK W : W = WokenSet(o, last)
  BY Zenon
<1>4. /\ \A y : y \in W => Listed(bucket, y)
      /\ \A y : Listed(bucket', y) <=> Listed(bucket, y) /\ y \notin W
      /\ \A b \in Agents \ {a} : posts'[b] = posts[b]
      /\ Distinct(posts'[a])
      /\ \A y : Listed(posts'[a], y) <=> y \in W /\ y \in Records
      /\ posts' \in [Agents -> Seq(Waiters)]
  BY <1>1, <1>3, WakeCells, Zenon DEF IInv
<1>5. pc' = [b \in Agents |->
                  IF b = a THEN IF W \cap Records = {} THEN "run" ELSE "post"
                  ELSE IF b \in W /\ pc[b] = "blocked" THEN "woken" ELSE pc[b]]
  BY <1>1, <1>3, WakeCells DEF IInv
<1>6. /\ \A b \in Agents : b # a => pc'[b] = pc[b] \/ (pc[b] = "blocked" /\ pc'[b] = "woken")
      /\ pc'[a] = IF W \cap Records = {} THEN "run" ELSE "post"
  BY <1>5, Zenon
<1>7. Sizes /\ Chains /\ Readies /\ Counts
  BY Zenon DEF RInv
<1>8. posts[a] = <<>> /\ \A y : ~Listed(posts[a], y)
  BY <1>2, <1>7 DEF Chains, PostPCs, Listed
<1>9. posts'[a] # <<>> => pc'[a] = "post"
  <2>1. posts'[a] \in Seq(Waiters)
    BY <1>4, Zenon
  <2>2. posts'[a] # <<>> => \E y : Listed(posts'[a], y)
    BY <2>1, EmptyCells, Zenon
  <2> QED
    BY <1>4, <1>6, <2>2, Zenon
<1>10. ASSUME NEW b \in Agents, b # a, posts[b] # <<>> PROVE pc'[b] = pc[b] /\ posts'[b] = posts[b]
  BY <1>4, <1>6, <1>7, <1>10, Zenon DEF Chains, PostPCs
<1>11. ASSUME NEW q \in Records, q \notin W
       PROVE  /\ Posters(q)' = Posters(q) /\ (Undropped(q)' <=> Undropped(q))
              /\ Unposted(q)' <=> Unposted(q)
  <2>1. \A b \in Agents : Listed(posts'[b], q) <=> Listed(posts[b], q)
    BY <1>4, <1>8, <1>11, Zenon
  <2>2. Posters(q)' = Posters(q)
    BY <2>1, Zenon DEF Posters
  <2>3. ASSUME NEW b \in Posters(q) PROVE pc'[b] = pc[b] /\ posts'[b] = posts[b]
    <3>1. b \in Agents /\ Listed(posts[b], q)
      BY Zenon DEF Posters
    <3>2. b # a
      BY <1>8, <3>1, Zenon
    <3>3. posts[b] # <<>>
      BY <3>1 DEF Listed
    <3> QED
      BY <1>10, <3>1, <3>2, <3>3, Zenon
  <2> QED
    BY <2>2, <2>3, Zenon DEF Undropped, Unposted
<1>12. ASSUME NEW q \in Records, q \in W
       PROVE  /\ Posters(q) = {} /\ Posters(q)' = {a} /\ Undropped(q)'
              /\ Listed(bucket, q) /\ rec[q] = "linked" /\ \A b \in Agents : ~Listed(ready[b], q)
  <2>1. Listed(bucket, q) /\ rec[q] = "linked" /\ result[q] # "ok"
    BY <1>4, <1>12, Zenon DEF IInv, Async
  <2>2. \A b \in Agents : ~Listed(posts[b], q) /\ ~Listed(ready[b], q)
    BY <2>1, Zenon DEF IInv, Posted, Waiters
  <2>3. Posters(q)' = {a}
    BY <1>4, <1>12, <2>2, Zenon DEF Posters
  <2>4. pc'[a] = "post"
    BY <1>6, <1>12, Zenon
  <2>5. Undropped(q)'
    BY <2>3, <2>4, Zenon DEF Undropped
  <2>6. Posters(q) = {}
    BY <2>2, Zenon DEF Posters
  <2> QED
    BY <2>1, <2>2, <2>3, <2>5, <2>6
<1>13. Sizes'
  BY <1>2, <1>7, Zenon DEF Sizes
<1>14. Chains'
  <2>1. ASSUME NEW b \in Agents
        PROVE  Distinct(posts'[b]) /\ (posts'[b] # <<>> => pc'[b] \in PostPCs)
    <3>1. CASE b = a
      BY <1>4, <1>9, <3>1, Zenon DEF PostPCs
    <3>2. CASE b # a
      BY <1>4, <1>7, <1>10, <3>2 DEF Chains
    <3> QED
      BY <3>1, <3>2, Zenon
  <2>2. ASSUME NEW q \in Records
        PROVE  /\ \A b, c \in Posters(q)' : b = c
               /\ Posters(q)' # {} => rec'[q] \in {"linked", "freed"}
               /\ Unposted(q)' /\ reactor'[Owner[q]] => rec'[q] = "linked"
    <3>1. CASE q \in W
      BY <1>2, <1>12, <3>1, Zenon
    <3>2. CASE q \notin W
      BY <1>2, <1>7, <1>11, <3>2 DEF Chains
    <3> QED
      BY <3>1, <3>2, Zenon
  <2> QED
    BY <2>1, <2>2, Zenon DEF Chains
<1>15. Readies'
  <2>1. ASSUME NEW b \in Agents
        PROVE  /\ reactor'[b] <=> pc'[b] \notin {"teardown", "gone"}
               /\ pc'[b] \in {"wait", "blocked", "woken"} => holds'[b]
    BY <1>2, <1>6, <1>7, Zenon DEF Readies
  <2>2. ASSUME NEW b \in Agents
        PROVE  /\ Distinct(ready'[b])
               /\ \A q \in Records : Listed(ready'[b], q) =>
                    Owner[q] = b /\ rec'[q] = "linked" /\ reactor'[b] /\ ~Unposted(q)'
    BY <1>2, <1>7, <1>11, <1>12, Zenon DEF Readies
  <2> QED
    BY <2>1, <2>2, Zenon DEF Readies
<1>16. Counts'
  <2>1. \A b \in Agents : pc'[b] = "gone" <=> pc[b] = "gone"
    BY <1>2, <1>6, Zenon
  <2>2. ASSUME NEW q \in Records
        PROVE  /\ (Listed(bucket, q) \/ Undropped(q))' <=> Listed(bucket, q) \/ Undropped(q)
               /\ Named(q)' <=> Named(q)
    <3>1. CASE q \in W
      BY <1>12, <3>1, Zenon DEF Named
    <3>2. CASE q \notin W
      BY <1>2, <1>4, <1>11, <3>2, Zenon DEF Named
    <3> QED
      BY <3>1, <3>2, Zenon
  <2> QED
    BY <1>2, <1>7, <2>1, <2>2, CountsStay, Zenon
<1> QED
  BY <1>13, <1>14, <1>15, <1>16, Zenon DEF RInv
\* The counts are exact initially.
LEMMA InitCounts == Init => RInv
<1> SUFFICES ASSUME Init PROVE RInv
  BY Zenon
<1>1. /\ bucket = <<>> /\ pc = [a \in Agents |-> "run"] /\ rec = [r \in Records |-> "unused"]
      /\ ready = [a \in Agents |-> <<>>] /\ posts = [a \in Agents |-> <<>>]
      /\ reactor = [a \in Agents |-> TRUE]
  BY DEF Init
<1>2. /\ refs = [r \in Records |-> 0] /\ mailRefs = [a \in Agents |-> 1]
      /\ holds = [a \in Agents |-> TRUE] /\ memRefs = Cardinality(Agents)
  BY Zenon DEF Init
<1>3. timer = [r \in Records |-> FALSE] /\ deadline = [a \in Agents |-> "none"]
  BY Zenon DEF Init
<1>4. Sizes
  <2>1. Cardinality(Agents) \in Int
    BY FiniteAssumption, FS_CardinalityType
  <2> QED
    BY <1>1, <1>2, <1>3, <2>1 DEF Sizes
<1>e. Distinct(<<>>) /\ \A q : ~Listed(<<>>, q)
  BY DEF Distinct, Listed
<1>5. /\ \A q : ~Listed(bucket, q)
      /\ \A a \in Agents : posts[a] = <<>> /\ ready[a] = <<>>
      /\ \A a \in Agents : \A q : ~Listed(posts[a], q) /\ ~Listed(ready[a], q)
  BY <1>1, <1>e, Zenon
<1>6. \A q : Posters(q) = {}
  BY <1>5, Zenon DEF Posters
<1>7. \A a \in Agents : Distinct(posts[a]) /\ Distinct(ready[a])
  BY <1>5, <1>e, Zenon
<1>8. Chains
  BY <1>5, <1>6, <1>7 DEF Chains, Unposted
<1>9. Readies
  BY <1>1, <1>2, <1>5, <1>7 DEF Readies
<1>10. Counts
  <2>1. ASSUME NEW r \in Records PROVE refs[r] = WaiterHolds(r)
    <3>1. ~Undropped(r)
      BY <1>6, Zenon DEF Undropped
    <3> QED
      BY <1>1, <1>2, <1>5, <3>1, WaiterCount
  <2>2. ASSUME NEW a \in Agents PROVE mailRefs[a] = MailboxHolds(a)
    <3>1. Mail(a) = {}
      BY <1>1, <1>5, <1>6 DEF Mail, Named
    <3>2. Cardinality(Mail(a)) = 0
      BY <3>1, FS_EmptySet
    <3>3. MailboxHolds(a) = (IF pc[a] = "gone" THEN 0 ELSE 1) + Cardinality(Mail(a))
      BY CountedSets, Zenon
    <3> QED
      BY <1>1, <1>2, <3>2, <3>3
  <2>3. memRefs = BackingHolds
    <3>1. Holders = Agents /\ Backed = {}
      BY <1>2 DEF Holders, Backed
    <3>2. Cardinality(Backed) = 0
      BY <3>1, FS_EmptySet, Zenon
    <3>3. BackingHolds = Cardinality(Holders) + Cardinality(Backed) /\ Cardinality(Holders) \in Nat
      BY CountedSets, Zenon
    <3> QED
      BY <1>2, <3>1, <3>2, <3>3
  <2> QED
    BY <2>1, <2>2, <2>3 DEF Counts
<1> QED
  BY <1>4, <1>8, <1>9, <1>10 DEF RInv

\* Every step keeps the counts exact.
LEMMA NextMoves == IInv /\ RInv /\ [Next]_vars => RInv'
<1> SUFFICES ASSUME IInv, RInv, [Next]_vars PROVE RInv'
  BY Zenon
<1>1. ASSUME NEW a \in Agents, AgentStep(a) PROVE RInv'
  BY <1>1, WaitBeginCalm, WaitEnterCalm, WaitResumeCalm, WaitLeaveCalm, ExpireCalm,
     BroadcastCalm, StoreCalm, NotifyMoves, PostMoves, PostDropWaiterMoves,
     PostDropMailboxMoves, DrainMoves, PollCalm, DropBufferMoves, TearBeginMoves, TearEndMoves,
     Zenon DEF AgentStep
<1>2. ASSUME NEW a \in Agents, NEW b \in Interruptible, Signal(a, b) PROVE RInv'
  BY <1>2, SignalCalm
<1>3. ASSUME NEW r \in Records, RecordStep(r) PROVE RInv'
  BY <1>3, AsyncBeginMoves, AsyncEnqueueMoves, TimeoutMoves, TearRecordMoves, Zenon DEF RecordStep
<1>4. CASE UNCHANGED vars
  <2>1. UNCHANGED <<bucket, pc, deadline, posts, rec, refs, mailRefs, memRefs, holds, reactor,
                    ready, timer>>
    BY <1>4 DEF vars, listVars, syncVars, asyncVars, memVars
  <2>2. timer' \in [Records -> BOOLEAN] /\ deadline' \in [Agents -> {"none", "set", "passed"}]
    BY <2>1 DEF RInv, Sizes
  <2>3. \A b \in Agents : pc'[b] \in {"wait", "blocked", "woken"} => holds[b]
    BY <2>1 DEF RInv, Readies
  <2> QED
    BY <2>1, <2>2, <2>3, CalmKeeps
<1> QED
  BY <1>1, <1>2, <1>3, <1>4, Zenon DEF Next, Finished

\* The references are where the invariant says, in every reachable state.
THEOREM Counted == Spec => [](IInv /\ RInv)
<1>1. Init => IInv /\ RInv
  BY InitEstablishes, InitCounts, Zenon
<1>2. IInv /\ RInv /\ [Next]_vars => (IInv /\ RInv)'
  BY NextKeeps, NextMoves, Zenon
<1> QED
  BY <1>1, <1>2, PTL DEF Spec

\* The backing outlives every waiter in the list.
LEMMA BackingLives == IInv /\ RInv /\ bucket # <<>> => memRefs > 0
<1> SUFFICES ASSUME IInv, RInv, bucket # <<>> PROVE memRefs > 0
  BY Zenon
<1>1. bucket[1] \in Waiters /\ Listed(bucket, bucket[1])
  BY DEF IInv, Types, Listed
<1>2. /\ memRefs = Cardinality(Holders) + Cardinality(Backed)
      /\ IsFiniteSet(Holders) /\ Cardinality(Holders) \in Nat
      /\ IsFiniteSet(Backed) /\ Cardinality(Backed) \in Nat
  BY CountedSets, Zenon DEF RInv, Counts
<1>3. CASE bucket[1] \in Agents
  <2>1. bucket[1] \in Holders
    BY <1>1, <1>3 DEF IInv, Sync, RInv, Readies, Holders
  <2>2. Cardinality(Holders) # 0
    BY <1>2, <2>1, FS_EmptySet
  <2> QED
    BY <1>2, <2>2
<1>4. CASE bucket[1] \in Records
  <2>1. refs[bucket[1]] = WaiterHolds(bucket[1])
    BY <1>4 DEF RInv, Counts
  <2>2. bucket[1] \in Backed
    BY <1>1, <1>4, <2>1, WaiterCount DEF Backed
  <2>3. Cardinality(Backed) # 0
    BY <1>2, <2>2, FS_EmptySet, Zenon
  <2> QED
    BY <1>2, <2>3
<1> QED
  BY <1>1, <1>3, <1>4 DEF Waiters

\* The reference counts of atomics_async.c and shared_memory.c are exact, whoever of notifier,
\* timer, event loop and teardown comes last: nothing is freed early, twice or never.
THEOREM RefsHold == Spec => []RefsExact
<1>1. IInv /\ RInv => RefsExact
  <2> SUFFICES ASSUME IInv, RInv PROVE RefsExact
    BY Zenon
  <2>1. /\ \A r \in Records : refs[r] = WaiterHolds(r)
        /\ \A a \in Agents : mailRefs[a] = MailboxHolds(a)
        /\ memRefs = BackingHolds
    BY Zenon DEF RInv, Counts
  <2>2. bucket # <<>> => memRefs > 0
    BY BackingLives, Zenon
  <2>3. ASSUME NEW a \in Agents, NEW i \in 1..Len(ready[a])
        PROVE  LET r == ready[a][i] IN
                 Owner[r] = a /\ rec[r] = "linked" /\ result[r] = "ok" /\ reactor[a] /\ refs[r] > 0
    <3>1. ready[a][i] \in Waiters /\ Listed(ready[a], ready[a][i])
      BY DEF IInv, Types, Listed
    <3>2. ready[a][i] \in Records /\ result[ready[a][i]] = "ok"
      BY <3>1, Zenon DEF IInv, Posted
    <3>3. Owner[ready[a][i]] = a /\ rec[ready[a][i]] = "linked" /\ reactor[a]
      BY <3>1, <3>2, Zenon DEF RInv, Readies
    <3>4. refs[ready[a][i]] > 0
      BY <2>1, <3>2, <3>3, WaiterCount
    <3> QED
      BY <3>2, <3>3, <3>4
  <2>4. ASSUME NEW a \in Agents
        PROVE  /\ Distinct(ready[a])
               /\ pc[a] = "broadcast" => Waiting(target[a])
               /\ Listed(bucket, a) => pc[a] \in {"blocked", "woken"}
    BY Zenon DEF IInv, Sync, Interrupts, RInv, Readies
  <2> QED
    BY <2>1, <2>2, <2>3, <2>4 DEF RefsExact
<1> QED
  BY <1>1, Counted, PTL

\* The types of all variables, with the bounds of the three counters: a waiter has at most two
\* references, a mailbox one per record and its owner's, the backing one per waiter.
THEOREM TypesHold == Spec => []TypeOK
<1>1. IInv /\ RInv => TypeOK
  <2> SUFFICES ASSUME IInv, RInv PROVE TypeOK
    BY Zenon
  <2>1. refs \in [Records -> 0..2]
    <3>1. ASSUME NEW r \in Records PROVE refs[r] \in 0..2
      <4>1. refs[r] = WaiterHolds(r)
        BY Zenon DEF RInv, Counts
      <4> QED
        BY <4>1, WaiterCount
    <3> QED
      BY <3>1, Zenon DEF RInv, Sizes
  <2>2. mailRefs \in [Agents -> 0..(Cardinality(Records) + 1)]
    <3>1. ASSUME NEW a \in Agents PROVE mailRefs[a] \in 0..(Cardinality(Records) + 1)
      <4>1. mailRefs[a] = (IF pc[a] = "gone" THEN 0 ELSE 1) + Cardinality(Mail(a))
        BY CountedSets DEF RInv, Counts
      <4>2. Mail(a) \subseteq Records
        BY Zenon DEF Mail
      <4>3. /\ Cardinality(Mail(a)) \in Nat /\ Cardinality(Records) \in Nat
            /\ Cardinality(Mail(a)) <= Cardinality(Records)
        BY <4>2, FiniteAssumption, FS_Subset, FS_CardinalityType
      <4> QED
        BY <4>1, <4>3
    <3> QED
      BY <3>1, Zenon DEF RInv, Sizes
  <2>3. memRefs \in 0..Cardinality(Waiters)
    <3>1. memRefs = Cardinality(Holders) + Cardinality(Backed)
      BY CountedSets, Zenon DEF RInv, Counts
    <3>2. Holders \subseteq Agents /\ Backed \subseteq Records
      BY Zenon DEF Holders, Backed
    <3>3. /\ Cardinality(Holders) \in Nat /\ Cardinality(Agents) \in Nat
          /\ Cardinality(Holders) <= Cardinality(Agents)
      BY <3>2, FiniteAssumption, FS_Subset, FS_CardinalityType, Zenon
    <3>4. /\ Cardinality(Backed) \in Nat /\ Cardinality(Records) \in Nat
          /\ Cardinality(Backed) <= Cardinality(Records)
      BY <3>2, FiniteAssumption, FS_Subset, FS_CardinalityType
    <3>5. Cardinality(Waiters) = Cardinality(Agents) + Cardinality(Records)
      <4>1. Cardinality(Agents \cap Records) = 0
        BY AgentsAssumption, FS_EmptySet, Zenon
      <4>2. Cardinality(Waiters) =
              Cardinality(Agents) + Cardinality(Records) - Cardinality(Agents \cap Records)
        BY FiniteAssumption, FS_Union, Zenon DEF Waiters
      <4> QED
        BY <3>3, <3>4, <4>1, <4>2
    <3> QED
      BY <3>1, <3>3, <3>4, <3>5
  <2>4. /\ \A i \in 1..Len(bucket) : bucket[i] \in Waiters
        /\ \A a \in Agents : \A i \in 1..Len(ready[a]) : ready[a][i] \in Records
        /\ \A a \in Agents : \A i \in 1..Len(posts[a]) : posts[a][i] \in Records
    <3>1. /\ bucket \in Seq(Waiters)
          /\ \A a \in Agents : ready[a] \in Seq(Waiters) /\ posts[a] \in Seq(Waiters)
      BY Zenon DEF IInv, Types
    <3>2. ASSUME NEW a \in Agents, NEW i \in 1..Len(ready[a]) PROVE ready[a][i] \in Records
      <4>1. ready[a][i] \in Waiters /\ Listed(ready[a], ready[a][i])
        BY <3>1 DEF Listed
      <4> QED
        BY <4>1, Zenon DEF IInv, Posted
    <3>3. ASSUME NEW a \in Agents, NEW i \in 1..Len(posts[a]) PROVE posts[a][i] \in Records
      <4>1. posts[a][i] \in Waiters /\ Listed(posts[a], posts[a][i])
        BY <3>1 DEF Listed
      <4> QED
        BY <4>1, Zenon DEF IInv, Posted
    <3> QED
      BY <3>1, <3>2, <3>3
  <2> QED
    BY <2>1, <2>2, <2>3, <2>4, Zenon DEF TypeOK, IInv, Types, PCs, RInv, Sizes
<1> QED
  BY <1>1, Counted, PTL

=============================================================================
