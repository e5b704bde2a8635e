--------------------------- MODULE JobAddOns_proofs ---------------------------
(***************************************************************************)
(* For every job, every number of synchronizations under way and every     *)
(* budget of failures: the framework never runs without its add-ons, but   *)
(* for those that a deletion decided earlier took away.                    *)
(***************************************************************************)
EXTENDS JobAddOns, TLAPS

\* Everything starts as it is declared to.
LEMMA TypeInit == ASSUME Init PROVE TypeOK
  BY AddOnsAssumption
  DEF Init, TypeOK, NoFramework, Ready, NoRound, Absent, NoOwner, Running, AddOns, Secrets, Collected

\* A client is taken from one of its states to another.
LEMMA ClientMoves ==
  ASSUME TypeOK, NEW c \in Clients,
         \/ End(c)
         \/ Begin(c)
         \/ client' = [client EXCEPT ![c] = [pc |-> "addon", next |-> 1]]
         \/ /\ client[c].pc = "addon" /\ client[c].next <= Len(given)
            /\ client' = [client EXCEPT ![c].next = @ + 1]
  PROVE  client' \in [Clients -> {Ready, [Ready EXCEPT !.pc = "patch"]}
                                   \union [pc : {"addon"}, next : 1..Len(given) + 1]]
  <1> DEFINE S == {Ready, [Ready EXCEPT !.pc = "patch"]} \union [pc : {"addon"}, next : 1..Len(given) + 1]
  <1>1. client \in [Clients -> S] /\ Len(given) \in Nat
    BY DEF TypeOK
  <1>2. CASE End(c)
    BY <1>1, <1>2 DEF End
  <1>3. CASE Begin(c)
    BY <1>1, <1>3 DEF Begin, Ready
  <1>4. CASE client' = [client EXCEPT ![c] = [pc |-> "addon", next |-> 1]]
    BY <1>1, <1>4
  <1>5. CASE /\ client[c].pc = "addon" /\ client[c].next <= Len(given)
             /\ client' = [client EXCEPT ![c].next = @ + 1]
    <2>1. client[c] \in [pc : {"addon"}, next : 1..Len(given) + 1]
      BY <1>1, <1>5 DEF Ready
    <2>2. [client[c] EXCEPT !.next = @ + 1] \in [pc : {"addon"}, next : 1..Len(given) + 1]
      BY <2>1, <1>1, <1>5
    <2> QED
      BY <1>1, <1>5, <2>2
  <1> QED
    BY <1>2, <1>3, <1>4, <1>5

\* The member of the sequence that a client is to create is an add-on of the job.
LEMMA NextIsGiven ==
  ASSUME TypeOK, NEW c \in Clients, client[c].pc = "addon", client[c].next <= Len(given)
  PROVE  client[c].next \in DOMAIN given /\ given[client[c].next] \in AddOns
  <1>1. client[c].next \in 1..Len(given)
    BY DEF TypeOK, Ready
  <1> QED
    BY <1>1 DEF TypeOK

\* A deletion leaves the other add-ons alone.
LEMMA DeleteTyped ==
  ASSUME TypeOK, NEW a \in AddOns, NEW uid, Delete(a, uid)
  PROVE  /\ addon' \in [AddOns -> {Absent} \union 0..uids]
         /\ \A b \in AddOns : addon'[b] > NoOwner => b \in Given \intersect Secrets
         /\ raced' \subseteq AddOns
  <1>1. addon' = [addon EXCEPT ![a] = Absent] /\ addon \in [AddOns -> {Absent} \union 0..uids]
    BY DEF Delete, TypeOK
  <1>2. raced' \subseteq AddOns
    BY DEF Delete, TypeOK
  <1>3. \A b \in AddOns : addon'[b] = Absent \/ addon'[b] = addon[b]
    BY <1>1
  <1> QED
    BY <1>1, <1>2, <1>3 DEF TypeOK, Absent, NoOwner

\* A round that goes on keeps what it found of the frameworks.
LEMMA FoundTyped ==
  ASSUME TypeOK, NEW pc \in {"secrets", "delete"}, NEW names \in SUBSET Collected, Found(pc, names)
  PROVE  watchdog' \in [pc : {"idle", "priority", "secrets", "delete"}, exists : BOOLEAN,
                        since : 0..uids, todo : SUBSET Collected]
  BY DEF Found, TypeOK

\* The type invariant is inductive by itself.
LEMMA TypeNext == ASSUME TypeOK, [Next]_vars PROVE TypeOK'
  <1> USE DEF Absent, NoOwner
  <1>0. given' = given
    BY DEF Next, vars, Submit, ChangeRequest, Synchronize, PatchFramework, CreateAddOn, CreateFramework,
           RefuseFramework, Restart, PollUnsynced, DeleteFramework, Observe, ChangeOwner, Watchdog,
           ListFrameworks, ListPriorityClasses, ListSecrets, RemoveOrphan, EndRound, Complete,
           DeletedByOthers, KubernetesCollects
  <1>1. ASSUME NEW c \in Clients, Submit(c) PROVE TypeOK'
    BY <1>1, ClientMoves DEF Submit, TypeOK, Given, Running
  <1>2. ASSUME NEW c \in Clients, ChangeRequest(c) PROVE TypeOK'
    BY <1>2, ClientMoves DEF ChangeRequest, TypeOK, Given, Running
  <1>3. CASE PollUnsynced
    BY <1>3, ClientMoves, AddOnsAssumption DEF PollUnsynced, TypeOK, Given, Running
  <1>4. ASSUME NEW c \in Clients, PatchFramework(c) PROVE TypeOK'
    BY <1>4, ClientMoves DEF PatchFramework, Fails, TypeOK, Given, Running
  <1>5. ASSUME NEW c \in Clients, CreateAddOn(c) PROVE TypeOK'
    BY <1>5, ClientMoves, NextIsGiven DEF CreateAddOn, Fails, TypeOK, Given, Running
  <1>6. ASSUME NEW c \in Clients, CreateFramework(c) PROVE TypeOK'
    <2>1. client' \in [Clients -> {Ready, [Ready EXCEPT !.pc = "patch"]}
                                    \union [pc : {"addon"}, next : 1..Len(given) + 1]]
      BY <1>6, ClientMoves DEF CreateFramework, Fails
    <2>2. CASE UNCHANGED <<fw, uids, patches>>
      BY <1>0, <1>6, <2>1, <2>2 DEF CreateFramework, TypeOK, Given, Running
    <2>3. CASE /\ uids' = uids + 1 /\ fw' = [uid |-> uids', done |-> FALSE]
               /\ \/ patches' = patches \union [addon : Owned, uid : {uids'}]
                  \/ UNCHANGED patches
      <3>1. uids' \in Nat /\ uids <= uids' /\ fw' \in [uid : {0, uids'}, done : BOOLEAN] /\ ~fw'.done
        BY <2>3 DEF TypeOK
      <3>2. 0..uids \subseteq 0..uids' /\ 1..uids \subseteq 1..uids' /\ uids' \in 1..uids'
        BY <2>3 DEF TypeOK
      <3>3. Given' = Given
        BY <1>0 DEF Given
      <3>4. patches' \subseteq [addon : Given \intersect Secrets, uid : 1..uids']
        BY <2>3, <3>2 DEF TypeOK, Owned
      <3>5. UNCHANGED <<given, row, addon, watchdog, raced>>
        BY <1>6 DEF CreateFramework
      <3>6. watchdog' \in [pc : {"idle", "priority", "secrets", "delete"}, exists : BOOLEAN,
                           since : 0..uids', todo : SUBSET Collected]
        BY <3>2, <3>5 DEF TypeOK
      <3>7. addon' \in [AddOns -> {Absent} \union 0..uids']
        BY <3>2, <3>5 DEF TypeOK
      <3> QED
        BY <2>1, <3>1, <3>3, <3>4, <3>5, <3>6, <3>7 DEF TypeOK
    <2> QED
      BY <1>6, <2>2, <2>3 DEF CreateFramework
  <1>7. ASSUME NEW c \in Clients, RefuseFramework(c) PROVE TypeOK'
    BY <1>7, ClientMoves DEF RefuseFramework, TypeOK, Given, Running
  <1>8. ASSUME NEW c \in Clients, Restart(c) PROVE TypeOK'
    BY <1>8, ClientMoves DEF Restart, TypeOK, Given, Running
  <1>9. ASSUME NEW p \in patches, ChangeOwner(p) PROVE TypeOK'
    BY <1>9 DEF ChangeOwner, TypeOK, Given, Running, Secrets
  <1>10. CASE DeleteFramework
    BY <1>10 DEF DeleteFramework, NoFramework, TypeOK, Given, Running
  <1>11. CASE Observe
    BY <1>11 DEF Observe, TypeOK, Given, Running
  <1>12. CASE Watchdog
    <2>1. CASE ListFrameworks
      BY <1>12, <2>1 DEF ListFrameworks, Listed, TypeOK, Given, Running
    <2>2. CASE ListPriorityClasses
      <3>1. Present({"priority"}) \in SUBSET Collected /\ {} \in SUBSET Collected
        BY DEF Present, Collected, AddOns
      <3>2. watchdog' \in [pc : {"idle", "priority", "secrets", "delete"}, exists : BOOLEAN,
                           since : 0..uids, todo : SUBSET Collected]
        BY <2>2, <3>1, FoundTyped DEF ListPriorityClasses
      <3> QED
        BY <2>2, <3>2 DEF ListPriorityClasses, TypeOK, Given, Running
    <2>3. CASE ListSecrets
      <3>1. Present(Secrets \intersect Collected) \in SUBSET Collected /\ {} \in SUBSET Collected
        BY DEF Present
      <3>2. watchdog' \in [pc : {"idle", "priority", "secrets", "delete"}, exists : BOOLEAN,
                           since : 0..uids, todo : SUBSET Collected]
        BY <2>3, <3>1, FoundTyped DEF ListSecrets
      <3> QED
        BY <2>3, <3>2 DEF ListSecrets, TypeOK, Given, Running
    <2>4. CASE RemoveOrphan
      <3>1. PICK a \in watchdog.todo :
                /\ watchdog' = [watchdog EXCEPT !.todo = @ \ {a}]
                /\ Delete(a, watchdog.since) \/ UNCHANGED <<addon, raced>>
        BY <2>4 DEF RemoveOrphan
      <3>2. a \in AddOns
        BY DEF TypeOK, Collected
      <3>3. watchdog' \in [pc : {"idle", "priority", "secrets", "delete"}, exists : BOOLEAN,
                           since : 0..uids, todo : SUBSET Collected]
        BY <3>1 DEF TypeOK
      <3>4. /\ addon' \in [AddOns -> {Absent} \union 0..uids]
            /\ \A b \in AddOns : addon'[b] > NoOwner => b \in Given \intersect Secrets
            /\ raced' \subseteq AddOns
        BY <3>1, <3>2, DeleteTyped DEF TypeOK
      <3> QED
        BY <2>4, <3>3, <3>4 DEF RemoveOrphan, TypeOK, Given, Running
    <2>5. CASE EndRound
      BY <1>12, <2>5 DEF EndRound, NoRound, TypeOK, Given, Running
    <2> QED
      BY <1>12, <2>1, <2>2, <2>3, <2>4, <2>5 DEF Watchdog
  <1>13. CASE Complete
    <2>1. fw' \in [uid : {0, uids}, done : BOOLEAN] /\ Running'
      BY <1>13 DEF Complete, TypeOK, Running
    <2>2. UNCHANGED <<given, row, addon, client, patches, watchdog, uids, raced>>
      BY <1>13 DEF Complete
    <2> QED
      BY <2>1, <2>2 DEF TypeOK, Given
  <1>14. CASE DeletedByOthers
    BY <1>14 DEF DeletedByOthers, NoFramework, TypeOK, Given, Running
  <1>15. ASSUME NEW a \in AddOns, KubernetesCollects(a) PROVE TypeOK'
    <2>1. /\ addon' \in [AddOns -> {Absent} \union 0..uids]
          /\ \A b \in AddOns : addon'[b] > NoOwner => b \in Given \intersect Secrets
          /\ raced' \subseteq AddOns
      BY <1>15, DeleteTyped DEF KubernetesCollects
    <2> QED
      BY <1>15, <2>1 DEF KubernetesCollects, TypeOK, Given, Running
  <1>16. CASE UNCHANGED vars
    BY <1>16 DEF vars, TypeOK, Given, Running
  <1> QED
    BY <1>1, <1>2, <1>3, <1>4, <1>5, <1>6, <1>7, <1>8, <1>9, <1>10, <1>11, <1>12, <1>13, <1>14, <1>15,
       <1>16 DEF Next, Synchronize

\* Every variable holds what it is declared to, the owner of an add-on among them.
THEOREM TypeCorrect == Spec => []TypeOK
  <1>1. Init => TypeOK
    BY TypeInit
  <1>2. TypeOK /\ [Next]_vars => TypeOK'
    BY TypeNext
  <1> QED
    BY <1>1, <1>2, PTL DEF Spec

-----------------------------------------------------------------------------
\* A deletion decided for an older framework, or with none and no client creating add-ons,
\* takes nothing away unnoticed.
LEMMA DeletionNoticed ==
  ASSUME TypeOK, NEW a \in AddOns, NEW uid \in Int, Delete(a, uid), Running => fw.uid > uid,
         UNCHANGED <<given, fw, client>>, AddOnsComplete, CreatedInOrder
  PROVE  AddOnsComplete' /\ CreatedInOrder'
  <1>1. \A b \in AddOns : b # a => addon'[b] = addon[b]
    BY DEF Delete, TypeOK
  <1>2. raced \subseteq raced'
    BY DEF Delete
  <1>3. Running \/ Creating => a \in raced'
    BY DEF Delete
  <1>4. \A b \in AddOns : (Running \/ Creating) /\ Kept(b) => Kept(b)'
    BY <1>1, <1>2, <1>3 DEF Kept
  <1>5. Given \subseteq AddOns /\ \A i \in DOMAIN given : given[i] \in AddOns
    BY DEF Given, TypeOK
  <1>6. AddOnsComplete'
    BY <1>4, <1>5 DEF AddOnsComplete, Running, Given
  <1>7. ASSUME NEW c \in Clients, client'[c].pc = "addon", NEW i \in 1..client'[c].next - 1
        PROVE  Kept(given[i])'
    <2>1. Creating /\ Kept(given[i])
      BY <1>7 DEF Creating, CreatedInOrder
    <2>2. i \in DOMAIN given
      BY <1>7 DEF TypeOK, Ready
    <2> QED
      BY <1>4, <1>5, <2>1, <2>2 DEF Kept
  <1> QED
    BY <1>6, <1>7 DEF CreatedInOrder

\* What is left alone stays kept.
LEMMA KeptOn ==
  ASSUME TypeOK, UNCHANGED <<given, addon, raced>>, CreatedInOrder, NEW c \in Clients,
         \/ End(c)
         \/ Begin(c)
         \/ client' = [client EXCEPT ![c] = [pc |-> "addon", next |-> 1]]
         \/ UNCHANGED client
  PROVE  CreatedInOrder'
  <1>1. \A b : Kept(b)' <=> Kept(b)
    BY DEF Kept
  <1>2. ASSUME NEW d \in Clients, client'[d].pc = "addon", NEW i \in 1..client'[d].next - 1
        PROVE  client[d].pc = "addon" /\ i \in 1..client[d].next - 1
    BY <1>2 DEF End, Begin, Ready, TypeOK
  <1> QED
    BY <1>1, <1>2 DEF CreatedInOrder, Kept

\* No action breaks the invariant.
LEMMA InvNext == ASSUME TypeOK, TypeOK', IInv, [Next]_vars PROVE IInv'
  <1> USE DEF IInv
  <1>1. ASSUME UNCHANGED <<given, fw, addon, watchdog, raced>>, NEW c \in Clients,
               \/ End(c)
               \/ Begin(c)
               \/ client' = [client EXCEPT ![c] = [pc |-> "addon", next |-> 1]]
               \/ UNCHANGED client
        PROVE  IInv'
    BY <1>1, KeptOn DEF AddOnsComplete, RoundIsOlder, Running, Given, Kept
  <1>2. ASSUME NEW c \in Clients, Submit(c) \/ ChangeRequest(c) \/ PatchFramework(c) \/ RefuseFramework(c) \/ Restart(c)
        PROVE  IInv'
    BY <1>1, <1>2 DEF Submit, ChangeRequest, PatchFramework, RefuseFramework, Restart, Fails
  <1>3. ASSUME NEW c \in Clients, CreateAddOn(c) PROVE IInv'
    <2> DEFINE a == given[client[c].next]
    <2>0. UNCHANGED <<given, fw, watchdog>> /\ a \in AddOns /\ client[c].next \in DOMAIN given
      BY <1>3, NextIsGiven DEF CreateAddOn
    <2>1. CASE Fails(c) /\ UNCHANGED <<addon, raced>>
      BY <1>1, <2>0, <2>1 DEF Fails
    <2>2. CASE /\ addon' = [addon EXCEPT ![a] = IF @ = Absent THEN NoOwner ELSE @]
               /\ raced' = raced \ {a}
               /\ client' = [client EXCEPT ![c].next = @ + 1] \/ Fails(c)
      <3>1. addon'[a] # Absent
        BY <2>0, <2>2 DEF TypeOK, Absent, NoOwner
      <3>2. \A b \in AddOns : Kept(b) => Kept(b)'
        BY <2>2, <3>1 DEF TypeOK, Kept
      <3>3. Given' = Given /\ Given \subseteq AddOns /\ \A i \in DOMAIN given : given[i] \in AddOns
        BY <2>0 DEF Given, TypeOK
      <3>4. AddOnsComplete'
        BY <2>0, <3>2, <3>3 DEF AddOnsComplete, Running
      <3>5. ASSUME NEW d \in Clients, client'[d].pc = "addon", NEW i \in 1..client'[d].next - 1
            PROVE  Kept(given[i])'
        <4>1. i \in DOMAIN given
          BY <3>5, <2>0 DEF TypeOK, Ready
        <4>2. (d = c /\ i = client[c].next) \/ (client[d].pc = "addon" /\ i \in 1..client[d].next - 1)
          BY <1>3, <2>2, <3>5 DEF CreateAddOn, Fails, End, Ready, TypeOK
        <4>3. CASE d = c /\ i = client[c].next
          BY <2>0, <3>1, <4>3 DEF Kept
        <4>4. CASE client[d].pc = "addon" /\ i \in 1..client[d].next - 1
          BY <2>0, <3>2, <3>3, <4>1, <4>4 DEF CreatedInOrder, Kept
        <4> QED
          BY <4>2, <4>3, <4>4
      <3> QED
        BY <2>0, <3>4, <3>5 DEF CreatedInOrder, RoundIsOlder, Running
    <2> QED
      BY <1>3, <2>1, <2>2 DEF CreateAddOn
  <1>4. ASSUME NEW c \in Clients, CreateFramework(c) PROVE IInv'
    <2>0. UNCHANGED <<given, addon, watchdog, raced>> /\ End(c)
      BY <1>4 DEF CreateFramework, Fails
    <2>1. CASE UNCHANGED fw
      BY <1>1, <2>0, <2>1
    <2>2. CASE uids' = uids + 1 /\ fw' = [uid |-> uids', done |-> FALSE]
      <3>1. \A i \in DOMAIN given : Kept(given[i])
        <4>1. \A i \in 1..client[c].next - 1 : Kept(given[i])
          BY <1>4 DEF CreateFramework, CreatedInOrder
        <4>2. DOMAIN given = 1..Len(given) /\ Len(given) \in Nat
          BY DEF TypeOK
        <4>3. client[c].next \in Nat /\ client[c].next > Len(given)
          BY <1>4 DEF CreateFramework, TypeOK, Ready
        <4> QED
          BY <4>1, <4>2, <4>3
      <3>2. AddOnsComplete'
        BY <2>0, <3>1 DEF AddOnsComplete, Given, Kept
      <3>3. CreatedInOrder'
        BY <2>0, KeptOn
      <3>4. RoundIsOlder'
        BY <2>0, <2>2 DEF RoundIsOlder, TypeOK
      <3> QED
        BY <3>2, <3>3, <3>4
    <2> QED
      BY <1>4, <2>1, <2>2 DEF CreateFramework
  <1>5. CASE PollUnsynced
    BY <1>1, <1>5, AddOnsAssumption DEF PollUnsynced
  <1>6. ASSUME NEW p \in patches, ChangeOwner(p) PROVE IInv'
    <2>1. \A b \in AddOns : Kept(b) => Kept(b)'
      BY <1>6 DEF ChangeOwner, Kept, TypeOK, Absent
    <2>2. UNCHANGED <<given, fw, client, watchdog>> /\ Given \subseteq AddOns
      BY <1>6 DEF ChangeOwner, Given, TypeOK
    <2>3. AddOnsComplete'
      BY <2>1, <2>2 DEF AddOnsComplete, Running, Given
    <2>4. ASSUME NEW d \in Clients, client'[d].pc = "addon", NEW i \in 1..client'[d].next - 1
          PROVE  Kept(given[i])'
      <3>1. Kept(given[i]) /\ i \in DOMAIN given
        BY <2>2, <2>4 DEF CreatedInOrder, TypeOK, Ready
      <3> QED
        BY <2>1, <2>2, <3>1 DEF Given, Kept
    <2> QED
      BY <2>2, <2>3, <2>4 DEF CreatedInOrder, RoundIsOlder, Running
  <1>7. CASE DeleteFramework \/ DeletedByOthers
    <2>1. UNCHANGED <<given, addon, client, watchdog, raced>> /\ ~Running'
      BY <1>7 DEF DeleteFramework, DeletedByOthers, NoFramework, Running
    <2>2. CreatedInOrder'
      BY <2>1, KeptOn, AddOnsAssumption
    <2> QED
      BY <2>1, <2>2 DEF AddOnsComplete, RoundIsOlder
  <1>8. CASE Observe
    BY <1>1, <1>8, AddOnsAssumption DEF Observe
  <1>9. CASE Complete
    <2>1. UNCHANGED <<given, addon, client, watchdog, raced>> /\ fw'.uid = fw.uid
      BY <1>9 DEF Complete, TypeOK
    <2>2. CreatedInOrder'
      BY <2>1, KeptOn, AddOnsAssumption
    <2> QED
      BY <2>1, <2>2 DEF AddOnsComplete, RoundIsOlder, Running, Given, Kept
  <1>10. CASE Watchdog
    <2>1. CASE RemoveOrphan
      <3>1. PICK a \in watchdog.todo :
                /\ watchdog' = [watchdog EXCEPT !.todo = @ \ {a}]
                /\ Delete(a, watchdog.since) \/ UNCHANGED <<addon, raced>>
        BY <2>1 DEF RemoveOrphan
      <3>2. a \in AddOns /\ watchdog.since \in Int
        BY DEF TypeOK, Collected
      <3>3. UNCHANGED <<given, fw, client>>
        BY <2>1 DEF RemoveOrphan
      <3>4. Running => fw.uid > watchdog.since
        BY <2>1 DEF RemoveOrphan, RoundIsOlder
      <3>5. RoundIsOlder'
        BY <3>1, <3>3, <3>4 DEF RoundIsOlder, Running, TypeOK
      <3>6. CASE Delete(a, watchdog.since)
        BY <3>2, <3>3, <3>4, <3>5, <3>6, DeletionNoticed
      <3>7. CASE UNCHANGED <<addon, raced>>
        <4>1. CreatedInOrder'
          BY <3>3, <3>7, KeptOn, AddOnsAssumption
        <4> QED
          BY <3>3, <3>5, <3>7, <4>1 DEF AddOnsComplete, Running, Given, Kept
      <3> QED
        BY <3>1, <3>6, <3>7
    <2>2. CASE ListFrameworks \/ ListPriorityClasses \/ ListSecrets \/ EndRound
      <3>1. UNCHANGED <<given, fw, addon, client, raced>>
        BY <2>2 DEF ListFrameworks, ListPriorityClasses, ListSecrets, EndRound
      <3>2. CreatedInOrder'
        BY <3>1, KeptOn, AddOnsAssumption
      <3>3. CASE ListFrameworks \/ EndRound
        <4>1. ASSUME ListFrameworks, Running PROVE watchdog'.exists
          BY <4>1, ZenonT(30) DEF ListFrameworks, Listed
        <4>2. ASSUME EndRound PROVE watchdog'.pc = "idle"
          BY <4>2 DEF EndRound, NoRound
        <4>3. Running => watchdog'.exists \/ watchdog'.pc = "idle"
          BY <3>3, <4>1, <4>2
        <4> QED
          BY <3>1, <3>2, <4>3 DEF AddOnsComplete, RoundIsOlder, Running, Given, Kept
      <3>4. CASE ListPriorityClasses \/ ListSecrets
        <4>1. watchdog.pc # "idle" /\ watchdog'.exists = watchdog.exists /\ watchdog'.since = watchdog.since
          BY <3>4 DEF ListPriorityClasses, ListSecrets, Found, TypeOK
        <4> QED
          BY <3>1, <3>2, <4>1 DEF AddOnsComplete, RoundIsOlder, Running, Given, Kept
      <3> QED
        BY <2>2, <3>3, <3>4
    <2> QED
      BY <1>10, <2>1, <2>2 DEF Watchdog
  <1>11. ASSUME NEW a \in AddOns, KubernetesCollects(a) PROVE IInv'
    <2>1. UNCHANGED <<given, fw, client, watchdog>> /\ Delete(a, addon[a])
      BY <1>11 DEF KubernetesCollects
    <2>2. addon[a] \in Int /\ (Running => fw.uid > addon[a])
      BY <1>11 DEF KubernetesCollects, TypeOK, Running, Absent, NoOwner
    <2>3. AddOnsComplete' /\ CreatedInOrder'
      BY <2>1, <2>2, DeletionNoticed
    <2> QED
      BY <2>1, <2>3 DEF RoundIsOlder, Running
  <1>12. CASE UNCHANGED vars
    BY <1>1, <1>12, AddOnsAssumption DEF vars
  <1> QED
    BY <1>2, <1>3, <1>4, <1>5, <1>6, <1>7, <1>8, <1>9, <1>10, <1>11, <1>12 DEF Next, Synchronize

\* A framework is never there without an add-on that no earlier decision took away.
THEOREM FrameworkHasItsAddOns == Spec => []AddOnsComplete
  <1>1. Init => IInv
    BY AddOnsAssumption
    DEF Init, IInv, AddOnsComplete, CreatedInOrder, RoundIsOlder, Running, NoFramework, NoRound, Ready
  <1>2. TypeOK /\ TypeOK' /\ IInv /\ [Next]_vars => IInv'
    BY InvNext
  <1>3. IInv => AddOnsComplete
    BY DEF IInv
  <1> QED
    BY <1>1, <1>2, <1>3, TypeCorrect, PTL DEF Spec
=============================================================================
