----------------------------- MODULE RecordsProofs -----------------------------
(***************************************************************************)
(* Proofs about the record-keeping components: devices of students, the    *)
(* establishments with their numbers and logos, temporary passwords, the   *)
(* contact form, and the forms of the dashboard, for any number of rows,   *)
(* handlers, visitors, submissions and drafts; and about all of them side  *)
(* by side (MCRecords).                                                    *)
(***************************************************************************)
EXTENDS MCRecords, StudentServicesProofs, FiniteSetTheorems, TLAPS

-----------------------------------------------------------------------------
(* Devices of students.                                                    *)

\* What keeps the limit while registrations are under way: the student of a
\* registration that has counted is below it, and has no other one under way.
\* Active devices are finitely many, so that they can be counted.
LimitInv ==
    /\ DevicesTypeOK
    /\ \A s \in Students : IsFiniteSet(Active(s))
    /\ \A g, h \in Handlers :
          /\ phone[g].pc = "upsert" /\ phone[h].pc = "upsert"
          /\ phone[g].student = phone[h].student
          /\ phone[g].student \notin excused
          => g = h
    /\ \A h \in Handlers, s \in Students \ excused :
          phone[h].pc = "upsert" /\ phone[h].student = s => Cardinality(Active(s)) < MaxDevices
    /\ DeviceLimit

\* A set inside a finite one is finite and no larger.
LEMMA FewerMembers ==
    ASSUME NEW S, NEW T, IsFiniteSet(S), T \subseteq S
    PROVE  IsFiniteSet(T) /\ Cardinality(T) <= Cardinality(S)
           /\ Cardinality(T) \in Nat /\ Cardinality(S) \in Nat
  BY FS_Subset, FS_CardinalityType

\* One member more raises the count by one at most.
LEMMA OneMemberMore ==
    ASSUME NEW S, NEW T, NEW f, IsFiniteSet(S), T \subseteq S \union {f}
    PROVE  IsFiniteSet(T) /\ Cardinality(T) <= Cardinality(S) + 1
           /\ Cardinality(T) \in Nat /\ Cardinality(S) \in Nat
<1>1. /\ IsFiniteSet(S \union {f})
      /\ Cardinality(S \union {f}) <= Cardinality(S) + 1
      /\ Cardinality(S) \in Nat
  <2>1. IsFiniteSet(S \union {f})
           /\ Cardinality(S \union {f}) =
                IF f \in S THEN Cardinality(S) ELSE Cardinality(S) + 1
    BY FS_AddElement
  <2> QED  BY <2>1, FS_CardinalityType
<1>2. /\ IsFiniteSet(T) /\ Cardinality(T) <= Cardinality(S \union {f})
      /\ Cardinality(T) \in Nat /\ Cardinality(S \union {f}) \in Nat
  BY <1>1, FewerMembers
<1> QED  BY <1>1, <1>2

LEMMA LimitStarts == DevicesInit => LimitInv
<1> SUFFICES ASSUME DevicesInit PROVE LimitInv
  OBVIOUS
<1>1. DevicesTypeOK
  BY DEF DevicesInit, DevicesTypeOK, NoDevice, Rest
<1>2. \A s \in Students : Active(s) = {}
  BY DEF DevicesInit, Active, NoDevice
<1>3. IsFiniteSet({}) /\ Cardinality({}) = 0
  BY FS_EmptySet
<1>4. DeviceLimit
  BY <1>2, <1>3, DevicesAssumption DEF DeviceLimit
<1> QED
  BY <1>1, <1>2, <1>3, <1>4 DEF LimitInv, DevicesInit, Rest

\* When no student gains an active device and no registration is added, the
\* limit keeps.
LEMMA LimitKeeps ==
    ASSUME LimitInv, DevicesTypeOK',
           \A s \in Students : Active(s)' \subseteq Active(s),
           excused' = excused,
           \A h \in Handlers : phone'[h].pc = "upsert" => phone'[h] = phone[h]
    PROVE  LimitInv'
<1>1. \A s \in Students : /\ IsFiniteSet(Active(s)')
                          /\ Cardinality(Active(s)') <= Cardinality(Active(s))
                          /\ Cardinality(Active(s)') \in Nat
                          /\ Cardinality(Active(s)) \in Nat
  BY FewerMembers DEF LimitInv
<1>2. DeviceLimit'
  BY <1>1, DevicesAssumption DEF LimitInv, DeviceLimit
<1>3. ASSUME NEW h \in Handlers, NEW s \in Students \ excused',
             phone'[h].pc = "upsert", phone'[h].student = s
      PROVE  Cardinality(Active(s)') < MaxDevices
  <2>1. Cardinality(Active(s)) < MaxDevices
    BY <1>3 DEF LimitInv
  <2> QED  BY <2>1, <1>1, DevicesAssumption
<1>4. \A g, h \in Handlers :
          /\ phone'[g].pc = "upsert" /\ phone'[h].pc = "upsert"
          /\ phone'[g].student = phone'[h].student
          /\ phone'[g].student \notin excused'
          => g = h
  BY DEF LimitInv
<1> QED  BY <1>1, <1>2, <1>3, <1>4 DEF LimitInv

LEMMA LimitStep == LimitInv /\ [DevicesNext]_deviceVars => LimitInv'
<1> SUFFICES ASSUME LimitInv, [DevicesNext]_deviceVars PROVE LimitInv'
  OBVIOUS
<1> USE DEF Phone, Rest
<1>1. ASSUME NEW h \in Handlers, NEW s \in Students, NEW f \in Fingerprints,
             RegisterCounts(h, s, f)
      PROVE  LimitInv'
  <2>1. /\ phone' = [phone EXCEPT ![h] = [pc |-> "upsert", student |-> s, fingerprint |-> f]]
        /\ device' = device /\ enrolled' = enrolled
        /\ excused' = IF Registering(s) THEN excused \union {s} ELSE excused
        /\ BelowLimit(s) /\ phone[h] = Rest
    BY <1>1 DEF RegisterCounts, Call
  <2>2. DevicesTypeOK'
    BY <2>1 DEF LimitInv, DevicesTypeOK
  <2>3. \A t \in Students : Active(t)' = Active(t)
    BY <2>1 DEF Active
  <2>4. DeviceLimit'
    BY <2>1, <2>3 DEF LimitInv, DeviceLimit
  <2>5. ASSUME NEW g \in Handlers, NEW t \in Students \ excused',
               phone'[g].pc = "upsert", phone'[g].student = t
        PROVE  Cardinality(Active(t)') < MaxDevices
    <3>1. CASE g = h
      <4>1. t = s
        BY <3>1, <2>1, <2>5 DEF LimitInv, DevicesTypeOK
      <4> QED  BY <4>1, <2>1, <2>3 DEF BelowLimit
    <3>2. CASE g # h
      <4>1. phone'[g] = phone[g] /\ t \notin excused
        BY <3>2, <2>1, <2>5 DEF LimitInv, DevicesTypeOK
      <4>2. Cardinality(Active(t)) < MaxDevices
        BY <4>1, <2>5 DEF LimitInv
      <4> QED  BY <4>2, <2>3
    <3> QED  BY <3>1, <3>2
  <2>6. \A g, k \in Handlers :
            /\ phone'[g].pc = "upsert" /\ phone'[k].pc = "upsert"
            /\ phone'[g].student = phone'[k].student
            /\ phone'[g].student \notin excused'
            => g = k
    BY <2>1 DEF LimitInv, DevicesTypeOK, Registering
  <2> QED  BY <2>2, <2>3, <2>4, <2>5, <2>6 DEF LimitInv
<1>2. ASSUME NEW h \in Handlers, RegisterUpserts(h)
      PROVE  LimitInv'
  <2>1. PICK s \in Students, f \in Fingerprints :
            phone[h].pc = "upsert" /\ phone[h].student = s /\ phone[h].fingerprint = f
    BY <1>2 DEF RegisterUpserts, LimitInv, DevicesTypeOK
  <2>2. /\ device[f] = NoDevice => s \in enrolled
        /\ device' = [device EXCEPT ![f] = Upserted(s, f)]
        /\ excused' = excused \union ({device'[f].owner} \ {s})
        /\ phone' = [phone EXCEPT ![h] = Rest]
        /\ enrolled' = enrolled
    BY <1>2, <2>1 DEF RegisterUpserts, HangUp
  <2>3. /\ device'[f] \in Device /\ device'[f].owner \in enrolled
        /\ device[f] # NoDevice => device'[f].owner = device[f].owner
    BY <2>2, NoneAssumption DEF Upserted, LimitInv, DevicesTypeOK, Device, NoDevice
  <2>4. PICK o \in Students : o = device'[f].owner
    BY <2>3 DEF Device
  <2>5. DevicesTypeOK'
    BY <2>2, <2>3 DEF LimitInv, DevicesTypeOK, Device
  <2>6. /\ \A t \in Students : t # o => Active(t)' \subseteq Active(t)
        /\ Active(o)' \subseteq Active(o) \union {f}
    BY <2>2, <2>3, <2>4 DEF Active, LimitInv, DevicesTypeOK
  <2>7. /\ IsFiniteSet(Active(o)') /\ Cardinality(Active(o)') <= Cardinality(Active(o)) + 1
        /\ Cardinality(Active(o)') \in Nat /\ Cardinality(Active(o)) \in Nat
    BY <2>6, OneMemberMore DEF LimitInv
  <2>8. \A t \in Students : t # o =>
            /\ IsFiniteSet(Active(t)') /\ Cardinality(Active(t)') <= Cardinality(Active(t))
            /\ Cardinality(Active(t)') \in Nat /\ Cardinality(Active(t)) \in Nat
    BY <2>6, FewerMembers DEF LimitInv
  <2>9. \A g \in Handlers : phone'[g].pc = "upsert" => g # h /\ phone'[g] = phone[g]
    BY <2>2 DEF LimitInv, DevicesTypeOK
  <2>10. s \notin excused => Cardinality(Active(s)) < MaxDevices
    BY <2>1 DEF LimitInv
  <2>11. \A t \in Students \ excused' : t \notin excused /\ (t = o => t = s)
    BY <2>2, <2>4
  <2>12. ASSUME NEW t \in Students \ excused'
         PROVE  Cardinality(Active(t)') <= MaxDevices
    <3>1. CASE t = o
      <4>1. t = s /\ Cardinality(Active(s)) < MaxDevices
        BY <3>1, <2>10, <2>11
      <4> QED  BY <4>1, <3>1, <2>7, DevicesAssumption
    <3>2. CASE t # o
      <4>1. Cardinality(Active(t)) <= MaxDevices
        BY <2>11 DEF LimitInv, DeviceLimit
      <4> QED  BY <4>1, <3>2, <2>8, DevicesAssumption
    <3> QED  BY <3>1, <3>2
  <2>13. ASSUME NEW g \in Handlers, NEW t \in Students \ excused',
                phone'[g].pc = "upsert", phone'[g].student = t
         PROVE  Cardinality(Active(t)') < MaxDevices
    <3>1. g # h /\ phone[g].pc = "upsert" /\ phone[g].student = t /\ t \notin excused
      BY <2>9, <2>11, <2>13
    <3>2. t # s
      BY <2>1, <3>1 DEF LimitInv
    <3>3. Cardinality(Active(t)) < MaxDevices
      BY <3>1 DEF LimitInv
    <3>4. t # o
      BY <3>2, <2>11
    <3> QED  BY <3>3, <3>4, <2>8, DevicesAssumption
  <2>14. \A g, k \in Handlers :
            /\ phone'[g].pc = "upsert" /\ phone'[k].pc = "upsert"
            /\ phone'[g].student = phone'[k].student
            /\ phone'[g].student \notin excused'
            => g = k
    BY <2>2, <2>9 DEF LimitInv
  <2>15. \A t \in Students : IsFiniteSet(Active(t)')
    BY <2>7, <2>8
  <2>16. DeviceLimit'
    BY <2>12 DEF DeviceLimit
  <2> QED  BY <2>5, <2>13, <2>14, <2>15, <2>16 DEF LimitInv
<1>3. ASSUME NEW h \in Handlers, NEW s \in Students, NEW f \in Fingerprints,
             RemoveReads(h, s, f)
      PROVE  LimitInv'
  <2>1. DevicesTypeOK'
    BY <1>3 DEF RemoveReads, Call, LimitInv, DevicesTypeOK
  <2>2. \A t \in Students : Active(t)' \subseteq Active(t)
    BY <1>3 DEF RemoveReads, Active
  <2> QED
    BY <1>3, <2>1, <2>2, LimitKeeps DEF RemoveReads, Call, LimitInv, DevicesTypeOK
<1>4. ASSUME NEW h \in Handlers, RemoveWrites(h)
      PROVE  LimitInv'
  <2>0. phone[h].fingerprint \in Fingerprints /\ device[phone[h].fingerprint] \in Device
    BY <1>4, NoneAssumption DEF RemoveWrites, LimitInv, DevicesTypeOK, NoDevice
  <2>1. DevicesTypeOK'
    BY <1>4, <2>0 DEF RemoveWrites, HangUp, LimitInv, DevicesTypeOK, Device
  <2>2. \A t \in Students : Active(t)' \subseteq Active(t)
    BY <1>4, <2>0 DEF RemoveWrites, Active, LimitInv, DevicesTypeOK, Device
  <2> QED
    BY <1>4, <2>1, <2>2, LimitKeeps DEF RemoveWrites, HangUp, LimitInv, DevicesTypeOK
<1>5. ASSUME NEW h \in Handlers, Break(h)
      PROVE  LimitInv'
  <2>1. DevicesTypeOK'
    BY <1>5 DEF Break, HangUp, LimitInv, DevicesTypeOK
  <2>2. \A t \in Students : Active(t)' \subseteq Active(t)
    BY <1>5 DEF Break, Active
  <2> QED
    BY <1>5, <2>1, <2>2, LimitKeeps DEF Break, HangUp, LimitInv, DevicesTypeOK
<1>6. ASSUME NEW s \in Students, EraseOwner(s)
      PROVE  LimitInv'
  <2>1. DevicesTypeOK'
    BY <1>6 DEF EraseOwner, LimitInv, DevicesTypeOK, NoDevice
  <2>2. \A t \in Students : Active(t)' \subseteq Active(t)
    BY <1>6 DEF EraseOwner, Active, NoDevice
  <2> QED
    BY <1>6, <2>1, <2>2, LimitKeeps DEF EraseOwner, LimitInv, DevicesTypeOK
<1>7. CASE UNCHANGED deviceVars
  <2>1. DevicesTypeOK' /\ \A t \in Students : Active(t)' \subseteq Active(t)
    BY <1>7 DEF deviceVars, LimitInv, DevicesTypeOK, Active
  <2> QED  BY <1>7, <2>1, LimitKeeps DEF deviceVars
<1> QED
  BY <1>1, <1>2, <1>3, <1>4, <1>5, <1>6, <1>7 DEF DevicesNext

\* Two registrations at once may exceed the limit, and so may a device that
\* somebody else brings back; nothing else does: a student none of whose
\* registrations overlapped has MaxDevices active devices at most, for any
\* number of devices, students and requests.
THEOREM DevicesWithinLimit == DevicesSpec => []DeviceLimit
<1>1. LimitInv => DeviceLimit
  BY DEF LimitInv
<1> QED  BY <1>1, LimitStarts, LimitStep, PTL DEF DevicesSpec

-----------------------------------------------------------------------------
(* Establishments.                                                         *)

Creates(h) == task[h].pc \in {"count", "create"}

\* A creation's row is not there yet, and nobody else is creating it.
CreationsApart ==
    /\ \A h \in Handlers : Creates(h) => site[task[h].site] = NoSite
    /\ \A g, h \in Handlers :
          Creates(g) /\ Creates(h) /\ task[g].site = task[h].site => g = h

\* An upload about to record the logo has put the object, and the objects of
\* published logos stay.
LogosKept ==
    /\ \A h \in Handlers : task[h].pc = "record" => task[h].site \in objects
    /\ published \subseteq objects
    /\ LogoIsServed

\* A number is at most the count of the rows, one more while its row is on the
\* way; two on the way at once, or one that a row already has, are rivals.
NumbersBounded ==
    /\ IsFiniteSet(Sites)
    /\ \A e \in Sites : site[e].number <= Cardinality(Sites)
    /\ \A h \in Handlers : task[h].pc = "create" => task[h].number <= Cardinality(Sites) + 1
    /\ \A g, h \in Drawing : g # h => task[g].site \in rivals
    /\ \A h \in Drawing, e \in Sites :
          task[h].number = site[e].number => {task[h].site, e} \subseteq rivals
    /\ SiteNumbersDiffer

SitesInv == SitesTypeOK /\ CreationsApart /\ LogosKept /\ NumbersBounded

LEMMA SitesStart == SitesInit => SitesInv
<1> SUFFICES ASSUME SitesInit PROVE SitesInv
  OBVIOUS
<1>1. Sites = {} /\ Drawing = {}
  BY DEF SitesInit, Sites, Opened, Drawing, NoTask
<1>2. IsFiniteSet({})
  BY FS_EmptySet
<1>3. SitesTypeOK
  BY DEF SitesInit, SitesTypeOK
<1>4. CreationsApart /\ LogosKept
  BY <1>1 DEF SitesInit, CreationsApart, Creates, LogosKept, LogoIsServed, NoTask
<1>5. NumbersBounded
  BY <1>1, <1>2 DEF NumbersBounded, SiteNumbersDiffer, SitesInit, NoTask
<1> QED  BY <1>3, <1>4, <1>5 DEF SitesInv

\* The numbers only depend on the rows' numbers and prefixes and on the
\* creations under way.
LEMMA NumbersKeep ==
    ASSUME NumbersBounded, Sites' = Sites, rivals' = rivals,
           \A e \in Sites : site'[e].number = site[e].number /\ site'[e].prefix = site[e].prefix,
           \A h \in Handlers : task'[h].pc = "create" => task'[h] = task[h]
    PROVE  NumbersBounded'
<1>1. Drawing' \subseteq Drawing /\ \A h \in Drawing' : task'[h] = task[h]
  BY DEF Drawing
<1>2. \A h \in Drawing', e \in Sites' :
          task'[h].number = site'[e].number => {task'[h].site, e} \subseteq rivals'
  BY <1>1 DEF NumbersBounded
<1>3. SiteNumbersDiffer'
  BY DEF NumbersBounded, SiteNumbersDiffer
<1>4. \A e \in Sites' : site'[e].number <= Cardinality(Sites)'
  BY DEF NumbersBounded
<1>5. \A h \in Handlers : task'[h].pc = "create" => task'[h].number <= Cardinality(Sites)' + 1
  BY DEF NumbersBounded
<1> QED  BY <1>1, <1>2, <1>3, <1>4, <1>5 DEF NumbersBounded

\* What a step of handler h must leave for the creations to stay apart.
LEMMA ApartKeeps ==
    ASSUME CreationsApart,
           \A h \in Handlers : task'[h].pc \in {"count", "create"} =>
               Creates(h) /\ task'[h].site = task[h].site,
           \A h \in Handlers : task'[h].pc \in {"count", "create"} => site'[task'[h].site] = NoSite
    PROVE  CreationsApart'
  BY DEF CreationsApart, Creates

LEMMA TaskOf ==
    ASSUME SitesTypeOK, NEW h \in Handlers
    PROVE  /\ Doing(h, "count") => task[h] \in
                [pc : {"count"}, site : Universities, domain : Domains, prefix : Prefixes]
           /\ Doing(h, "create") => task[h] \in
                [pc : {"create"}, site : Universities, domain : Domains,
                 prefix : Prefixes \union {None}, number : Nat]
           /\ task[h].pc \in {"put", "record"} =>
                task[h] \in [pc : {"put", "record"}, site : Universities]
  BY DEF SitesTypeOK, Task, NoTask, Doing

\* A row of an existing establishment written with its number and prefix.
LEMMA RowRewritten ==
    ASSUME SitesInv, NEW e \in Universities, Opened(e), NEW r \in Site,
           r.number = site[e].number, r.prefix = site[e].prefix,
           r.logo = "own" => e \in objects,
           site' = [site EXCEPT ![e] = r],
           objects' = objects, rivals' = rivals, published' \subseteq objects,
           \A h \in Handlers : task'[h] = task[h] \/ task'[h] = NoTask
    PROVE  CreationsApart' /\ LogosKept' /\ NumbersBounded' /\ site' \in [Universities -> Site \union {NoSite}]
<1>1. r # NoSite
  BY DEF Site, NoSite
<1>2. site' \in [Universities -> Site \union {NoSite}] /\ Sites' = Sites
  BY <1>1 DEF SitesInv, SitesTypeOK, Sites, Opened
<1>3. CreationsApart'
  <2>1. \A h \in Handlers : Creates(h) => task[h].site # e
    BY DEF SitesInv, CreationsApart, Opened
  <2>2. \A h \in Handlers : task'[h].pc \in {"count", "create"} =>
            /\ Creates(h) /\ task'[h].site = task[h].site
            /\ site'[task'[h].site] = NoSite
    BY <2>1, TaskOf DEF SitesInv, SitesTypeOK, CreationsApart, Creates, NoTask, Doing
  <2> QED  BY <2>2, ApartKeeps DEF SitesInv
<1>4. LogosKept'
  BY <1>2 DEF SitesInv, SitesTypeOK, LogosKept, LogoIsServed, NoTask
<1>5. NumbersBounded'
  <2>1. \A f \in Sites : site'[f].number = site[f].number /\ site'[f].prefix = site[f].prefix
    BY DEF SitesInv, SitesTypeOK, Sites
  <2> QED  BY <1>2, <2>1, NumbersKeep DEF SitesInv, NoTask
<1> QED  BY <1>2, <1>3, <1>4, <1>5

LEMMA SitesStep == SitesInv /\ [SitesNext]_siteVars => SitesInv'
<1> SUFFICES ASSUME SitesInv, [SitesNext]_siteVars PROVE SitesInv'
  OBVIOUS
<1> USE DEF Resting, Doing, Proceed, Finish, RowsUnchanged, HistoryUnchanged
<1>1. ASSUME NEW h \in Handlers, NEW e \in Universities, NEW d \in Domains,
             NEW p \in Prefixes \union {None}, CreateReads(h, e, d, p)
      PROVE  SitesInv'
  <2> DEFINE t == IF p = None
                    THEN [pc |-> "create", site |-> e, domain |-> d, prefix |-> None, number |-> 0]
                    ELSE [pc |-> "count", site |-> e, domain |-> d, prefix |-> p]
  <2>1. /\ t \in Task /\ t.pc \in {"count", "create"} /\ t.site = e
        /\ t.pc = "create" => t.number = 0
        /\ t.pc # "record"
    BY DEF Task
  <2>2. /\ task' = [task EXCEPT ![h] = t] /\ task[h] = NoTask
        /\ site[e] = NoSite /\ ~Coming(e)
        /\ UNCHANGED <<site, objects, published, rivals>>
    BY <1>1 DEF CreateReads, Opened
  <2> HIDE DEF t
  <2>3. SitesTypeOK'
    BY <2>1, <2>2 DEF SitesInv, SitesTypeOK
  <2>4. /\ task'[h] = t
        /\ \A g \in Handlers : g # h => task'[g] = task[g]
    BY <2>2 DEF SitesInv, SitesTypeOK
  <2>5. CreationsApart'
    BY <2>1, <2>2, <2>4 DEF SitesInv, CreationsApart, Creates, Coming
  <2>6. LogosKept'
    BY <2>1, <2>2, <2>4 DEF SitesInv, LogosKept, LogoIsServed, Sites, Opened
  <2>7. Sites' = Sites /\ Drawing' \subseteq Drawing /\ \A g \in Drawing' : g # h
    BY <2>1, <2>2, <2>4 DEF Sites, Opened, Drawing
  <2>8. NumbersBounded'
    <3>1. Cardinality(Sites) \in Nat
      BY FS_CardinalityType DEF SitesInv, NumbersBounded
    <3>2. SiteNumbersDiffer'
      BY <2>2, <2>7 DEF SitesInv, NumbersBounded, SiteNumbersDiffer
    <3>3. \A g \in Handlers : task'[g].pc = "create" => task'[g].number <= Cardinality(Sites)' + 1
      BY <2>1, <2>4, <2>7, <3>1 DEF SitesInv, NumbersBounded
    <3> QED
      BY <2>2, <2>4, <2>7, <3>2, <3>3 DEF SitesInv, NumbersBounded
  <2> QED  BY <2>3, <2>5, <2>6, <2>8 DEF SitesInv
<1>2. ASSUME NEW h \in Handlers, CreateCounts(h)
      PROVE  SitesInv'
  <2> DEFINE n == Cardinality(Sites) + 1
             t == [pc |-> "create", site |-> task[h].site, domain |-> task[h].domain,
                   prefix |-> task[h].prefix, number |-> n]
  <2>1. n \in Nat /\ n # 0
    BY FS_CardinalityType DEF SitesInv, NumbersBounded
  <2>2. task[h] \in [pc : {"count"}, site : Universities, domain : Domains, prefix : Prefixes]
    BY <1>2, TaskOf DEF CreateCounts, SitesInv
  <2>3. /\ t \in Task /\ t.pc = "create" /\ t.number = n /\ t.site = task[h].site
    BY <2>1, <2>2 DEF Task
  <2>4. /\ task' = [task EXCEPT ![h] = t]
        /\ rivals' = rivals \union
             (IF Drawing = {} THEN {} ELSE {task[h].site} \union {task[g].site : g \in Drawing})
        /\ UNCHANGED <<site, objects, published>>
    BY <1>2 DEF CreateCounts, NextNumber
  <2> HIDE DEF t, n
  <2>5. /\ task'[h] = t
        /\ \A g \in Handlers : g # h => task'[g] = task[g]
    BY <2>4 DEF SitesInv, SitesTypeOK
  <2>6. \A g \in Drawing : task[g].site \in Universities
    BY TaskOf DEF Drawing, SitesInv
  <2>7. SitesTypeOK'
    BY <2>2, <2>3, <2>4, <2>6 DEF SitesInv, SitesTypeOK
  <2>8. CreationsApart'
    <3>1. \A g \in Handlers : task'[g].pc \in {"count", "create"} =>
              Creates(g) /\ task'[g].site = task[g].site
      BY <2>2, <2>3, <2>5 DEF Creates
    <3>2. \A g \in Handlers : task'[g].pc \in {"count", "create"} => site'[task'[g].site] = NoSite
      BY <3>1, <2>4 DEF SitesInv, CreationsApart
    <3> QED  BY <3>1, <3>2, ApartKeeps DEF SitesInv
  <2>9. LogosKept'
    BY <2>3, <2>4, <2>5 DEF SitesInv, LogosKept, LogoIsServed, Sites, Opened
  <2>10. /\ Sites' = Sites /\ rivals \subseteq rivals'
         /\ Drawing' \subseteq Drawing \union {h}
         /\ \A g \in Drawing : {task[h].site, task[g].site} \subseteq rivals'
         /\ \A g \in Drawing' : g = h \/ (g \in Drawing /\ task'[g] = task[g])
    BY <2>4, <2>5 DEF Sites, Opened, Drawing
  <2>11. \A g, k \in Drawing' : g # k => task'[g].site \in rivals'
    BY <2>3, <2>5, <2>10 DEF SitesInv, NumbersBounded
  <2>12. \A e \in Sites : site[e].number \in Nat /\ site[e].number < n
    BY <2>1, FS_CardinalityType DEF n, SitesInv, NumbersBounded, SitesTypeOK, Sites, Opened, Site
  <2>13. \A g \in Drawing', e \in Sites' :
            task'[g].number = site'[e].number => {task'[g].site, e} \subseteq rivals'
    BY <2>1, <2>3, <2>4, <2>5, <2>10, <2>12 DEF SitesInv, NumbersBounded
  <2>14. SiteNumbersDiffer'
    BY <2>4, <2>10 DEF SitesInv, NumbersBounded, SiteNumbersDiffer
  <2>15. \A g \in Handlers : task'[g].pc = "create" => task'[g].number <= Cardinality(Sites)' + 1
    BY <2>1, <2>3, <2>5, <2>10 DEF n, SitesInv, NumbersBounded
  <2>16. NumbersBounded'
    BY <2>4, <2>10, <2>11, <2>13, <2>14, <2>15 DEF SitesInv, NumbersBounded
  <2> QED  BY <2>7, <2>8, <2>9, <2>16 DEF SitesInv
<1>3. ASSUME NEW h \in Handlers, NEW l \in {"none", "external"}, CreateInserts(h, l)
      PROVE  SitesInv'
  <2>1. PICK e \in Universities, n \in Nat, p \in Prefixes \union {None}, d \in Domains :
            task[h].site = e /\ task[h].number = n /\ task[h].prefix = p /\ task[h].domain = d
    BY <1>3, TaskOf DEF CreateInserts, SitesInv
  <2> DEFINE r == [domain |-> d, prefix |-> p, number |-> n, logo |-> l, isActive |-> TRUE]
  <2>2. /\ task[h].pc = "create" /\ CodeFree(p, n)
        /\ site' = [site EXCEPT ![e] = r] /\ task' = [task EXCEPT ![h] = NoTask]
        /\ UNCHANGED <<objects, published, rivals>>
    BY <1>3, <2>1 DEF CreateInserts
  <2>3. r \in Site /\ r # NoSite /\ r.number = n /\ r.prefix = p /\ r.logo # "own"
    BY <2>1 DEF Site, NoSite
  <2> HIDE DEF r
  <2>4. /\ site'[e] = r /\ site[e] = NoSite
        /\ \A f \in Universities : f # e => site'[f] = site[f]
        /\ \A g \in Handlers : g # h => task'[g] = task[g]
        /\ task'[h] = NoTask
    BY <2>1, <2>2 DEF SitesInv, SitesTypeOK, CreationsApart, Creates
  <2>5. SitesTypeOK'
    BY <2>2, <2>3 DEF SitesInv, SitesTypeOK
  <2>6. CreationsApart'
    <3>1. \A g \in Handlers : task'[g].pc \in {"count", "create"} =>
              g # h /\ Creates(g) /\ task'[g].site = task[g].site /\ task[g].site # e
      BY <2>1, <2>2, <2>4 DEF Creates, NoTask, SitesInv, CreationsApart
    <3>2. \A g \in Handlers : task'[g].pc \in {"count", "create"} => site'[task'[g].site] = NoSite
      BY <3>1, <2>2, TaskOf DEF SitesInv, SitesTypeOK, CreationsApart, Creates
    <3> QED  BY <3>1, <3>2, ApartKeeps DEF SitesInv
  <2>7. Sites' = Sites \union {e} /\ e \notin Sites /\ Sites \subseteq Universities
    BY <2>3, <2>4 DEF Sites, Opened
  <2>8. LogosKept'
    BY <2>2, <2>3, <2>4, <2>7 DEF SitesInv, LogosKept, LogoIsServed, NoTask
  <2>9. /\ IsFiniteSet(Sites') /\ Cardinality(Sites') = Cardinality(Sites) + 1
        /\ Cardinality(Sites) \in Nat
    BY <2>7, FS_AddElement, FS_CardinalityType DEF SitesInv, NumbersBounded
  <2>10. Drawing' = Drawing \ {h} /\ \A g \in Drawing' : task'[g] = task[g]
    BY <2>4 DEF Drawing, NoTask
  <2>11. /\ n <= Cardinality(Sites) + 1
         /\ n # 0 => h \in Drawing
         /\ \A f \in Sites : site[f].number \in Nat /\ site[f].number <= Cardinality(Sites)
    BY <2>1, <2>2 DEF SitesInv, NumbersBounded, SitesTypeOK, Sites, Opened, Site, Drawing
  <2>12. \A f \in Sites' : site'[f].number <= Cardinality(Sites')
    BY <2>3, <2>4, <2>7, <2>9, <2>11
  <2>13. \A g \in Handlers : task'[g].pc = "create" => task'[g].number <= Cardinality(Sites') + 1
    <3> SUFFICES ASSUME NEW g \in Handlers, task'[g].pc = "create"
                 PROVE  task'[g].number <= Cardinality(Sites') + 1
      OBVIOUS
    <3>1. g # h /\ task'[g] = task[g]
      BY <2>4 DEF NoTask
    <3>2. task[g].number \in Nat
      BY <3>1, TaskOf DEF SitesInv
    <3> QED  BY <3>1, <3>2, <2>9 DEF SitesInv, NumbersBounded
  <2>14. \A g, k \in Drawing' : g # k => task'[g].site \in rivals'
    BY <2>2, <2>10 DEF SitesInv, NumbersBounded
  <2>15. \A g \in Drawing', f \in Sites' :
            task'[g].number = site'[f].number => {task'[g].site, f} \subseteq rivals'
    <3> SUFFICES ASSUME NEW g \in Drawing', NEW f \in Sites', task'[g].number = site'[f].number
                 PROVE  {task'[g].site, f} \subseteq rivals'
      OBVIOUS
    <3>1. g \in Drawing /\ g # h /\ task'[g] = task[g] /\ task[g].number # 0
      BY <2>10 DEF Drawing
    <3>2. CASE f = e
      <4>1. h \in Drawing
        BY <3>1, <3>2, <2>3, <2>4, <2>11
      <4> QED  BY <4>1, <3>1, <3>2, <2>1, <2>2 DEF SitesInv, NumbersBounded
    <3>3. CASE f # e
      BY <3>1, <3>3, <2>2, <2>4, <2>7 DEF SitesInv, NumbersBounded
    <3> QED  BY <3>2, <3>3
  <2>16. \A f \in Sites : n # 0 /\ site[f].number = n =>
            {e, f} \subseteq rivals /\ site[f].prefix # p
    BY <2>1, <2>2, <2>11 DEF SitesInv, NumbersBounded, CodeFree
  <2>17. SiteNumbersDiffer'
    <3> SUFFICES ASSUME NEW f \in Sites', NEW g \in Sites', f # g,
                        site'[f].number # 0, site'[f].number = site'[g].number
                 PROVE  {f, g} \subseteq rivals' /\ site'[f].prefix # site'[g].prefix
      BY DEF SiteNumbersDiffer
    <3>1. CASE f = e
      BY <3>1, <2>2, <2>3, <2>4, <2>7, <2>16
    <3>2. CASE g = e
      BY <3>2, <2>2, <2>3, <2>4, <2>7, <2>16
    <3>3. CASE f # e /\ g # e
      BY <3>3, <2>2, <2>4, <2>7 DEF SitesInv, NumbersBounded, SiteNumbersDiffer
    <3> QED  BY <3>1, <3>2, <3>3
  <2>18. NumbersBounded'
    BY <2>9, <2>12, <2>13, <2>14, <2>15, <2>17 DEF NumbersBounded
  <2> QED  BY <2>5, <2>6, <2>8, <2>18 DEF SitesInv
<1>4. ASSUME NEW e \in Universities, Deactivate(e)
      PROVE  SitesInv'
  <2> DEFINE r == [site[e] EXCEPT !.isActive = FALSE]
  <2>1. site[e] \in Site
    BY <1>4 DEF Deactivate, Opened, SitesInv, SitesTypeOK
  <2>2. /\ r \in Site /\ r.number = site[e].number /\ r.prefix = site[e].prefix
        /\ r.logo = site[e].logo
    BY <2>1 DEF Site
  <2>3. r.logo = "own" => e \in objects
    BY <1>4, <2>2 DEF Deactivate, SitesInv, LogosKept, LogoIsServed, Sites
  <2>4. site' = [site EXCEPT ![e] = r]
    BY <1>4 DEF Deactivate
  <2> HIDE DEF r
  <2>5. CreationsApart' /\ LogosKept' /\ NumbersBounded' /\ site' \in [Universities -> Site \union {NoSite}]
    BY <1>4, <2>2, <2>3, <2>4, RowRewritten DEF Deactivate, SitesInv, LogosKept
  <2> QED  BY <1>4, <2>5 DEF Deactivate, SitesInv, SitesTypeOK
<1>5. ASSUME NEW e \in Universities, NEW l \in {"own", "external"}, PutLogo(e, l)
      PROVE  SitesInv'
  <2> DEFINE r == [site[e] EXCEPT !.logo = l]
  <2>1. site[e] \in Site
    BY <1>5 DEF PutLogo, Opened, SitesInv, SitesTypeOK
  <2>2. /\ r \in Site /\ r.number = site[e].number /\ r.prefix = site[e].prefix
        /\ r.logo = l
    BY <2>1 DEF Site
  <2>3. r.logo = "own" => e \in objects
    BY <1>5, <2>2 DEF PutLogo, SitesInv, LogosKept
  <2>4. site' = [site EXCEPT ![e] = r]
    BY <1>5 DEF PutLogo
  <2> HIDE DEF r
  <2>5. CreationsApart' /\ LogosKept' /\ NumbersBounded' /\ site' \in [Universities -> Site \union {NoSite}]
    BY <1>5, <2>2, <2>3, <2>4, RowRewritten DEF PutLogo, SitesInv, LogosKept
  <2> QED  BY <1>5, <2>5 DEF PutLogo, SitesInv, SitesTypeOK
<1>6. ASSUME NEW h \in Handlers, UploadRecords(h)
      PROVE  SitesInv'
  <2>1. PICK e \in Universities : task[h].site = e
    BY <1>6, TaskOf DEF UploadRecords, SitesInv
  <2> DEFINE r == [site[e] EXCEPT !.logo = "own"]
  <2>2. Opened(e) /\ site[e] \in Site /\ e \in objects
    BY <1>6, <2>1 DEF UploadRecords, Opened, SitesInv, SitesTypeOK, LogosKept
  <2>3. r \in Site /\ r.number = site[e].number /\ r.prefix = site[e].prefix
    BY <2>2 DEF Site
  <2>4. /\ site' = [site EXCEPT ![e] = r] /\ task' = [task EXCEPT ![h] = NoTask]
        /\ published' = published \union {e}
        /\ UNCHANGED <<objects, rivals>>
    BY <1>6, <2>1 DEF UploadRecords
  <2> HIDE DEF r
  <2>5. published' \subseteq objects /\ \A g \in Handlers : task'[g] = task[g] \/ task'[g] = NoTask
    BY <2>2, <2>4 DEF SitesInv, SitesTypeOK, LogosKept
  <2>6. CreationsApart' /\ LogosKept' /\ NumbersBounded' /\ site' \in [Universities -> Site \union {NoSite}]
    BY <2>2, <2>3, <2>4, <2>5, RowRewritten
  <2> QED  BY <2>4, <2>6 DEF SitesInv, SitesTypeOK
<1>7. ASSUME UNCHANGED <<site, published, rivals>>,
             objects \subseteq objects', objects' \subseteq Universities,
             task' \in [Handlers -> Task \union {NoTask}],
             \A h \in Handlers :
                 \/ task'[h] = task[h]
                 \/ task'[h].pc \notin {"count", "create", "record"}
                 \/ task'[h].pc = "record" /\ task'[h].site \in objects'
      PROVE  SitesInv'
  <2>1. SitesTypeOK'
    BY <1>7 DEF SitesInv, SitesTypeOK
  <2>2. CreationsApart'
    <3>1. \A h \in Handlers : task'[h].pc \in {"count", "create"} => task'[h] = task[h]
      BY <1>7
    <3> QED  BY <3>1, <1>7 DEF SitesInv, CreationsApart, Creates
  <2>3. Sites' = Sites
    BY <1>7 DEF Sites, Opened
  <2>4. LogosKept'
    BY <1>7, <2>3 DEF SitesInv, LogosKept, LogoIsServed
  <2>5. NumbersBounded'
    BY <1>7, <2>3, NumbersKeep DEF SitesInv
  <2> QED  BY <2>1, <2>2, <2>4, <2>5 DEF SitesInv
<1>8. ASSUME NEW h \in Handlers, NEW e \in Universities, UploadStarts(h, e)
      PROVE  SitesInv'
  BY <1>7, <1>8 DEF UploadStarts, SitesInv, SitesTypeOK, Task
<1>9. ASSUME NEW h \in Handlers, UploadPuts(h)
      PROVE  SitesInv'
  <2> DEFINE t == [task[h] EXCEPT !.pc = "record"]
  <2>1. task[h] \in [pc : {"put", "record"}, site : Universities]
    BY <1>9, TaskOf DEF UploadPuts, SitesInv
  <2>2. t \in Task /\ t.pc = "record" /\ t.site = task[h].site /\ t.site \in Universities
    BY <2>1 DEF Task
  <2>3. task' = [task EXCEPT ![h] = t] /\ objects' = objects \union {task[h].site}
        /\ UNCHANGED <<site, published, rivals>>
    BY <1>9 DEF UploadPuts
  <2> HIDE DEF t
  <2> QED  BY <1>7, <2>2, <2>3 DEF SitesInv, SitesTypeOK
<1>10. ASSUME NEW h \in Handlers, Abandon(h)
      PROVE  SitesInv'
  BY <1>7, <1>10 DEF Abandon, SitesInv, SitesTypeOK, NoTask
<1>11. CASE UNCHANGED siteVars
  BY <1>7, <1>11 DEF siteVars, SitesInv, SitesTypeOK
<1> QED
  BY <1>1, <1>2, <1>3, <1>4, <1>5, <1>6, <1>8, <1>9, <1>10, <1>11
     DEF SitesNext, TaskStarts, TaskStep

\* For any number of establishments, domains and requests: an establishment
\* whose row names its own logo has the image, and two establishments share a
\* number only when their creations drew it side by side, and then their
\* codes differ by the prefix.
THEOREM LogosAreServed == SitesSpec => []LogoIsServed
<1>1. SitesInv => LogoIsServed
  BY DEF SitesInv, LogosKept
<1> QED  BY <1>1, SitesStart, SitesStep, PTL DEF SitesSpec

\* The numbers: see above.
THEOREM NumbersDiffer == SitesSpec => []SiteNumbersDiffer
<1>1. SitesInv => SiteNumbersDiffer
  BY DEF SitesInv, NumbersBounded
<1> QED  BY <1>1, SitesStart, SitesStep, PTL DEF SitesSpec

-----------------------------------------------------------------------------
(* Temporary passwords.                                                    *)

Busy(h, a) == letter[h] # NoLetter /\ letter[h].account = a

\* Until requests of an account overlap, one handler at most is at work for it;
\* until one stops before its answer, the password in the row is the one that
\* was told, or the one in the mail.
PasswordsKnown ==
    /\ \A a \in Invitees \ mixed, g, h \in Handlers : Busy(g, a) /\ Busy(h, a) => g = h
    /\ \A a \in Invitees \ mixed, h \in Handlers :
          Busy(h, a) /\ letter[h].pc = "mail" => letter[h].password = hashed[a]
    /\ \A a \in Invitees \ (mixed \union cut) :
          (\A h \in Handlers : Busy(h, a) => letter[h].pc # "mail") => told[a] = hashed[a]

\* A password in the mail has been drawn.
MailDrawn ==
    \A a \in Invitees, h \in Handlers :
        Busy(h, a) /\ letter[h].pc = "mail" => letter[h].password <= drawn[a]

PasswordInv == InvitationsTypeOK /\ PasswordsKnown /\ MailDrawn

LEMMA LetterOf ==
    ASSUME InvitationsTypeOK, NEW h \in Handlers, letter[h] # NoLetter
    PROVE  /\ letter[h].account \in Invitees
           /\ letter[h].pc \in {"enrol", "rehash", "change", "mail"}
           /\ letter[h].pc = "mail" => letter[h].password \in 1..MaxDraws
  BY DEF InvitationsTypeOK, Letter, NoLetter

LEMMA PasswordStart == InvitationsInit => PasswordInv
  BY MaxDrawsAssumption DEF InvitationsInit, PasswordInv, InvitationsTypeOK,
                            PasswordsKnown, MailDrawn, Busy, NoLetter

LEMMA PasswordStep == PasswordInv /\ [InvitationsNext]_invitationVars => PasswordInv'
<1> SUFFICES ASSUME PasswordInv, [InvitationsNext]_invitationVars PROVE PasswordInv'
  OBVIOUS
<1> USE MaxDrawsAssumption
<1>1. ASSUME NEW h \in Handlers, NEW a \in Invitees, NEW pc \in {"enrol", "rehash", "change"}, Asks(h, a, pc)
      PROVE  PasswordInv'
  <2> DEFINE l == [pc |-> pc, account |-> a]
  <2>1. l \in Letter /\ l # NoLetter /\ l.account = a /\ l.pc # "mail"
    BY DEF Letter, NoLetter
  <2>2. /\ letter' = [letter EXCEPT ![h] = l] /\ letter[h] = NoLetter
        /\ mixed' = IF InTheMail(a) THEN mixed \union {a} ELSE mixed
        /\ UNCHANGED <<hashed, drawn, told, cut>>
    BY <1>1 DEF Asks, Seal
  <2> HIDE DEF l
  <2>3. InvitationsTypeOK'
    BY <2>1, <2>2 DEF PasswordInv, InvitationsTypeOK
  <2>4. /\ letter'[h] = l
        /\ \A g \in Handlers : g # h => letter'[g] = letter[g]
    BY <2>2 DEF PasswordInv, InvitationsTypeOK
  <2>5. PasswordsKnown'
    BY <2>1, <2>2, <2>4 DEF PasswordInv, PasswordsKnown, Busy, InTheMail
  <2>6. MailDrawn'
    BY <2>1, <2>2, <2>4 DEF PasswordInv, MailDrawn, Busy
  <2> QED  BY <2>3, <2>5, <2>6 DEF PasswordInv
<1>2. ASSUME NEW h \in Handlers, NEW a \in Invitees, letter[h].account = a,
             letter[h].pc \in {"enrol", "rehash"}, Hashes(h, a)
      PROVE  PasswordInv'
  <2> DEFINE n == drawn[a] + 1
             l == [pc |-> "mail", account |-> a, password |-> n]
  <2>1. n \in 1..MaxDraws
    BY <1>2 DEF Hashes, PasswordInv, InvitationsTypeOK
  <2>2. l \in Letter /\ l # NoLetter /\ l.account = a /\ l.pc = "mail" /\ l.password = n
    BY <2>1 DEF Letter, NoLetter
  <2>3. /\ letter' = [letter EXCEPT ![h] = l] /\ letter[h] # NoLetter
        /\ drawn' = [drawn EXCEPT ![a] = n] /\ hashed' = [hashed EXCEPT ![a] = n]
        /\ UNCHANGED <<told, mixed, cut>>
    BY <1>2 DEF Hashes, Seal, NoLetter
  <2>4. InvitationsTypeOK'
    <3>1. \A b \in Invitees : hashed'[b] <= drawn'[b] /\ told'[b] <= drawn'[b]
      BY <2>1, <2>3 DEF PasswordInv, InvitationsTypeOK
    <3> HIDE DEF n, l
    <3> QED  BY <2>1, <2>2, <2>3, <3>1 DEF PasswordInv, InvitationsTypeOK
  <2> HIDE DEF n, l
  <2>5. /\ letter'[h] = l /\ hashed'[a] = n
        /\ \A b \in Invitees : b # a => hashed'[b] = hashed[b]
        /\ \A g \in Handlers : g # h => letter'[g] = letter[g]
    BY <2>3 DEF PasswordInv, InvitationsTypeOK
  <2>6. PasswordsKnown'
    BY <1>2, <2>2, <2>3, <2>5 DEF PasswordInv, PasswordsKnown, Busy
  <2>7. /\ n \in Int /\ drawn[a] \in Int /\ drawn[a] <= n
        /\ \A b \in Invitees : b # a => drawn'[b] = drawn[b]
        /\ drawn'[a] = n
    BY <2>1, <2>3 DEF n, PasswordInv, InvitationsTypeOK
  <2>8. MailDrawn'
    <3> SUFFICES ASSUME NEW b \in Invitees, NEW g \in Handlers, Busy(g, b)', letter'[g].pc = "mail"
                 PROVE  letter'[g].password <= drawn'[b]
      BY DEF MailDrawn
    <3>1. CASE g = h
      <4>1. letter'[g] = l /\ b = a
        BY <3>1, <2>2, <2>5 DEF Busy
      <4>2. letter'[g].password = n /\ drawn'[b] = n
        BY <4>1, <2>2, <2>7
      <4> QED  BY <4>2, <2>7
    <3>2. CASE g # h
      <4>1. Busy(g, b) /\ letter[g].pc = "mail" /\ letter'[g] = letter[g]
        BY <3>2, <2>5 DEF Busy
      <4>2. letter[g].password \in Int /\ letter[g].password <= drawn[b] /\ drawn[b] \in Int
        BY <4>1, LetterOf DEF PasswordInv, MailDrawn, InvitationsTypeOK, Busy
      <4>3. drawn'[b] \in Int /\ drawn[b] <= drawn'[b]
        BY <4>2, <2>7
      <4> QED  BY <4>1, <4>2, <4>3
    <3> QED  BY <3>1, <3>2
  <2> QED  BY <2>4, <2>6, <2>8 DEF PasswordInv
<1>3. ASSUME NEW h \in Handlers, Tells(h)
      PROVE  PasswordInv'
  <2>1. PICK a \in Invitees, n \in 1..MaxDraws :
            letter[h] # NoLetter /\ letter[h].account = a /\ letter[h].password = n
    BY <1>3, LetterOf DEF Tells, PasswordInv, NoLetter
  <2>2. /\ letter' = [letter EXCEPT ![h] = NoLetter] /\ letter[h].pc = "mail"
        /\ told' = [told EXCEPT ![a] = n]
        /\ UNCHANGED <<hashed, drawn, mixed, cut>>
    BY <1>3, <2>1 DEF Tells, Seal
  <2>3. /\ letter'[h] = NoLetter /\ told'[a] = n
        /\ \A b \in Invitees : b # a => told'[b] = told[b]
        /\ \A g \in Handlers : g # h => letter'[g] = letter[g]
    BY <2>2 DEF PasswordInv, InvitationsTypeOK
  <2>4. PasswordsKnown'
    BY <2>1, <2>2, <2>3 DEF PasswordInv, PasswordsKnown, Busy
  <2>5. InvitationsTypeOK'
    <3>1. n \in Int /\ n <= drawn[a]
      BY <2>1, <2>2 DEF PasswordInv, MailDrawn, Busy
    <3> QED  BY <2>1, <2>2, <3>1 DEF PasswordInv, InvitationsTypeOK
  <2>6. MailDrawn'
    BY <2>2, <2>3 DEF PasswordInv, MailDrawn, Busy
  <2> QED  BY <2>4, <2>5, <2>6 DEF PasswordInv
<1>4. ASSUME NEW h \in Handlers, Tears(h)
      PROVE  PasswordInv'
  <2>1. PICK a \in Invitees : letter[h] # NoLetter /\ letter[h].account = a
    BY <1>4, LetterOf DEF Tears, PasswordInv
  <2>2. /\ letter' = [letter EXCEPT ![h] = NoLetter]
        /\ cut' = IF letter[h].pc = "mail" THEN cut \union {a} ELSE cut
        /\ UNCHANGED <<hashed, drawn, told, mixed>>
    BY <1>4, <2>1 DEF Tears, Seal
  <2>3. InvitationsTypeOK'
    BY <2>1, <2>2 DEF PasswordInv, InvitationsTypeOK
  <2>4. /\ letter'[h] = NoLetter
        /\ \A g \in Handlers : g # h => letter'[g] = letter[g]
    BY <2>2 DEF PasswordInv, InvitationsTypeOK
  <2>5. PasswordsKnown'
    BY <2>1, <2>2, <2>4 DEF PasswordInv, PasswordsKnown, Busy
  <2>6. MailDrawn'
    BY <2>2, <2>4 DEF PasswordInv, MailDrawn, Busy
  <2> QED  BY <2>3, <2>5, <2>6 DEF PasswordInv
<1>5. ASSUME NEW h \in Handlers, OwnerWrites(h)
      PROVE  PasswordInv'
  <2>1. PICK a \in Invitees : letter[h] # NoLetter /\ letter[h].account = a
    BY <1>5, LetterOf DEF OwnerWrites, PasswordInv, NoLetter
  <2> DEFINE n == drawn[a] + 1
  <2>2. n \in 1..MaxDraws
    BY <1>5, <2>1 DEF OwnerWrites, PasswordInv, InvitationsTypeOK
  <2>3. /\ letter' = [letter EXCEPT ![h] = NoLetter] /\ letter[h].pc = "change"
        /\ drawn' = [drawn EXCEPT ![a] = n] /\ hashed' = [hashed EXCEPT ![a] = n]
        /\ told' = [told EXCEPT ![a] = n]
        /\ UNCHANGED <<mixed, cut>>
    BY <1>5, <2>1 DEF OwnerWrites, Seal
  <2>4. InvitationsTypeOK'
    <3>1. \A b \in Invitees : hashed'[b] <= drawn'[b] /\ told'[b] <= drawn'[b]
      BY <2>2, <2>3 DEF PasswordInv, InvitationsTypeOK
    <3> HIDE DEF n
    <3> QED  BY <2>2, <2>3, <3>1 DEF PasswordInv, InvitationsTypeOK
  <2>5. /\ n \in Int /\ drawn[a] \in Int /\ drawn[a] <= n
    BY <2>2 DEF PasswordInv, InvitationsTypeOK
  <2> HIDE DEF n
  <2>6. /\ letter'[h] = NoLetter /\ hashed'[a] = n /\ told'[a] = n /\ drawn'[a] = n
        /\ \A b \in Invitees : b # a => /\ hashed'[b] = hashed[b] /\ told'[b] = told[b]
                                       /\ drawn'[b] = drawn[b]
        /\ \A g \in Handlers : g # h => letter'[g] = letter[g]
    BY <2>3 DEF PasswordInv, InvitationsTypeOK
  <2>7. PasswordsKnown'
    BY <2>1, <2>3, <2>6 DEF PasswordInv, PasswordsKnown, Busy
  <2>8. MailDrawn'
    <3> SUFFICES ASSUME NEW b \in Invitees, NEW g \in Handlers, Busy(g, b)', letter'[g].pc = "mail"
                 PROVE  letter'[g].password <= drawn'[b]
      BY DEF MailDrawn
    <3>1. g # h /\ Busy(g, b) /\ letter[g].pc = "mail" /\ letter'[g] = letter[g]
      BY <2>6 DEF Busy
    <3>2. letter[g].password \in Int /\ letter[g].password <= drawn[b] /\ drawn[b] \in Int
      BY <3>1, LetterOf DEF PasswordInv, MailDrawn, InvitationsTypeOK, Busy
    <3>3. drawn'[b] \in Int /\ drawn[b] <= drawn'[b]
      BY <3>2, <2>5, <2>6
    <3> QED  BY <3>1, <3>2, <3>3
  <2> QED  BY <2>4, <2>7, <2>8 DEF PasswordInv
<1>6. CASE UNCHANGED invitationVars
  BY <1>6 DEF invitationVars, PasswordInv, InvitationsTypeOK, PasswordsKnown, MailDrawn, Busy
<1>7. ASSUME NEW h \in Handlers, InviteInserts(h) \/ ResetWrites(h)
      PROVE  PasswordInv'
  <2>1. letter[h].account \in Invitees
    BY <1>7, LetterOf DEF InviteInserts, ResetWrites, PasswordInv, NoLetter
  <2> QED  BY <1>2, <1>7, <2>1 DEF InviteInserts, ResetWrites
<1> QED
  BY <1>1, <1>3, <1>4, <1>5, <1>6, <1>7
     DEF InvitationsNext, InviteReads, ResetReads, OwnerReads

\* For any number of administrators, handlers and passwords: when the requests
\* of an account, its owner's own changes among them, did not overlap and were
\* all answered, the last password told or chosen is the one in the row.
THEOREM PasswordOpens == InvitationsSpec => []LastPasswordOpens
<1>1. PasswordInv => LastPasswordOpens
  BY DEF PasswordInv, PasswordsKnown, LastPasswordOpens, Busy, InTheMail
<1> QED  BY <1>1, PasswordStart, PasswordStep, PTL DEF InvitationsSpec

-----------------------------------------------------------------------------
(* The contact form.                                                       *)

\* The types that matter to a proof whatever bounds the rows.
EnquiryTypes ==
    /\ page \in [Visitors -> {"writing", "posted", "waiting", "thanked"}]
    /\ visit \in [Handlers -> Visit \union {NoVisit}]
    /\ filed \in [Visitors -> Nat]
    /\ unheard \subseteq Visitors

Awaited(h, v) == visit[h].visitor = v /\ visit[h].heard

\* The page waits while a handler may answer it, and one handler only; past the
\* INSERT the message is on file.
AnswersExpected ==
    /\ \A h \in Handlers, v \in Visitors : Awaited(h, v) => page[v] = "waiting"
    /\ \A g, h \in Handlers, v \in Visitors : Awaited(g, v) /\ Awaited(h, v) => g = h
    /\ \A h \in Handlers, v \in Visitors :
          visit[h].visitor = v /\ visit[h].pc = "notify" => filed[v] > 0

\* A visitor whose connection never broke has no handler nobody waits for, and
\* nothing on file before the INSERT of the one that is awaited.
FiledByTheAwaited ==
    \A v \in Visitors \ unheard :
        /\ page[v] = "posted" => filed[v] = 0
        /\ \A h \in Handlers : visit[h].visitor = v =>
              /\ visit[h].heard
              /\ filed[v] = IF visit[h].pc = "notify" THEN 1 ELSE 0

EnquiryInv == EnquiryTypes /\ AnswersExpected /\ FiledByTheAwaited /\ FiledOnceThanked

LEMMA EnquiryStart == EnquiriesInit => EnquiryInv
  BY FiledAssumption DEF EnquiriesInit, EnquiryInv, EnquiryTypes, AnswersExpected,
     FiledByTheAwaited, FiledOnceThanked, Awaited, NoVisit

LEMMA EnquiryStep == EnquiryInv /\ [EnquiriesNext]_enquiryVars => EnquiryInv'
<1> SUFFICES ASSUME EnquiryInv, [EnquiriesNext]_enquiryVars PROVE EnquiryInv'
  OBVIOUS
<1> USE FiledAssumption DEF Turn, Leave, Visit, NoVisit
<1>0. \A h \in Handlers :
          \/ visit[h] = NoVisit
          \/ /\ visit[h].visitor \in Visitors /\ visit[h].visitor # None
             /\ visit[h].pc \in {"insert", "notify"} /\ visit[h].heard \in BOOLEAN
  BY DEF EnquiryInv, EnquiryTypes
<1>1. ASSUME NEW v \in Visitors, Submit(v)
      PROVE  EnquiryInv'
  BY <1>1 DEF Submit, EnquiryInv, EnquiryTypes, AnswersExpected, FiledByTheAwaited,
              FiledOnceThanked, Awaited
<1>2. ASSUME NEW v \in Visitors, RequestLost(v)
      PROVE  EnquiryInv'
  BY <1>2 DEF RequestLost, EnquiryInv, EnquiryTypes, AnswersExpected, FiledByTheAwaited,
              FiledOnceThanked, Awaited
<1>3. ASSUME NEW h \in Handlers, NEW v \in Visitors, Arrives(h, v)
      PROVE  EnquiryInv'
  <2> DEFINE j == [pc |-> "insert", visitor |-> v, heard |-> TRUE]
  <2>1. /\ j \in Visit /\ j.pc = "insert" /\ j.visitor = v /\ j.heard
        /\ page[v] = "posted" /\ visit[h] = NoVisit
        /\ visit' = [visit EXCEPT ![h] = j]
        /\ page' = [page EXCEPT ![v] = "waiting"]
        /\ UNCHANGED <<filed, handled, unheard>>
    BY <1>3 DEF Arrives
  <2> HIDE DEF j
  <2>2. EnquiryTypes'
    BY <2>1 DEF EnquiryInv, EnquiryTypes
  <2>3. /\ visit'[h] = j /\ \A g \in Handlers : g # h => visit'[g] = visit[g]
        /\ page'[v] = "waiting" /\ \A w \in Visitors : w # v => page'[w] = page[w]
    BY <2>1 DEF EnquiryInv, EnquiryTypes
  <2>4. AnswersExpected'
    BY <2>1, <2>3 DEF EnquiryInv, AnswersExpected, Awaited
  <2>5. FiledByTheAwaited'
    BY <2>1, <2>3 DEF EnquiryInv, FiledByTheAwaited
  <2>6. FiledOnceThanked'
    BY <2>1, <2>3 DEF EnquiryInv, FiledOnceThanked
  <2> QED  BY <2>2, <2>4, <2>5, <2>6 DEF EnquiryInv
<1>4. ASSUME NEW h \in Handlers, Stores(h)
      PROVE  EnquiryInv'
  <2>1. PICK v \in Visitors : visit[h].visitor = v /\ visit[h].pc = "insert"
    BY <1>0, <1>4 DEF Stores
  <2>2. /\ filed' = [filed EXCEPT ![v] = @ + 1]
        /\ visit' = [visit EXCEPT ![h] = [visit[h] EXCEPT !.pc = "notify"]]
        /\ visit[h] \in Visit
        /\ UNCHANGED <<page, handled, unheard>>
    BY <1>4, <2>1 DEF Stores, EnquiryInv, EnquiryTypes
  <2>3. EnquiryTypes'
    BY <2>2 DEF EnquiryInv, EnquiryTypes
  <2>4. /\ visit'[h].visitor = v /\ visit'[h].heard = visit[h].heard /\ visit'[h].pc = "notify"
        /\ \A g \in Handlers : g # h => visit'[g] = visit[g]
        /\ filed'[v] = filed[v] + 1 /\ filed[v] \in Nat
        /\ \A w \in Visitors : w # v => filed'[w] = filed[w]
    BY <2>1, <2>2 DEF EnquiryInv, EnquiryTypes
  <2>5. AnswersExpected'
    BY <2>1, <2>2, <2>4 DEF EnquiryInv, AnswersExpected, Awaited
  <2>6. v \notin unheard =>
            /\ page[v] = "waiting" /\ filed[v] = 0
            /\ \A g \in Handlers : visit[g].visitor = v => g = h
    BY <2>1 DEF EnquiryInv, AnswersExpected, FiledByTheAwaited, Awaited
  <2>7. FiledByTheAwaited'
    BY <2>1, <2>2, <2>4, <2>6 DEF EnquiryInv, AnswersExpected, FiledByTheAwaited, Awaited
  <2>8. FiledOnceThanked'
    BY <2>1, <2>2, <2>4, <2>6 DEF EnquiryInv, FiledOnceThanked
  <2> QED  BY <2>3, <2>5, <2>7, <2>8 DEF EnquiryInv
<1>5. ASSUME NEW h \in Handlers, Notifies(h) \/ Fails(h)
      PROVE  EnquiryInv'
  <2>1. PICK v \in Visitors : visit[h].visitor = v
    BY <1>0, <1>5 DEF Notifies, Fails
  <2>2. PICK what \in {"thanked", "writing"} :
          /\ page' = IF visit[h].heard THEN [page EXCEPT ![v] = what] ELSE page
          /\ what = "thanked" => visit[h].pc = "notify"
          /\ what = "writing" => visit[h].pc = "insert"
          /\ visit' = [visit EXCEPT ![h] = NoVisit]
          /\ UNCHANGED <<filed, handled, unheard>>
    BY <1>5, <2>1 DEF Notifies, Fails, Hear
  <2>3. EnquiryTypes'
    BY <2>2 DEF EnquiryInv, EnquiryTypes
  <2>4. /\ visit'[h] = NoVisit
        /\ \A g \in Handlers : g # h => visit'[g] = visit[g]
        /\ \A w \in Visitors : w # v => page'[w] = page[w]
        /\ page'[v] = IF visit[h].heard THEN what ELSE page[v]
    BY <2>2 DEF EnquiryInv, EnquiryTypes
  <2>5. AnswersExpected'
    BY <2>1, <2>2, <2>4 DEF EnquiryInv, AnswersExpected, Awaited
  <2>6. FiledByTheAwaited'
    BY <2>1, <2>2, <2>4 DEF EnquiryInv, FiledByTheAwaited
  <2>7. visit[h].pc = "notify" => filed[v] > 0
    BY <2>1 DEF EnquiryInv, AnswersExpected
  <2>8. v \notin unheard => filed[v] = IF visit[h].pc = "notify" THEN 1 ELSE 0
    BY <2>1 DEF EnquiryInv, FiledByTheAwaited
  <2>9. FiledOnceThanked'
    BY <2>2, <2>4, <2>7, <2>8 DEF EnquiryInv, FiledOnceThanked
  <2> QED  BY <2>3, <2>5, <2>6, <2>9 DEF EnquiryInv
<1>6. ASSUME NEW h \in Handlers, AnswerLost(h)
      PROVE  EnquiryInv'
  <2>1. PICK v \in Visitors : visit[h].visitor = v /\ visit[h].heard
    BY <1>0, <1>6 DEF AnswerLost
  <2> DEFINE k == [visit[h] EXCEPT !.heard = FALSE]
  <2>1a. k \in Visit /\ k.visitor = v /\ k.heard = FALSE /\ k.pc = visit[h].pc
    <3>1. visit[h] \in Visit
      BY <1>0, <2>1 DEF EnquiryInv, EnquiryTypes
    <3> QED  BY <2>1, <3>1
  <2> HIDE DEF k
  <2>1b. /\ page' = [page EXCEPT ![v] = "writing"]
        /\ unheard' = unheard \union {v}
        /\ visit' \in {[visit EXCEPT ![h] = k], [visit EXCEPT ![h] = NoVisit]}
        /\ UNCHANGED <<filed, handled>>
    BY <1>6, <2>1 DEF AnswerLost, k
  <2>2. /\ page' = [page EXCEPT ![v] = "writing"]
        /\ unheard' = unheard \union {v}
        /\ visit' = [visit EXCEPT ![h] = k] \/ visit' = [visit EXCEPT ![h] = NoVisit]
        /\ UNCHANGED <<filed, handled>>
    BY <2>1b
  <2>3. EnquiryTypes'
    BY <2>1a, <2>2 DEF EnquiryInv, EnquiryTypes
  <2>4. /\ \/ visit'[h] = NoVisit
           \/ visit'[h].visitor = v /\ ~visit'[h].heard /\ visit'[h].pc = visit[h].pc
        /\ \A g \in Handlers : g # h => visit'[g] = visit[g]
        /\ page'[v] = "writing" /\ \A w \in Visitors : w # v => page'[w] = page[w]
    BY <2>1a, <2>2 DEF EnquiryInv, EnquiryTypes
  <2>5. AnswersExpected'
    BY <2>1, <2>2, <2>4 DEF EnquiryInv, AnswersExpected, Awaited
  <2>6. FiledByTheAwaited'
    BY <2>1, <2>2, <2>4 DEF EnquiryInv, FiledByTheAwaited
  <2>7. FiledOnceThanked'
    BY <2>2, <2>4 DEF EnquiryInv, FiledOnceThanked
  <2> QED  BY <2>3, <2>5, <2>6, <2>7 DEF EnquiryInv
<1>7. ASSUME UNCHANGED <<page, visit, filed, unheard>>
      PROVE  EnquiryInv'
  BY <1>7 DEF EnquiryInv, EnquiryTypes, AnswersExpected, FiledByTheAwaited,
              FiledOnceThanked, Awaited
<1>8. ASSUME NEW v \in Visitors, NEW done \in BOOLEAN, MarkHandled(v, done)
      PROVE  EnquiryInv'
  BY <1>7, <1>8 DEF MarkHandled
<1>9. CASE UNCHANGED enquiryVars
  BY <1>7, <1>9 DEF enquiryVars
<1> QED
  BY <1>1, <1>2, <1>3, <1>4, <1>5, <1>6, <1>8, <1>9 DEF EnquiriesNext

\* For any number of visitors, handlers and messages: who is thanked has the
\* message on file, and without a broken connection it is filed once, and not
\* at all for one who is asked to try again.
THEOREM ThankedIsFiled == EnquiriesSpec => []FiledOnceThanked
<1>1. EnquiryInv => FiledOnceThanked
  BY DEF EnquiryInv
<1> QED  BY <1>1, EnquiryStart, EnquiryStep, PTL DEF EnquiriesSpec

-----------------------------------------------------------------------------
(* The rows of the contact form.                                           *)

Inserting(v) == {h \in Handlers : visit[h].visitor = v /\ visit[h].pc = "insert"}

\* A message has no more rows than the bound, those on their way included.
FiledBounded ==
    /\ handled \subseteq Visitors
    /\ \A v \in Visitors :
          /\ IsFiniteSet(Serving(v))
          /\ filed[v] + Cardinality(Inserting(v)) + (IF page[v] = "posted" THEN 1 ELSE 0)
                <= MaxFiled

\* What the bound on the message of v asks of the three counts.
LEMMA BoundKeeps ==
    ASSUME EnquiryTypes, FiledBounded, EnquiryTypes', NEW v \in Visitors,
           filed'[v] = filed[v], page'[v] = "posted" => page[v] = "posted",
           Serving(v)' \subseteq Serving(v), Inserting(v)' \subseteq Inserting(v)
    PROVE  /\ IsFiniteSet(Serving(v)')
           /\ filed'[v] + Cardinality(Inserting(v)') + (IF page'[v] = "posted" THEN 1 ELSE 0)
                <= MaxFiled
<1>1. IsFiniteSet(Serving(v)) /\ Inserting(v) \subseteq Serving(v)
  BY DEF FiledBounded, Inserting, Serving
<1>2. IsFiniteSet(Inserting(v)) /\ IsFiniteSet(Serving(v)')
  BY <1>1, FewerMembers
<1>3. /\ Cardinality(Inserting(v)') <= Cardinality(Inserting(v))
      /\ Cardinality(Inserting(v)') \in Nat /\ Cardinality(Inserting(v)) \in Nat
  BY <1>2, FewerMembers
<1>4. filed[v] \in Nat
  BY DEF EnquiryTypes
<1>5. filed[v] + Cardinality(Inserting(v)) + (IF page[v] = "posted" THEN 1 ELSE 0) <= MaxFiled
  BY DEF FiledBounded
<1> QED  BY <1>2, <1>3, <1>4, <1>5, FiledAssumption

LEMMA BoundsKeep ==
    ASSUME EnquiryTypes, FiledBounded, EnquiryTypes', handled' \subseteq Visitors,
           \A v \in Visitors : filed'[v] = filed[v],
           \A v \in Visitors : page'[v] = "posted" => page[v] = "posted",
           \A h \in Handlers :
               \/ visit'[h].visitor \notin Visitors
               \/ visit'[h].visitor = visit[h].visitor /\ visit'[h].pc = visit[h].pc
    PROVE  FiledBounded'
<1>1. \A v \in Visitors :
          Serving(v)' \subseteq Serving(v) /\ Inserting(v)' \subseteq Inserting(v)
  BY DEF Serving, Inserting
<1>2. \A v \in Visitors :
          /\ IsFiniteSet(Serving(v)')
          /\ filed'[v] + Cardinality(Inserting(v)') + (IF page'[v] = "posted" THEN 1 ELSE 0)
                <= MaxFiled
  BY <1>1, BoundKeeps
<1> QED  BY <1>2 DEF FiledBounded

LEMMA BoundStep ==
    EnquiryInv /\ FiledBounded /\ [EnquiriesNext]_enquiryVars => FiledBounded'
<1> SUFFICES ASSUME EnquiryInv, FiledBounded, [EnquiriesNext]_enquiryVars PROVE FiledBounded'
  OBVIOUS
<1>1. EnquiryTypes /\ EnquiryTypes'
  BY EnquiryStep DEF EnquiryInv
<1>2. \A h \in Handlers :
          \/ visit[h] = NoVisit
          \/ visit[h] \in Visit /\ visit[h].visitor \in Visitors
  BY <1>1 DEF EnquiryTypes, Visit
<1>3. NoVisit.visitor \notin Visitors
  BY FiledAssumption DEF NoVisit
<1>4. \A v \in Visitors : /\ IsFiniteSet(Serving(v)) /\ IsFiniteSet(Inserting(v))
                          /\ Cardinality(Inserting(v)) <= Cardinality(Serving(v))
                          /\ Cardinality(Inserting(v)) \in Nat /\ Cardinality(Serving(v)) \in Nat
  <2> SUFFICES ASSUME NEW v \in Visitors
               PROVE  /\ IsFiniteSet(Serving(v)) /\ IsFiniteSet(Inserting(v))
                      /\ Cardinality(Inserting(v)) <= Cardinality(Serving(v))
                      /\ Cardinality(Inserting(v)) \in Nat /\ Cardinality(Serving(v)) \in Nat
    OBVIOUS
  <2>1. IsFiniteSet(Serving(v)) /\ Inserting(v) \subseteq Serving(v)
    BY DEF FiledBounded, Inserting, Serving
  <2> QED  BY <2>1, FewerMembers
<1>5. ASSUME NEW v \in Visitors, Submit(v)
      PROVE  FiledBounded'
  <2>1. /\ filed' = filed /\ visit' = visit /\ handled' = handled
        /\ filed[v] + Cardinality(Serving(v)) < MaxFiled
        /\ page' = [page EXCEPT ![v] = "posted"]
    BY <1>5 DEF Submit, Turn
  <2>2. \A w \in Visitors : Serving(w)' = Serving(w) /\ Inserting(w)' = Inserting(w)
    BY <2>1 DEF Serving, Inserting
  <2>3. filed[v] + Cardinality(Inserting(v)) + 1 <= MaxFiled
    BY <1>1, <1>4, <2>1, FiledAssumption DEF EnquiryTypes
  <2>4. \A w \in Visitors : w # v => page'[w] = page[w]
    BY <1>1, <2>1 DEF EnquiryTypes
  <2>5. page'[v] = "posted"
    BY <1>1, <2>1 DEF EnquiryTypes
  <2> QED  BY <2>1, <2>2, <2>3, <2>4, <2>5 DEF FiledBounded
<1>6. ASSUME NEW v \in Visitors, RequestLost(v)
      PROVE  FiledBounded'
  <2>1. /\ \A w \in Visitors : page'[w] = "posted" => page[w] = "posted"
        /\ handled' \subseteq Visitors /\ visit' = visit /\ filed' = filed
    BY <1>1, <1>6 DEF RequestLost, Turn, EnquiryTypes, FiledBounded
  <2> QED  BY <1>1, <2>1, BoundsKeep
<1>7. ASSUME NEW h \in Handlers, NEW v \in Visitors, Arrives(h, v)
      PROVE  FiledBounded'
  <2> DEFINE j == [pc |-> "insert", visitor |-> v, heard |-> TRUE]
  <2>1. /\ j.pc = "insert" /\ j.visitor = v /\ j \in Visit \union {NoVisit}
        /\ visit[h] = NoVisit /\ visit' = [visit EXCEPT ![h] = j]
        /\ filed' = filed /\ handled' = handled
        /\ page[v] = "posted" /\ page' = [page EXCEPT ![v] = "waiting"]
    BY <1>7 DEF Arrives, Turn, Visit
  <2> HIDE DEF j
  <2>2. /\ visit'[h] = j /\ \A g \in Handlers : g # h => visit'[g] = visit[g]
        /\ page'[v] = "waiting" /\ \A w \in Visitors : w # v => page'[w] = page[w]
    BY <1>1, <2>1 DEF EnquiryTypes
  <2>3. ASSUME NEW w \in Visitors, w # v
        PROVE  /\ IsFiniteSet(Serving(w)')
               /\ filed'[w] + Cardinality(Inserting(w)')
                     + (IF page'[w] = "posted" THEN 1 ELSE 0) <= MaxFiled
    <3>1. Serving(w)' \subseteq Serving(w) /\ Inserting(w)' \subseteq Inserting(w)
      BY <2>1, <2>2, <2>3 DEF Serving, Inserting
    <3> QED  BY <1>1, <2>1, <2>2, <2>3, <3>1, BoundKeeps
  <2>4. Serving(v)' \subseteq Serving(v) \union {h} /\ Inserting(v)' \subseteq Inserting(v) \union {h}
    BY <2>1, <2>2 DEF Serving, Inserting
  <2>5. /\ IsFiniteSet(Serving(v)') /\ Cardinality(Inserting(v)') \in Nat
        /\ Cardinality(Inserting(v)') <= Cardinality(Inserting(v)) + 1
    BY <1>4, <2>4, OneMemberMore
  <2>6. filed[v] + Cardinality(Inserting(v)) + 1 <= MaxFiled /\ filed[v] \in Nat
    BY <1>1, <2>1 DEF FiledBounded, EnquiryTypes
  <2>7. filed'[v] + Cardinality(Inserting(v)')
           + (IF page'[v] = "posted" THEN 1 ELSE 0) <= MaxFiled
    BY <1>4, <2>1, <2>2, <2>5, <2>6, FiledAssumption
  <2> QED  BY <2>1, <2>3, <2>5, <2>7 DEF FiledBounded
<1>8. ASSUME NEW h \in Handlers, Stores(h)
      PROVE  FiledBounded'
  <2>1. PICK v \in Visitors : visit[h].visitor = v /\ visit[h].pc = "insert" /\ visit[h] \in Visit
    BY <1>2, <1>8 DEF Stores, NoVisit
  <2>2. /\ filed' = [filed EXCEPT ![v] = @ + 1]
        /\ visit' = [visit EXCEPT ![h] = [visit[h] EXCEPT !.pc = "notify"]]
        /\ page' = page /\ handled' = handled
    BY <1>1, <1>8, <2>1 DEF Stores, EnquiryTypes
  <2>3. /\ visit'[h].visitor = v /\ visit'[h].pc = "notify"
        /\ \A g \in Handlers : g # h => visit'[g] = visit[g]
        /\ filed'[v] = filed[v] + 1 /\ filed[v] \in Nat
        /\ \A w \in Visitors : w # v => filed'[w] = filed[w]
    BY <1>1, <2>1, <2>2 DEF EnquiryTypes, Visit
  <2>4. ASSUME NEW w \in Visitors, w # v
        PROVE  /\ IsFiniteSet(Serving(w)')
               /\ filed'[w] + Cardinality(Inserting(w)')
                     + (IF page'[w] = "posted" THEN 1 ELSE 0) <= MaxFiled
    <3>1. Serving(w)' \subseteq Serving(w) /\ Inserting(w)' \subseteq Inserting(w)
      BY <2>3, <2>4 DEF Serving, Inserting
    <3> QED  BY <1>1, <2>2, <2>3, <2>4, <3>1, BoundKeeps
  <2>5. /\ Serving(v)' \subseteq Serving(v)
        /\ h \in Inserting(v) /\ Inserting(v)' = Inserting(v) \ {h}
    BY <2>1, <2>3 DEF Serving, Inserting
  <2>6. IsFiniteSet(Serving(v)')
    BY <1>4, <2>5, FewerMembers
  <2>7. Cardinality(Inserting(v)') = Cardinality(Inserting(v)) - 1
    BY <1>4, <2>5, FS_RemoveElement
  <2>8. filed[v] + Cardinality(Inserting(v)) + (IF page[v] = "posted" THEN 1 ELSE 0) <= MaxFiled
    BY DEF FiledBounded
  <2>9. filed'[v] + Cardinality(Inserting(v)')
           + (IF page'[v] = "posted" THEN 1 ELSE 0) <= MaxFiled
    BY <1>4, <2>2, <2>3, <2>7, <2>8, FiledAssumption
  <2> QED  BY <2>2, <2>4, <2>6, <2>9 DEF FiledBounded
<1>9. ASSUME NEW h \in Handlers, Notifies(h) \/ Fails(h) \/ AnswerLost(h)
      PROVE  FiledBounded'
  <2>1. /\ \A w \in Visitors : page'[w] = "posted" => page[w] = "posted"
        /\ handled' \subseteq Visitors /\ filed' = filed
    BY <1>1, <1>9 DEF Notifies, Fails, AnswerLost, Hear, Turn, EnquiryTypes, FiledBounded
  <2>2. \/ visit' = [visit EXCEPT ![h] = NoVisit]
        \/ visit' = [visit EXCEPT ![h].heard = FALSE] /\ visit[h].heard
    BY <1>9 DEF Notifies, Fails, AnswerLost, Leave
  <2>3. \A g \in Handlers :
            \/ visit'[g].visitor \notin Visitors
            \/ visit'[g].visitor = visit[g].visitor /\ visit'[g].pc = visit[g].pc
    <3>1. \A g \in Handlers : g # h => visit'[g] = visit[g]
      BY <1>1, <2>2 DEF EnquiryTypes
    <3>2. CASE visit' = [visit EXCEPT ![h] = NoVisit]
      <4>1. visit'[h] = NoVisit
        BY <1>1, <3>2 DEF EnquiryTypes
      <4> QED  BY <1>3, <3>1, <4>1
    <3>3. CASE visit' = [visit EXCEPT ![h].heard = FALSE] /\ visit[h].heard
      <4>1. visit[h] \in Visit
        BY <1>2, <3>3 DEF NoVisit
      <4>2. visit'[h].visitor = visit[h].visitor /\ visit'[h].pc = visit[h].pc
        BY <1>1, <3>3, <4>1 DEF EnquiryTypes, Visit
      <4> QED  BY <3>1, <4>2
    <3> QED  BY <2>2, <3>2, <3>3
  <2> QED  BY <1>1, <2>1, <2>3, BoundsKeep
<1>10. ASSUME NEW v \in Visitors, NEW done \in BOOLEAN, MarkHandled(v, done)
      PROVE  FiledBounded'
  <2>1. page' = page /\ visit' = visit /\ filed' = filed /\ handled' \subseteq Visitors
    BY <1>10 DEF MarkHandled, FiledBounded
  <2> QED  BY <1>1, <2>1, BoundsKeep
<1>11. CASE UNCHANGED enquiryVars
  <2>1. page' = page /\ visit' = visit /\ filed' = filed /\ handled' \subseteq Visitors
    BY <1>11 DEF enquiryVars, FiledBounded
  <2> QED  BY <1>1, <2>1, BoundsKeep
<1> QED
  BY <1>5, <1>6, <1>7, <1>8, <1>9, <1>10, <1>11 DEF EnquiriesNext

LEMMA BoundStart == EnquiriesInit => FiledBounded
<1> SUFFICES ASSUME EnquiriesInit PROVE FiledBounded
  OBVIOUS
<1>1. \A v \in Visitors : Serving(v) = {} /\ Inserting(v) = {}
  BY FiledAssumption DEF EnquiriesInit, Serving, Inserting, NoVisit
<1>2. IsFiniteSet({}) /\ Cardinality({}) = 0
  BY FS_EmptySet
<1>3. \A v \in Visitors : filed[v] = 0 /\ page[v] # "posted"
  BY DEF EnquiriesInit
<1>4. handled \subseteq Visitors
  BY DEF EnquiriesInit
<1> QED  BY <1>1, <1>2, <1>3, <1>4, FiledAssumption DEF FiledBounded

\* The visits keep their types, and a message its bound on rows.
THEOREM EnquiriesTypeCorrect == EnquiriesSpec => []EnquiriesTypeOK
<1>1. EnquiryInv /\ FiledBounded => EnquiriesTypeOK
  <2> SUFFICES ASSUME EnquiryInv, FiledBounded PROVE EnquiriesTypeOK
    OBVIOUS
  <2>1. ASSUME NEW v \in Visitors
        PROVE  filed[v] \in 0..MaxFiled
    <3>1. IsFiniteSet(Inserting(v))
      <4>1. IsFiniteSet(Serving(v)) /\ Inserting(v) \subseteq Serving(v)
        BY DEF FiledBounded, Serving, Inserting
      <4> QED  BY <4>1, FewerMembers
    <3>2. Cardinality(Inserting(v)) \in Nat /\ filed[v] \in Nat
      BY <3>1, FS_CardinalityType DEF EnquiryInv, EnquiryTypes
    <3>3. filed[v] + Cardinality(Inserting(v)) + (IF page[v] = "posted" THEN 1 ELSE 0) <= MaxFiled
      BY DEF FiledBounded
    <3> QED  BY <3>2, <3>3, FiledAssumption
  <2>2. filed \in [Visitors -> 0..MaxFiled]
    BY <2>1 DEF EnquiryInv, EnquiryTypes
  <2> QED  BY <2>2 DEF EnquiryInv, EnquiryTypes, EnquiriesTypeOK, FiledBounded
<1> QED  BY <1>1, EnquiryStart, EnquiryStep, BoundStart, BoundStep, PTL DEF EnquiriesSpec

-----------------------------------------------------------------------------
(* The forms of the dashboard.                                             *)

\* What the forms have in common: a modal closes with the answer; a card that
\* adds rows is emptied by its submission and edits none; a card that is
\* emptied has no preset field.
FormFits(f) ==
    /\ f.modal \in BOOLEAN /\ f.adds \in BOOLEAN /\ f.edits \in BOOLEAN /\ f.owns \in BOOLEAN
    /\ f.clears \in {"answer", "submit", "never"}
    /\ f.modal => f.clears = "answer"
    /\ ~f.modal /\ f.adds => f.clears = "submit"
    /\ ~f.modal /\ f.clears # "never" => f.preset = {}
    /\ ~f.modal => f.adds # f.edits
    /\ f.adds => f.ignored = {}
    /\ f.required \intersect (f.optional \union f.ignored) = {}
    /\ f.filled \subseteq f.optional

LEMMA FormsFit == \A name \in DOMAIN Forms : FormFits(Forms[name])
<1>1. FormFits(ScheduleForm)
  BY DEF FormFits, ScheduleForm, Fields
<1>2. FormFits(LoanForm)
  BY DEF FormFits, LoanForm, Fields
<1>3. FormFits(DealForm)
  BY DEF FormFits, DealForm, Fields
<1>4. FormFits(AnnouncementForm)
  BY DEF FormFits, AnnouncementForm, Fields
<1>5. FormFits(CreateUniversityModal) /\ FormFits(CreateAdminModal) /\ FormFits(InviteModal)
  BY DEF FormFits, CreateUniversityModal, CreateAdminModal, InviteModal, Fields
<1>6. FormFits(CreateStudentModal)
  BY DEF FormFits, CreateStudentModal, Fields
<1>7. FormFits(ContactsCard)
  BY DEF FormFits, ContactsCard, Fields
<1>8. FormFits(BrandingCard)
  BY DEF FormFits, BrandingCard, Fields
<1>9. FormFits(SettingsPassword) /\ FormFits(ForcedPasswordChange)
  BY DEF FormFits, SettingsPassword, ForcedPasswordChange, Fields
<1> QED
  BY <1>1, <1>2, <1>3, <1>4, <1>5, <1>6, <1>7, <1>8, <1>9 DEF Forms

\* The field followed is one of the form.
LEMMA FieldOfForm ==
    ASSUME NEW f, NEW x \in FieldsOf(f)
    PROVE  x \in f.required \union f.ignored \union f.filled \union f.optional \union f.preset
<1>1. PICK class \in Classes(f) : x = CHOOSE y \in class : TRUE
  BY DEF FieldsOf
<1>2. x \in class
  BY <1>1 DEF Classes
<1> QED  BY <1>2 DEF Classes

Creating(s) == call[s] # NoCall /\ call[s].mode = "create"

View == [mode : {"closed", "create", "edit"}, text : Texts, draft : 0..MaxDrafts]
Submission ==
    [pc : {"sent", "stored", "refused"}, mode : {"create", "edit"}, draft : Drafts,
     text : Texts, made : {"none"} \union Texts, alone : BOOLEAN]

\* A text that can be on screen, or sent.
Typable(text)   == field \in F.preset \ F.optional => text # ""
Submitted(text) == field \in F.required => text # ""

\* The types, and what a form on screen and a submission owe to the form.
FormsTyped ==
    /\ form \in DOMAIN Forms /\ field \in FieldsOf(F)
    /\ IF F.edits THEN saved \in Storable /\ listed \in Storable
                  ELSE saved = "none" /\ listed = "none"
    /\ view \in View
    /\ view.mode # "closed" => view.draft \in Drafts /\ Typable(view.text)
    /\ view.mode = "edit" => F.edits
    /\ view.mode = "create" => F.adds
    /\ call \in [Calls -> Submission \union {NoCall}]
    /\ \A s \in Calls : call[s] # NoCall =>
          /\ Submitted(call[s].text) /\ Typable(call[s].text)
          /\ call[s].mode = "edit" => F.edits
          /\ call[s].mode = "create" => F.adds
    /\ rows \in [Drafts -> {0, 1}]

\* Creations are of different drafts; the row of one is there from its storing.
\* A draft on screen that has its row waits for the answer of that creation.
DraftsApart ==
    /\ \A s, t \in Calls :
          Creating(s) /\ Creating(t) /\ s # t => F.owns /\ call[s].draft # call[t].draft
    /\ \A s \in Calls :
          Creating(s) => rows[call[s].draft] = IF call[s].pc = "stored" THEN 1 ELSE 0
    /\ view.mode = "create" /\ rows[view.draft] = 1 =>
          \E s \in Calls : Creating(s) /\ call[s].pc = "stored" /\ call[s].draft = view.draft
    /\ F.clears = "submit" /\ view.mode = "create" =>
          \A s \in Calls : Creating(s) => call[s].draft # view.draft

FormsInv == FormsTyped /\ DraftsApart /\ TypedIsStored

\* What a step leaves as it is.
LEMMA FormStays ==
    ASSUME form' = form, field' = field
    PROVE  /\ F' = F /\ Storable' = Storable /\ Initially' = Initially
           /\ \A text : Typable(text)' = Typable(text) /\ Submitted(text)' = Submitted(text)
  BY DEF F, Storable, Initially, Typable, Submitted

\* A draft that starts has no row and no submission.
LEMMA NewDraft ==
    ASSUME NEW d \in NextDraft
    PROVE  /\ d \in Drafts /\ d # view.draft /\ ~(rows[d] > 0)
           /\ \A s \in Calls : call[s] # NoCall => call[s].draft # d
  BY DEF NextDraft, Drafted

\* The field of the form followed, and what its row can hold.
LEMMA FieldFits ==
    ASSUME FormsTyped
    PROVE  /\ FormFits(F) /\ Storable \subseteq Texts /\ Initially \in Texts
           /\ Typable(Initially)
           /\ \A text \in Texts : Typable(text) /\ Submitted(text)
                  /\ ~(field \in F.optional /\ text = "") /\ field \notin F.ignored
                  => text \in Storable
           /\ \A text \in Storable : Typable(text)
<1>1. FormFits(F)
  BY FormsFit DEF FormsTyped, F
<1>2. field \in F.required \union F.ignored \union F.filled \union F.optional \union F.preset
  BY FieldOfForm DEF FormsTyped
<1> QED
  BY <1>1, <1>2 DEF FormFits, Storable, Typable, Submitted, Initially, Texts

LEMMA FormsStart == FormsInit => FormsInv
<1> SUFFICES ASSUME FormsInit PROVE FormsInv
  OBVIOUS
<1>1. FormFits(F)
  BY FormsFit DEF FormsInit, F
<1>2. 1 \in Drafts /\ 1 \in 0..MaxDrafts /\ 0 \in 0..MaxDrafts
  BY FormsAssumption DEF Drafts
<1>3. /\ Initially \in Texts /\ Typable(Initially)
      /\ Storable \subseteq Texts /\ \A text \in Storable : Typable(text)
  BY <1>1 DEF FormFits, Initially, Typable, Storable, Texts
<1>4. IF F.edits THEN saved \in Storable /\ listed \in Storable
                 ELSE saved = "none" /\ listed = "none"
  BY DEF FormsInit
<1>5. form = "branding" => ~F.modal /\ F.edits
  <2>1. form = "branding" => F = BrandingCard
    BY DEF F, Forms
  <2>2. ~BrandingCard.modal /\ BrandingCard.edits
    BY DEF BrandingCard, Fields
  <2> QED  BY <2>1, <2>2
<1>6. /\ view \in View
      /\ view.mode # "closed" => view.draft \in Drafts /\ Typable(view.text)
      /\ view.mode = "edit" => F.edits
      /\ view.mode = "create" => F.adds
  <2>1. CASE F.modal
    BY <1>2, <2>1 DEF FormsInit, View, Closed, Texts
  <2>2. CASE ~F.modal
    <3> DEFINE mode == IF F.adds THEN "create" ELSE "edit"
               text == IF form = "branding" THEN saved ELSE Initially
    <3>1. text \in Texts /\ Typable(text)
      BY <1>3, <1>4, <1>5
    <3>2. mode \in {"create", "edit"} /\ (mode = "create" => F.adds) /\ (mode = "edit" => F.edits)
      BY <1>1, <2>2 DEF FormFits
    <3>3. view = [mode |-> mode, text |-> text, draft |-> 1]
      BY <2>2 DEF FormsInit
    <3> HIDE DEF mode, text
    <3> QED  BY <1>2, <3>1, <3>2, <3>3 DEF View
  <2> QED  BY <2>1, <2>2
<1>7. /\ call \in [Calls -> Submission \union {NoCall}]
      /\ \A s \in Calls : call[s] = NoCall
      /\ rows \in [Drafts -> {0, 1}]
      /\ \A d \in Drafts : rows[d] = 0
  BY DEF FormsInit
<1>8. FormsTyped
  BY <1>4, <1>6, <1>7 DEF FormsInit, FormsTyped
<1>9. DraftsApart
  <2>1. view.mode = "create" => rows[view.draft] # 1
    BY <1>6, <1>7
  <2> QED  BY <1>7, <2>1 DEF DraftsApart, Creating
<1>10. TypedIsStored
  BY <1>7 DEF TypedIsStored
<1> QED  BY <1>8, <1>9, <1>10 DEF FormsInv

\* The form on screen changes, and no submission.
LEMMA ScreenStep ==
    ASSUME FormsInv, view' \in View,
           UNCHANGED <<form, field, saved, listed, call, rows>>,
           view'.mode # "closed" => view'.draft \in Drafts /\ Typable(view'.text),
           view'.mode = "edit" => F.edits,
           view'.mode = "create" =>
               \/ view.mode = "create" /\ view'.draft = view.draft
               \/ F.adds /\ view'.draft \in NextDraft
    PROVE  FormsInv'
<1>1. FormsTyped'
  BY FormStays DEF FormsInv, FormsTyped
<1>2. TypedIsStored'
  BY FormStays DEF FormsInv, TypedIsStored
<1>3. view'.mode = "create" =>
          \/ view.mode = "create" /\ view'.draft = view.draft
          \/ /\ ~(rows[view'.draft] > 0)
             /\ \A s \in Calls : call[s] # NoCall => call[s].draft # view'.draft
  BY NewDraft
<1>4. \A s \in Calls : Creating(s)' = Creating(s)
  BY DEF Creating
<1>5. DraftsApart'
  BY <1>3, <1>4, FormStays DEF FormsInv, DraftsApart, Creating
<1> QED  BY <1>1, <1>2, <1>5 DEF FormsInv

LEMMA SubmissionShapes ==
    /\ NoCall.pc = "idle"
    /\ \A c \in Submission : c # NoCall
  BY DEF NoCall, Submission

\* Drafts stay apart while the submissions in flight, the rows and the draft on
\* screen stay as they are.
LEMMA DraftsKeep ==
    ASSUME DraftsApart, form' = form, rows' = rows,
           view'.mode = "create" => view.mode = "create" /\ view'.draft = view.draft,
           \A s \in Calls :
               call'[s] # NoCall /\ call'[s].mode = "create" <=> Creating(s),
           \A s \in Calls : Creating(s) =>
               /\ call'[s].draft = call[s].draft
               /\ call'[s].pc = "stored" <=> call[s].pc = "stored"
    PROVE  DraftsApart'
<1>1. F' = F
  BY DEF F
<1>2. \A s, t \in Calls : Creating(s)' /\ Creating(t)' /\ s # t =>
          F.owns /\ call'[s].draft # call'[t].draft
  BY DEF DraftsApart, Creating
<1>3. \A s \in Calls : Creating(s)' =>
          rows'[call'[s].draft] = IF call'[s].pc = "stored" THEN 1 ELSE 0
  <2> SUFFICES ASSUME NEW s \in Calls, Creating(s)'
               PROVE  rows'[call'[s].draft] = IF call'[s].pc = "stored" THEN 1 ELSE 0
    OBVIOUS
  <2>1. rows[call[s].draft] = IF call[s].pc = "stored" THEN 1 ELSE 0
    BY DEF DraftsApart, Creating, Creating
  <2> QED  BY <2>1 DEF Creating
<1>4. view'.mode = "create" /\ rows'[view'.draft] = 1 =>
          \E s \in Calls : Creating(s)' /\ call'[s].pc = "stored" /\ call'[s].draft = view'.draft
  BY DEF DraftsApart, Creating
<1>5. F.clears = "submit" /\ view'.mode = "create" =>
          \A s \in Calls : Creating(s)' => call'[s].draft # view'.draft
  BY DEF DraftsApart, Creating
<1> QED  BY <1>1, <1>2, <1>3, <1>4, <1>5 DEF DraftsApart

\* Another save reached the row: the submissions in flight are not alone.
LEMMA SupersededFits ==
    ASSUME FormsTyped, NEW s \in Calls
    PROVE  /\ Superseded[s] \in Submission \union {NoCall}
           /\ Superseded[s] = NoCall <=> call[s] = NoCall
           /\ call[s] # NoCall =>
                 /\ Superseded[s].pc = call[s].pc /\ Superseded[s].mode = call[s].mode
                 /\ Superseded[s].draft = call[s].draft /\ Superseded[s].text = call[s].text
                 /\ Superseded[s].alone = FALSE
<1>1. call[s] \in Submission \union {NoCall}
  BY DEF FormsTyped
<1>2. CASE call[s] = NoCall
  BY <1>2 DEF Superseded
<1>3. CASE call[s] \in Submission
  <2> DEFINE c == [call[s] EXCEPT !.alone = FALSE]
  <2>1. /\ c \in Submission /\ c.pc = call[s].pc /\ c.mode = call[s].mode
        /\ c.draft = call[s].draft /\ c.text = call[s].text /\ c.alone = FALSE
    BY <1>3 DEF Submission
  <2>2. Superseded[s] = c
    BY <1>3, SubmissionShapes DEF Superseded
  <2> QED  BY <1>3, <2>1, <2>2, SubmissionShapes
<1> QED  BY <1>1, <1>2, <1>3

\* What the API makes of a submission.
LEMMA StoredFits ==
    ASSUME FormsTyped, NEW c \in Submission, Submitted(c.text), Typable(c.text)
    PROVE  /\ c.mode = "create" =>
                /\ Stored(c) \in Texts
                /\ Stored(c) = c.text \/ (c.text = "" /\ field \in F.filled)
           /\ c.mode = "edit" /\ F.edits =>
                /\ Stored(c) \in Storable
                /\ Stored(c) = c.text \/ field \in F.ignored \/ c.text = ""
<1>1. c.text \in Texts /\ c.mode \in {"create", "edit"}
  BY DEF Submission
<1>2. c.mode = "create" => Stored(c) = IF field \in F.optional /\ c.text = "" /\ field \in F.filled
                                       THEN "x" ELSE c.text
  BY DEF Stored
<1>3. c.mode = "edit" => Stored(c) = IF (field \in F.optional /\ c.text = "") \/ field \in F.ignored
                                     THEN saved ELSE c.text
  BY DEF Stored
<1>4. F.edits => saved \in Storable
  BY DEF FormsTyped
<1>5. ~(field \in F.optional /\ c.text = "") /\ field \notin F.ignored => c.text \in Storable
  BY <1>1, FieldFits
<1> QED  BY <1>1, <1>2, <1>3, <1>4, <1>5 DEF Texts

LEMMA FormsStep == FormsInv /\ [FormsNext]_formVars => FormsInv'
<1> SUFFICES ASSUME FormsInv, [FormsNext]_formVars PROVE FormsInv'
  OBVIOUS
<1>a. FormsTyped /\ DraftsApart /\ TypedIsStored /\ FormFits(F)
  BY FieldFits DEF FormsInv
<1>1. ASSUME NEW mode \in {"create", "edit"}, NEW text \in Texts, Typable(text), Opens(mode, text),
             IF mode = "create" THEN F.adds ELSE F.edits
      PROVE  FormsInv'
  <2>1. PICK d \in NextDraft : view' = [mode |-> mode, text |-> text, draft |-> d]
    BY <1>1 DEF Opens
  <2>2. d \in Drafts /\ d \in 0..MaxDrafts
    BY <2>1, NewDraft, FormsAssumption DEF Drafts
  <2>3. view' \in View /\ view'.draft = d /\ view'.mode = mode /\ view'.text = text
    BY <2>1, <2>2 DEF View
  <2> QED  BY <1>1, <2>1, <2>2, <2>3, ScreenStep DEF Opens
<1>2. CASE OpenCreate
  BY <1>1, <1>2, FieldFits, <1>a DEF OpenCreate
<1>3. CASE OpenEdit
  <2>1. F.edits /\ listed \in Texts /\ Typable(listed)
    BY <1>3, <1>a, FieldFits DEF OpenEdit, FormsTyped
  <2> QED  BY <1>1, <1>3, <2>1 DEF OpenEdit
<1>4. ASSUME NEW text \in {"", "x"}, Type(text)
      PROVE  FormsInv'
  <2>1. /\ view' = [view EXCEPT !.text = text] /\ view.mode # "closed"
        /\ Typable(text) /\ text \in Texts
    BY <1>4 DEF Type, Typable, Texts
  <2>2. view' \in View /\ view'.mode = view.mode /\ view'.draft = view.draft /\ view'.text = text
    BY <2>1, <1>a DEF FormsTyped, View
  <2> QED  BY <1>4, <1>a, <2>1, <2>2, ScreenStep DEF Type, FormsTyped
<1>5. CASE Cancel
  <2>1. view' \in View /\ view'.mode = "closed"
    BY <1>5, <1>a DEF Cancel, FormsTyped, View, Texts
  <2> QED  BY <1>5, <2>1, ScreenStep DEF Cancel
<1>6. CASE Refetch
  <2>1. listed' = saved /\ UNCHANGED <<form, field, saved, view, call, rows>>
    BY <1>6 DEF Refetch
  <2>2. FormsTyped'
    BY <1>a, <2>1, FormStays DEF FormsTyped
  <2>3. TypedIsStored'
    BY <1>a, <2>1, FormStays DEF TypedIsStored
  <2>4. DraftsApart'
    BY <1>a, <2>1, DraftsKeep DEF Creating
  <2> QED  BY <2>2, <2>3, <2>4 DEF FormsInv
<1>7. CASE ColleagueSaves
  <2>1. /\ F.edits /\ saved' = "y" /\ call' = Superseded
        /\ UNCHANGED <<form, field, listed, view, rows>>
    BY <1>7 DEF ColleagueSaves
  <2>2. "y" \in Storable
    BY DEF Storable, Texts
  <2>3. DOMAIN call' = Calls /\ call' = [s \in Calls |-> call'[s]]
    BY <2>1 DEF Superseded
  <2>4. FormsTyped'
    <3>1. call' \in [Calls -> Submission \union {NoCall}]
      BY <1>a, <2>1, <2>3, SupersededFits
    <3>2. \A s \in Calls : call'[s] # NoCall =>
              /\ Submitted(call'[s].text) /\ Typable(call'[s].text)
              /\ call'[s].mode = "edit" => F.edits
              /\ call'[s].mode = "create" => F.adds
      BY <1>a, <2>1, SupersededFits DEF FormsTyped
    <3> QED  BY <1>a, <2>1, <2>2, <3>1, <3>2, FormStays DEF FormsTyped
  <2>5. TypedIsStored'
    BY <1>a, <2>1, SupersededFits DEF TypedIsStored
  <2>6. DraftsApart'
    BY <1>a, <2>1, DraftsKeep, SupersededFits DEF Creating
  <2> QED  BY <2>4, <2>5, <2>6 DEF FormsInv
<1>8. ASSUME NEW s \in Calls, Submits(s)
      PROVE  FormsInv'
  <2> DEFINE c == [pc |-> "sent", mode |-> view.mode, draft |-> view.draft, text |-> view.text,
                   made |-> "none", alone |-> TRUE]
  <2>1. /\ view.mode \in {"create", "edit"} /\ view.draft \in Drafts /\ Typable(view.text)
        /\ Submitted(view.text) /\ view.text \in Texts
        /\ ~Pending /\ call[s] = NoCall
        /\ UNCHANGED <<form, field, saved, listed, rows>>
    BY <1>8, <1>a DEF Submits, FormsTyped, View, Submitted
  <2>2. /\ c \in Submission /\ c # NoCall /\ c.pc = "sent" /\ c.mode = view.mode
        /\ c.draft = view.draft /\ c.text = view.text
    BY <2>1, SubmissionShapes DEF Submission
  <2>3. call' = [call EXCEPT ![s] = c]
    BY <1>8 DEF Submits
  <2> HIDE DEF c
  <2>4. /\ call' \in [Calls -> Submission \union {NoCall}]
        /\ call'[s] = c
        /\ \A t \in Calls : t # s => call'[t] = call[t]
    BY <1>a, <2>2, <2>3 DEF FormsTyped
  <2>5. IF F.clears = "submit"
        THEN \E d \in NextDraft : view' = [view EXCEPT !.text = "", !.draft = d]
        ELSE view' = view
    BY <1>8 DEF Submits
  <2>6. /\ view' \in View /\ view'.mode = view.mode
        /\ view'.draft \in Drafts /\ Typable(view'.text)
        /\ F.clears # "submit" => view' = view
        /\ F.clears = "submit" =>
              /\ view'.draft # view.draft /\ ~(rows[view'.draft] > 0)
              /\ \A t \in Calls : call[t] # NoCall => call[t].draft # view'.draft
    <3>1. CASE F.clears = "submit"
      <4>1. PICK d \in NextDraft : view' = [view EXCEPT !.text = "", !.draft = d]
        BY <2>5, <3>1
      <4>2. /\ d \in Drafts /\ d \in 0..MaxDrafts /\ d # view.draft /\ ~(rows[d] > 0)
            /\ \A t \in Calls : call[t] # NoCall => call[t].draft # d
        BY NewDraft, FormsAssumption DEF Drafts
      <4>3. /\ view' \in View /\ view'.mode = view.mode /\ view'.draft = d /\ view'.text = ""
        BY <1>a, <4>1, <4>2 DEF FormsTyped, View, Texts
      <4>4. Typable("")
        BY <1>a, <3>1 DEF FormFits, Typable
      <4> QED  BY <4>2, <4>3, <4>4, <3>1
    <3>2. CASE F.clears # "submit"
      BY <2>1, <2>5, <3>2, <1>a DEF FormsTyped
    <3> QED  BY <3>1, <3>2
  <2>7. FormsTyped'
    <3>1. \A t \in Calls : call'[t] # NoCall =>
              /\ Submitted(call'[t].text) /\ Typable(call'[t].text)
              /\ call'[t].mode = "edit" => F.edits
              /\ call'[t].mode = "create" => F.adds
      BY <1>a, <2>1, <2>2, <2>4 DEF FormsTyped
    <3> QED  BY <1>a, <2>1, <2>4, <2>6, <3>1, FormStays DEF FormsTyped
  <2>8. TypedIsStored'
    BY <1>a, <2>1, <2>2, <2>4, FormStays DEF TypedIsStored
  <2>9. view.mode = "create" => /\ \A t \in Calls : Creating(t) =>
                                      F.owns /\ call[t].draft # view.draft
                                /\ rows[view.draft] = 0
    <3>1. view.mode = "create" => \A t \in Calls : Creating(t) =>
              F.owns /\ call[t].draft # view.draft
      BY <2>1 DEF Pending, Creating
    <3>2. view.mode = "create" => rows[view.draft] # 1
      BY <1>a, <3>1 DEF DraftsApart, Creating
    <3> QED  BY <1>a, <2>1, <3>1, <3>2 DEF FormsTyped
  <2>10. DraftsApart'
    <3>1. \A t \in Calls : call'[t] # NoCall /\ call'[t].mode = "create" =>
              (t = s /\ view.mode = "create") \/ (t # s /\ Creating(t))
      BY <2>2, <2>4 DEF Creating
    <3>2. F' = F
      BY <2>1, FormStays
    <3>3. \A t, u \in Calls : Creating(t)' /\ Creating(u)' /\ t # u =>
              F.owns /\ call'[t].draft # call'[u].draft
      BY <1>a, <2>2, <2>4, <2>9, <3>1 DEF DraftsApart, Creating
    <3>4. \A t \in Calls : Creating(t)' =>
              rows[call'[t].draft] = IF call'[t].pc = "stored" THEN 1 ELSE 0
      <4> SUFFICES ASSUME NEW t \in Calls, Creating(t)'
                   PROVE  rows[call'[t].draft] = IF call'[t].pc = "stored" THEN 1 ELSE 0
        OBVIOUS
      <4>1. CASE t = s
        BY <2>2, <2>4, <2>9, <3>1, <4>1 DEF Creating
      <4>2. CASE t # s
        BY <1>a, <2>4, <3>1, <4>2 DEF DraftsApart, Creating
      <4> QED  BY <4>1, <4>2
    <3>5. view'.mode = "create" => rows[view'.draft] # 1
      BY <2>6, <2>9
    <3>6. F.clears = "submit" /\ view'.mode = "create" =>
              \A t \in Calls : Creating(t)' => call'[t].draft # view'.draft
      BY <2>2, <2>4, <2>6, <3>1 DEF Creating
    <3> QED  BY <2>1, <3>2, <3>3, <3>4, <3>5, <3>6 DEF DraftsApart
  <2> QED  BY <2>7, <2>8, <2>10 DEF FormsInv
<1>9. ASSUME NEW s \in Calls, Saves(s)
      PROVE  FormsInv'
  <2> DEFINE value == Stored(call[s])
             stored == [call[s] EXCEPT !.pc = "stored", !.made = value]
             alone == [call[s] EXCEPT !.pc = "stored", !.alone = TRUE]
  <2>1. /\ call[s] \in Submission /\ call[s] # NoCall /\ call[s].pc = "sent"
        /\ Submitted(call[s].text) /\ Typable(call[s].text)
        /\ call[s].mode = "edit" => F.edits
        /\ UNCHANGED <<form, field, listed, view>>
    BY <1>9, <1>a, SubmissionShapes DEF Saves, FormsTyped
  <2>2. CASE call[s].mode = "create"
    <3>1. /\ value \in Texts
          /\ value = call[s].text \/ (call[s].text = "" /\ field \in F.filled)
      BY <1>a, <2>1, <2>2, StoredFits
    <3>2. /\ call' = [call EXCEPT ![s].pc = "stored", ![s].made = value]
          /\ rows' = [rows EXCEPT ![call[s].draft] = @ + 1] /\ saved' = saved
      BY <1>9, <2>2 DEF Saves
    <3> HIDE DEF value
    <3>3. /\ stored \in Submission /\ stored # NoCall /\ stored.pc = "stored"
          /\ stored.mode = "create" /\ stored.draft = call[s].draft
          /\ stored.text = call[s].text /\ stored.made = value
      BY <2>1, <2>2, <3>1, SubmissionShapes DEF Submission
    <3>4. /\ call' \in [Calls -> Submission \union {NoCall}]
          /\ call'[s] = stored
          /\ \A t \in Calls : t # s => call'[t] = call[t]
      BY <1>a, <3>2, <3>3 DEF FormsTyped
    <3> HIDE DEF stored
    <3>5. call[s].draft \in Drafts /\ rows[call[s].draft] = 0
      BY <1>a, <2>1, <2>2 DEF Submission, DraftsApart, Creating
    <3>6. /\ rows' \in [Drafts -> {0, 1}] /\ rows'[call[s].draft] = 1
          /\ \A d \in Drafts : d # call[s].draft => rows'[d] = rows[d]
      BY <1>a, <3>2, <3>5 DEF FormsTyped
    <3>7. FormsTyped'
      <4>1. \A t \in Calls : call'[t] # NoCall =>
                /\ Submitted(call'[t].text) /\ Typable(call'[t].text)
                /\ call'[t].mode = "edit" => F.edits
                /\ call'[t].mode = "create" => F.adds
        BY <1>a, <2>1, <2>2, <3>3, <3>4 DEF FormsTyped
      <4> QED  BY <1>a, <2>1, <3>2, <3>4, <3>6, <4>1, FormStays DEF FormsTyped
    <3>8. TypedIsStored'
      <4>1. F' = F
        BY <2>1, FormStays
      <4> SUFFICES ASSUME NEW t \in Calls, call'[t] # NoCall, call'[t].pc = "stored", call'[t].alone
                   PROVE  \/ (IF call'[t].mode = "create" THEN call'[t].made ELSE saved') = call'[t].text
                          \/ field \in F.ignored
                          \/ call'[t].text = "" /\ (call'[t].mode = "edit" \/ field \in F.filled)
        BY <2>1, <4>1 DEF TypedIsStored
      <4>2. CASE t = s
        BY <3>1, <3>3, <3>4, <4>2
      <4>3. CASE t # s
        BY <1>a, <3>2, <3>4, <4>3 DEF TypedIsStored
      <4> QED  BY <4>2, <4>3
    <3>9. DraftsApart'
      <4>1. F' = F
        BY <2>1, FormStays
      <4>2. \A t \in Calls : t # s /\ Creating(t) =>
                call[t].draft # call[s].draft /\ call[t].draft \in Drafts /\ F.owns
        BY <1>a, <2>1, <2>2, SubmissionShapes DEF DraftsApart, Creating, FormsTyped, Submission
      <4>3. \A t, u \in Calls : Creating(t)' /\ Creating(u)' /\ t # u =>
                F.owns /\ call'[t].draft # call'[u].draft
        BY <1>a, <3>3, <3>4, <4>2 DEF DraftsApart, Creating
      <4>4. \A t \in Calls : Creating(t)' =>
                rows'[call'[t].draft] = IF call'[t].pc = "stored" THEN 1 ELSE 0
        <5> SUFFICES ASSUME NEW t \in Calls, Creating(t)'
                     PROVE  rows'[call'[t].draft] = IF call'[t].pc = "stored" THEN 1 ELSE 0
          OBVIOUS
        <5>1. CASE t = s
          BY <3>3, <3>4, <3>6, <5>1
        <5>2. CASE t # s
          BY <1>a, <3>4, <3>6, <4>2, <5>2 DEF DraftsApart, Creating
        <5> QED  BY <5>1, <5>2
      <4>5. view'.mode = "create" /\ rows'[view'.draft] = 1 =>
                \E t \in Calls : /\ Creating(t)' /\ call'[t].pc = "stored"
                                 /\ call'[t].draft = view'.draft
        <5> SUFFICES ASSUME view.mode = "create", rows'[view.draft] = 1
                     PROVE  \E t \in Calls : /\ Creating(t)' /\ call'[t].pc = "stored"
                                             /\ call'[t].draft = view.draft
          BY <2>1
        <5>1. CASE view.draft = call[s].draft
          BY <3>3, <3>4, <5>1 DEF Creating
        <5>2. CASE view.draft # call[s].draft
          <6>1. rows[view.draft] = 1
            BY <1>a, <3>6, <5>2 DEF FormsTyped
          <6>2. PICK t \in Calls : Creating(t) /\ call[t].pc = "stored" /\ call[t].draft = view.draft
            BY <1>a, <6>1 DEF DraftsApart
          <6>3. t # s /\ call'[t] = call[t]
            BY <3>4, <5>2, <6>2
          <6> QED  BY <6>2, <6>3 DEF Creating
        <5> QED  BY <5>1, <5>2
      <4>6. F.clears = "submit" /\ view'.mode = "create" =>
                \A t \in Calls : Creating(t)' => call'[t].draft # view'.draft
        BY <1>a, <2>1, <2>2, <3>3, <3>4 DEF DraftsApart, Creating
      <4> QED  BY <4>1, <4>3, <4>4, <4>5, <4>6 DEF DraftsApart
    <3> QED  BY <3>7, <3>8, <3>9 DEF FormsInv
  <2>3. CASE call[s].mode = "edit"
    <3>1. /\ value \in Storable
          /\ value = call[s].text \/ field \in F.ignored \/ call[s].text = ""
      BY <1>a, <2>1, <2>3, StoredFits
    <3>2. call' = [Superseded EXCEPT ![s] = alone] /\ saved' = value /\ rows' = rows
      BY <1>9, <2>3 DEF Saves
    <3> HIDE DEF value
    <3>3. /\ alone \in Submission /\ alone # NoCall /\ alone.pc = "stored"
          /\ alone.mode = "edit" /\ alone.draft = call[s].draft /\ alone.text = call[s].text
      BY <2>1, <2>3, SubmissionShapes DEF Submission
    <3> HIDE DEF alone
    <3>4. /\ call' \in [Calls -> Submission \union {NoCall}]
          /\ call'[s] = alone
          /\ \A t \in Calls : t # s => call'[t] = Superseded[t]
      <4>1. \A t \in Calls : Superseded[t] \in Submission \union {NoCall}
        BY <1>a, SupersededFits
      <4>2. Superseded \in [Calls -> Submission \union {NoCall}]
        BY <4>1 DEF Superseded
      <4> QED  BY <3>2, <3>3, <4>2
    <3>5. FormsTyped'
      <4>1. \A t \in Calls : call'[t] # NoCall =>
                /\ Submitted(call'[t].text) /\ Typable(call'[t].text)
                /\ call'[t].mode = "edit" => F.edits
                /\ call'[t].mode = "create" => F.adds
        <5> SUFFICES ASSUME NEW t \in Calls, call'[t] # NoCall
                     PROVE  /\ Submitted(call'[t].text) /\ Typable(call'[t].text)
                            /\ call'[t].mode = "edit" => F.edits
                            /\ call'[t].mode = "create" => F.adds
          OBVIOUS
        <5>1. CASE t = s
          BY <2>1, <2>3, <3>3, <3>4, <5>1
        <5>2. CASE t # s
          <6>1. /\ call[t] # NoCall /\ call'[t].text = call[t].text
                /\ call'[t].mode = call[t].mode
            BY <1>a, <3>4, <5>2, SupersededFits
          <6> QED  BY <1>a, <6>1 DEF FormsTyped
        <5> QED  BY <5>1, <5>2
      <4> QED  BY <1>a, <2>1, <2>3, <3>1, <3>2, <3>4, <4>1, FormStays DEF FormsTyped
    <3>6. TypedIsStored'
      <4>1. F' = F
        BY <2>1, FormStays
      <4>2. \A t \in Calls : t # s /\ call'[t] # NoCall => call'[t].alone = FALSE
        BY <1>a, <3>4, SupersededFits
      <4> QED  BY <2>1, <3>1, <3>2, <3>3, <3>4, <4>1, <4>2 DEF TypedIsStored
    <3>7. DraftsApart'
      BY <1>a, <2>1, <2>3, <3>2, <3>3, <3>4, SupersededFits, DraftsKeep DEF Creating
    <3> QED  BY <3>5, <3>6, <3>7 DEF FormsInv
  <2> QED  BY <2>1, <2>2, <2>3 DEF Submission
<1>10. ASSUME NEW s \in Calls, Declines(s)
      PROVE  FormsInv'
  <2> DEFINE refused == [call[s] EXCEPT !.pc = "refused"]
  <2>1. /\ call[s] \in Submission /\ call[s].pc = "sent"
        /\ call' = [call EXCEPT ![s] = refused]
        /\ UNCHANGED <<form, field, saved, listed, view, rows>>
    BY <1>10, <1>a, SubmissionShapes DEF Declines, FormsTyped
  <2>2. /\ refused \in Submission /\ refused # NoCall /\ refused.pc = "refused"
        /\ refused.mode = call[s].mode /\ refused.draft = call[s].draft
        /\ refused.text = call[s].text
    BY <2>1, SubmissionShapes DEF Submission
  <2> HIDE DEF refused
  <2>3. /\ call' \in [Calls -> Submission \union {NoCall}]
        /\ call'[s] = refused
        /\ \A t \in Calls : t # s => call'[t] = call[t]
    BY <1>a, <2>1, <2>2 DEF FormsTyped
  <2>4. FormsTyped'
    <3>1. \A t \in Calls : call'[t] # NoCall =>
              /\ Submitted(call'[t].text) /\ Typable(call'[t].text)
              /\ call'[t].mode = "edit" => F.edits
              /\ call'[t].mode = "create" => F.adds
      BY <1>a, <2>1, <2>2, <2>3, SubmissionShapes DEF FormsTyped
    <3> QED  BY <1>a, <2>1, <2>3, <3>1, FormStays DEF FormsTyped
  <2>5. TypedIsStored'
    BY <1>a, <2>1, <2>2, <2>3, FormStays DEF TypedIsStored
  <2>6. DraftsApart'
    BY <1>a, <2>1, <2>2, <2>3, SubmissionShapes, DraftsKeep DEF Creating
  <2> QED  BY <2>4, <2>5, <2>6 DEF FormsInv
<1>11. ASSUME NEW s \in Calls, Concludes(s)
      PROVE  FormsInv'
  <2>1. /\ call[s].pc = "stored" /\ call' = [call EXCEPT ![s] = NoCall]
        /\ listed' = saved
        /\ view' = IF F.clears = "answer"
                   THEN [view EXCEPT !.text = "", !.mode = IF F.modal THEN "closed" ELSE @]
                   ELSE view
        /\ UNCHANGED <<form, field, saved, rows>>
    BY <1>11 DEF Concludes
  <2>2. /\ call' \in [Calls -> Submission \union {NoCall}]
        /\ call'[s] = NoCall
        /\ \A t \in Calls : t # s => call'[t] = call[t]
    BY <1>a, <2>1 DEF FormsTyped
  <2>3. /\ view' \in View
        /\ view'.mode = "closed" \/ (view'.mode = view.mode /\ ~F.modal)
        /\ view'.draft = view.draft
        /\ view'.mode # "closed" => Typable(view'.text)
    <3>1. CASE F.clears = "answer" /\ F.modal
      BY <1>a, <2>1, <3>1 DEF FormsTyped, View, Texts
    <3>2. CASE F.clears = "answer" /\ ~F.modal
      <4>1. Typable("")
        BY <1>a, <3>2 DEF FormFits, Typable
      <4>2. view' = [view EXCEPT !.text = "", !.mode = @]
        BY <2>1, <3>2
      <4> QED  BY <1>a, <3>2, <4>1, <4>2 DEF FormsTyped, View, Texts
    <3>3. CASE F.clears # "answer"
      BY <1>a, <2>1, <3>3 DEF FormsTyped, FormFits
    <3> QED  BY <3>1, <3>2, <3>3
  <2>4. FormsTyped'
    <3>1. \A t \in Calls : call'[t] # NoCall =>
              /\ Submitted(call'[t].text) /\ Typable(call'[t].text)
              /\ call'[t].mode = "edit" => F.edits
              /\ call'[t].mode = "create" => F.adds
      BY <1>a, <2>2 DEF FormsTyped
    <3> QED  BY <1>a, <2>1, <2>2, <2>3, <3>1, FormStays DEF FormsTyped
  <2>5. TypedIsStored'
    BY <1>a, <2>1, <2>2, FormStays DEF TypedIsStored
  <2>6. DraftsApart'
    <3>1. F' = F
      BY <2>1, FormStays
    <3>2. \A t, u \in Calls : Creating(t)' /\ Creating(u)' /\ t # u =>
              F.owns /\ call'[t].draft # call'[u].draft
      BY <1>a, <2>2 DEF DraftsApart, Creating
    <3>3. \A t \in Calls : Creating(t)' =>
              rows'[call'[t].draft] = IF call'[t].pc = "stored" THEN 1 ELSE 0
      BY <1>a, <2>1, <2>2 DEF DraftsApart, Creating
    <3>4. F.clears = "submit" /\ view'.mode = "create" =>
              \A t \in Calls : Creating(t)' => call'[t].draft # view'.draft
      BY <1>a, <2>2, <2>3 DEF DraftsApart, Creating
    <3>5. ~(view'.mode = "create" /\ rows'[view'.draft] = 1)
      <4> SUFFICES ASSUME view'.mode = "create" PROVE rows[view.draft] # 1
        BY <2>1, <2>3
      <4>1. view.mode = "create" /\ F.clears = "submit"
        BY <1>a, <2>3 DEF FormsTyped, FormFits
      <4> QED  BY <1>a, <4>1 DEF DraftsApart
    <3> QED  BY <3>1, <3>2, <3>3, <3>4, <3>5 DEF DraftsApart
  <2> QED  BY <2>4, <2>5, <2>6 DEF FormsInv
<1>12. ASSUME NEW s \in Calls, Errs(s)
      PROVE  FormsInv'
  <2>1. /\ call[s] \in Submission
        /\ call' = [call EXCEPT ![s] = NoCall]
        /\ rows' = IF call[s].pc = "stored" /\ call[s].mode = "create"
                   THEN [rows EXCEPT ![call[s].draft] = @ - 1] ELSE rows
        /\ UNCHANGED <<form, field, saved, listed, view>>
    BY <1>12, <1>a DEF Errs, FormsTyped
  <2>2. /\ call' \in [Calls -> Submission \union {NoCall}]
        /\ call'[s] = NoCall
        /\ \A t \in Calls : t # s => call'[t] = call[t]
    BY <1>a, <2>1 DEF FormsTyped
  <2>3. /\ call[s].draft \in Drafts
        /\ call[s].mode = "create" =>
              rows[call[s].draft] = IF call[s].pc = "stored" THEN 1 ELSE 0
    BY <1>a, <2>1, SubmissionShapes DEF DraftsApart, Creating, Submission
  <2>4. /\ rows' \in [Drafts -> {0, 1}]
        /\ call[s].mode = "create" => rows'[call[s].draft] = 0
        /\ \A d \in Drafts : (call[s].mode = "create" /\ d = call[s].draft) \/ rows'[d] = rows[d]
    BY <1>a, <2>1, <2>3 DEF FormsTyped
  <2>5. FormsTyped'
    <3>1. \A t \in Calls : call'[t] # NoCall =>
              /\ Submitted(call'[t].text) /\ Typable(call'[t].text)
              /\ call'[t].mode = "edit" => F.edits
              /\ call'[t].mode = "create" => F.adds
      BY <1>a, <2>2 DEF FormsTyped
    <3> QED  BY <1>a, <2>1, <2>2, <2>4, <3>1, FormStays DEF FormsTyped
  <2>6. TypedIsStored'
    BY <1>a, <2>1, <2>2, FormStays DEF TypedIsStored
  <2>7. DraftsApart'
    <3>1. F' = F
      BY <2>1, FormStays
    <3>2. \A t, u \in Calls : Creating(t)' /\ Creating(u)' /\ t # u =>
              F.owns /\ call'[t].draft # call'[u].draft
      BY <1>a, <2>2 DEF DraftsApart, Creating
    <3>3. \A t \in Calls : t # s /\ Creating(t) =>
              /\ call[t].draft \in Drafts
              /\ call[s].mode = "create" => call[t].draft # call[s].draft
      BY <1>a, <2>1, SubmissionShapes DEF DraftsApart, Creating, FormsTyped, Submission
    <3>4. \A t \in Calls : Creating(t)' =>
              rows'[call'[t].draft] = IF call'[t].pc = "stored" THEN 1 ELSE 0
      <4> SUFFICES ASSUME NEW t \in Calls, Creating(t)'
                   PROVE  rows'[call'[t].draft] = IF call'[t].pc = "stored" THEN 1 ELSE 0
        OBVIOUS
      <4>1. t # s /\ Creating(t) /\ call'[t] = call[t]
        BY <2>2 DEF Creating
      <4> QED  BY <1>a, <2>4, <3>3, <4>1 DEF DraftsApart
    <3>5. F.clears = "submit" /\ view'.mode = "create" =>
              \A t \in Calls : Creating(t)' => call'[t].draft # view'.draft
      BY <1>a, <2>1, <2>2 DEF DraftsApart, Creating
    <3>6. view'.mode = "create" /\ rows'[view'.draft] = 1 =>
              \E t \in Calls : /\ Creating(t)' /\ call'[t].pc = "stored"
                               /\ call'[t].draft = view'.draft
      <4> SUFFICES ASSUME view.mode = "create", rows'[view.draft] = 1
                   PROVE  \E t \in Calls : /\ Creating(t)' /\ call'[t].pc = "stored"
                                           /\ call'[t].draft = view.draft
        BY <2>1
      <4>1. /\ rows[view.draft] = 1
            /\ ~(call[s].mode = "create" /\ call[s].draft = view.draft)
        BY <1>a, <2>4 DEF FormsTyped
      <4>2. PICK t \in Calls : Creating(t) /\ call[t].pc = "stored" /\ call[t].draft = view.draft
        BY <1>a, <4>1 DEF DraftsApart
      <4>3. t # s /\ call'[t] = call[t]
        BY <2>2, <4>1, <4>2 DEF Creating
      <4> QED  BY <4>2, <4>3 DEF Creating
    <3> QED  BY <3>1, <3>2, <3>4, <3>5, <3>6 DEF DraftsApart
  <2> QED  BY <2>5, <2>6, <2>7 DEF FormsInv
<1>13. CASE UNCHANGED formVars
  <2>1. UNCHANGED <<form, field, saved, listed, view, call, rows>>
    BY <1>13 DEF formVars
  <2>2. FormsTyped'
    BY <1>a, <2>1, FormStays DEF FormsTyped
  <2>3. TypedIsStored'
    BY <1>a, <2>1, FormStays DEF TypedIsStored
  <2>4. DraftsApart'
    BY <1>a, <2>1, DraftsKeep DEF Creating
  <2> QED  BY <2>2, <2>3, <2>4 DEF FormsInv
<1> QED
  BY <1>2, <1>3, <1>4, <1>5, <1>6, <1>7, <1>8, <1>9, <1>10, <1>11, <1>12, <1>13 DEF FormsNext

\* What the invariant gives.
LEMMA FormsHold == FormsInv => FormsTypeOK /\ SavedOnceAsTyped
<1> SUFFICES ASSUME FormsInv PROVE FormsTypeOK /\ SavedOnceAsTyped
  OBVIOUS
<1>1. saved \in {"none"} \union Storable /\ listed \in {"none"} \union Storable
  BY DEF FormsInv, FormsTyped
<1>2. rows \in [Drafts -> 0..2] /\ OneRowPerDraft
  BY DEF FormsInv, FormsTyped, OneRowPerDraft
<1>3. \A s \in Calls :
          \/ call[s] = NoCall
          \/ /\ call[s].pc \in {"sent", "stored", "refused"} /\ call[s].draft \in Drafts
             /\ call[s].text \in Texts
             /\ field \in F.required => call[s].text # ""
  BY DEF FormsInv, FormsTyped, Submission, Submitted
<1>4. FormsTypeOK
  BY <1>1, <1>2, <1>3 DEF FormsInv, FormsTyped, FormsTypeOK, View
<1> QED  BY <1>2, <1>4 DEF FormsInv, SavedOnceAsTyped

\* For every form and every field of one, and for any number of submissions and
\* drafts: the fields, the submissions and the rows keep their types, and what
\* the API demands of a body holds of what is sent.
THEOREM FormsTypeCorrect == FormsSpec => []FormsTypeOK
<1>1. FormsInv => FormsTypeOK
  BY FormsHold
<1> QED  BY <1>1, FormsStart, FormsStep, PTL DEF FormsSpec

\* What the user typed is what a save that met no other one stores, and a draft
\* makes one row, those left by lost answers apart: however openings, cancels,
\* submissions, answers and saves of others interleave.
THEOREM TypedIsSavedOnce == FormsSpec => []SavedOnceAsTyped
<1>1. FormsInv => SavedOnceAsTyped
  BY FormsHold
<1> QED  BY <1>1, FormsStart, FormsStep, PTL DEF FormsSpec

-----------------------------------------------------------------------------
(* The components side by side.                                            *)

\* Each component of MCRecords behaves as its own specification says, so that
\* what is proved of the component holds there.
LEMMA EachRunsAlone ==
    RecordsSpec => /\ ServicesSpec /\ DevicesSpec /\ SitesSpec
                   /\ InvitationsSpec /\ EnquiriesSpec /\ FormsSpec
<1>1. RecordsInit => /\ ServicesInit /\ DevicesInit /\ SitesInit
                     /\ InvitationsInit /\ EnquiriesInit /\ FormsInit
  BY DEF RecordsInit
<1>2. [RecordsNext]_records => [ServicesNext]_serviceVars
  BY DEF RecordsNext, records
<1>3. [RecordsNext]_records => [DevicesNext]_deviceVars
  BY DEF RecordsNext, records
<1>4. [RecordsNext]_records => [SitesNext]_siteVars
  BY DEF RecordsNext, records
<1>5. [RecordsNext]_records => [InvitationsNext]_invitationVars
  BY DEF RecordsNext, records
<1>6. [RecordsNext]_records => [EnquiriesNext]_enquiryVars
  BY DEF RecordsNext, records
<1>7. [RecordsNext]_records => [FormsNext]_formVars
  BY DEF RecordsNext, records
<1> QED
  BY <1>1, <1>2, <1>3, <1>4, <1>5, <1>6, <1>7, PTL
  DEF RecordsSpec, ServicesSpec, DevicesSpec, SitesSpec, InvitationsSpec, EnquiriesSpec, FormsSpec

\* The rows of every component, the requests at work on them and the histories
\* keep their types, and what the types tie together: a device belongs to a
\* student, a prefix comes with a number, a required field is never empty.
THEOREM RecordsTypeCorrect == RecordsSpec => []RecordsTypeOK
<1>1. DevicesSpec => []DevicesTypeOK
  <2>1. LimitInv => DevicesTypeOK
    BY DEF LimitInv
  <2> QED  BY <2>1, LimitStarts, LimitStep, PTL DEF DevicesSpec
<1>2. SitesSpec => []SitesTypeOK
  <2>1. SitesInv => SitesTypeOK
    BY DEF SitesInv
  <2> QED  BY <2>1, SitesStart, SitesStep, PTL DEF SitesSpec
<1>3. InvitationsSpec => []InvitationsTypeOK
  <2>1. PasswordInv => InvitationsTypeOK
    BY DEF PasswordInv
  <2> QED  BY <2>1, PasswordStart, PasswordStep, PTL DEF InvitationsSpec
<1>4. ServicesTypeOK /\ DevicesTypeOK /\ SitesTypeOK /\ InvitationsTypeOK
         /\ EnquiriesTypeOK /\ FormsTypeOK => RecordsTypeOK
  BY DEF RecordsTypeOK
<1> QED
  BY <1>1, <1>2, <1>3, <1>4, EachRunsAlone, ServicesTypeCorrect, EnquiriesTypeCorrect,
     FormsTypeCorrect, PTL

\* The components keep, side by side, what each of them promises.
THEOREM RecordsPromises ==
    RecordsSpec => [](/\ ContentStaysInTenant /\ LoansKeepTheirTerms /\ DeviceLimit
                      /\ SiteNumbersDiffer /\ LogoIsServed /\ LastPasswordOpens
                      /\ FiledOnceThanked /\ SavedOnceAsTyped)
  BY EachRunsAlone, ContentInTenant, LoanTermsHold, DevicesWithinLimit, NumbersDiffer,
     LogosAreServed, PasswordOpens, ThankedIsFiled, TypedIsSavedOnce, PTL
=============================================================================
