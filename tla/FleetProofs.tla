---------------------------- MODULE FleetProofs ----------------------------
(***************************************************************************)
(* Theorems about the stores of the admin API, for any number of devices,  *)
(* credentials, grants, packages and tenants, any limits, and whichever    *)
(* writes fail.                                                            *)
(*                                                                         *)
(* The stores are maps kept as sequences; what has to be known of them is  *)
(* said of a map, and holds of the one in memory and the one on file.      *)
(***************************************************************************)
EXTENDS MCFleet, DataLemmas

(* The registry of devices: a map names a device once, ...                 *)
Records(m) ==
  /\ m \in Seq(DeviceRecord)
  /\ \A i, j \in 1 .. Len(m) : m[i].id = m[j].id => i = j

(* ... has its barred devices revoked, and holds no retired credential.    *)
Out(m, b, t) ==
  \A i \in 1 .. Len(m) :
     /\ m[i].id \in b => m[i].revoked
     /\ <<m[i].id, m[i].credential>> \notin t

DevInv ==
  /\ Records(devices) /\ Out(devices, barred, retired)
  /\ Records(devicesFile) /\ Out(devicesFile, barred, retired)
  /\ Len(devicesFile) <= MaxDevices
  /\ Known(devicesFile) \subseteq Known(devices)
  /\ lapsed \subseteq Credential
  /\ upgrade \in UpgradeRecord \cup {NoUpgrade} /\ upgradeFile \in UpgradeRecord \cup {NoUpgrade}
  /\ barred \subseteq Device
  /\ retired \subseteq Device \X Credential
  /\ devFails \in 0 .. MaxDevFails

LEMMA MapFacts ==
  ASSUME NEW m, Records(m)
  PROVE  /\ m \in Seq(DeviceRecord) /\ Len(m) \in Nat /\ DOMAIN m = 1 .. Len(m)
         /\ \A i \in 1 .. Len(m) : m[i] \in DeviceRecord
         /\ Known(m) = {m[i].id : i \in 1 .. Len(m)}
BY LenProperties, ElementOfSeq DEF Records, Known

LEMMA PlaceFacts ==
  ASSUME NEW m, Records(m), NEW d \in Known(m)
  PROVE  /\ Place(m, d) \in 1 .. Len(m) /\ m[Place(m, d)].id = d
         /\ \A i \in 1 .. Len(m) : m[i].id = d => i = Place(m, d)
         /\ Entry(m, d) = m[Place(m, d)] /\ Entry(m, d) \in DeviceRecord
<1>1. \E i \in DOMAIN m : m[i].id = d
  BY MapFacts
<1>2. Place(m, d) \in DOMAIN m /\ m[Place(m, d)].id = d
  BY <1>1 DEF Place
<1>. QED BY <1>2, MapFacts DEF Records, Entry

(* The cut of the file                                                     *)
LEMMA KeptFacts ==
  ASSUME NEW m, Records(m), NEW b, NEW t, Out(m, b, t)
  PROVE  /\ Records(Kept(m)) /\ Out(Kept(m), b, t) /\ Len(Kept(m)) <= MaxDevices
         /\ Known(Kept(m)) \subseteq Known(m)
<1>1. MaxDevices \in Nat /\ m \in Seq(DeviceRecord) /\ Len(m) \in Nat
  BY DevAssumption, MapFacts
<1>2. /\ Kept(m) \in Seq(DeviceRecord) /\ Len(Kept(m)) <= MaxDevices /\ Len(Kept(m)) <= Len(m)
      /\ Len(Kept(m)) \in Nat /\ DOMAIN Kept(m) = 1 .. Len(Kept(m))
      /\ \A i \in 1 .. Len(Kept(m)) : Kept(m)[i] = m[i]
  BY <1>1, CutAt DEF Kept
<1>3. \A i \in 1 .. Len(Kept(m)) : i \in 1 .. Len(m)
  BY <1>1, <1>2
<1>4. Known(Kept(m)) = {Kept(m)[i].id : i \in 1 .. Len(Kept(m))}
  BY <1>2 DEF Known
<1>5. Records(Kept(m))
  <2>1. ASSUME NEW i \in 1 .. Len(Kept(m)), NEW j \in 1 .. Len(Kept(m)), Kept(m)[i].id = Kept(m)[j].id
        PROVE  i = j
    BY <1>2, <1>3, <2>1 DEF Records
  <2>. QED BY <1>2, <2>1 DEF Records
<1>6. Out(Kept(m), b, t)
  <2>1. ASSUME NEW i \in 1 .. Len(Kept(m))
        PROVE  (Kept(m)[i].id \in b => Kept(m)[i].revoked) /\ <<Kept(m)[i].id, Kept(m)[i].credential>> \notin t
    BY <1>2, <1>3 DEF Out
  <2>. QED BY <2>1 DEF Out
<1>7. Known(Kept(m)) \subseteq Known(m)
  <2>1. ASSUME NEW i \in 1 .. Len(Kept(m)) PROVE Kept(m)[i].id \in Known(m)
    BY <1>2, <1>3, MapFacts
  <2>. QED BY <1>4, <2>1
<1>. QED BY <1>2, <1>5, <1>6, <1>7

(* A device that is put in front                                           *)
LEMMA AddedFacts ==
  ASSUME NEW m, Records(m), NEW r \in DeviceRecord, r.id \notin Known(m), NEW b, NEW t, Out(m, b, t),
         r.id \in b => r.revoked, <<r.id, r.credential>> \notin t
  PROVE  LET n == <<r>> \o m
         IN  Records(n) /\ Out(n, b, t) /\ Known(n) = Known(m) \cup {r.id}
<1>. DEFINE n == <<r>> \o m
<1>1. /\ n \in Seq(DeviceRecord) /\ Len(n) = Len(m) + 1 /\ DOMAIN n = 1 .. Len(m) + 1
      /\ Len(m) \in Nat /\ n[1] = r
      /\ \A i \in 1 .. Len(m) + 1 : i # 1 => i - 1 \in 1 .. Len(m) /\ n[i] = m[i - 1]
  BY MapFacts, InFront
<1>. HIDE DEF n
<1>2. \A i \in 1 .. Len(m) : n[i + 1] = m[i] /\ i + 1 \in 1 .. Len(m) + 1
  <2>. TAKE i \in 1 .. Len(m)
  <2>1. i + 1 \in 1 .. Len(m) + 1 /\ i + 1 # 1 /\ i + 1 - 1 = i
    BY <1>1
  <2>. QED BY <1>1, <2>1
<1>3. \A i \in 1 .. Len(m) : m[i].id # r.id
  BY MapFacts
<1>4. ASSUME NEW i \in 1 .. Len(n), NEW j \in 1 .. Len(n), n[i].id = n[j].id PROVE i = j
  <2>1. i \in 1 .. Len(m) + 1 /\ j \in 1 .. Len(m) + 1 /\ i \in Int /\ j \in Int
    BY <1>1
  <2>2. ASSUME i # 1, j # 1 PROVE i - 1 = j - 1
    <3>1. i - 1 \in 1 .. Len(m) /\ j - 1 \in 1 .. Len(m) /\ m[i - 1].id = m[j - 1].id
      BY <1>1, <1>4, <2>1, <2>2
    <3>. QED BY <3>1 DEF Records
  <2>3. \A l \in 1 .. Len(m) + 1 : l # 1 => n[l].id # n[1].id
    BY <1>1, <1>3
  <2>4. i = 1 <=> j = 1
    BY <1>4, <2>1, <2>3
  <2>. QED BY <2>1, <2>2, <2>4
<1>5. Out(n, b, t)
  <2>. SUFFICES ASSUME NEW i \in 1 .. Len(m) + 1
                PROVE  (n[i].id \in b => n[i].revoked) /\ <<n[i].id, n[i].credential>> \notin t
    BY <1>1 DEF Out
  <2>1. CASE i = 1
    BY <1>1, <2>1
  <2>2. CASE i # 1
    BY <1>1, <2>2 DEF Out
  <2>. QED BY <2>1, <2>2
<1>6. Known(n) = Known(m) \cup {r.id}
  <2>1. Known(n) \subseteq Known(m) \cup {r.id}
    BY <1>1, MapFacts DEF Known
  <2>2. r.id \in Known(n)
    <3>1. 1 \in DOMAIN n
      BY <1>1
    <3>. QED BY <1>1, <3>1 DEF Known
  <2>3. Known(m) \subseteq Known(n)
    <3>1. ASSUME NEW i \in 1 .. Len(m) PROVE m[i].id \in Known(n)
      BY <1>1, <1>2 DEF Known
    <3>. QED BY <3>1, MapFacts
  <2>. QED BY <2>1, <2>2, <2>3
<1>. QED BY <1>1, <1>4, <1>5, <1>6 DEF Records, n

(* A device that is seen goes to the front.                                *)
LEMMA RemovedFacts ==
  ASSUME NEW m, Records(m), NEW d \in Known(m), NEW b, NEW t, Out(m, b, t)
  PROVE  LET n == RemoveAt(m, Place(m, d))
         IN  Records(n) /\ Out(n, b, t) /\ Known(n) = Known(m) \ {d}
<1>. DEFINE n == RemoveAt(m, Place(m, d))
            k == Place(m, d)
<1>1. /\ k \in 1 .. Len(m) /\ m[k].id = d /\ \A i \in 1 .. Len(m) : m[i].id = d => i = k
      /\ Len(m) \in Nat
  BY PlaceFacts, MapFacts
<1>. HIDE DEF k
<1>2. /\ n \in Seq(DeviceRecord) /\ Len(n) = Len(m) - 1 /\ DOMAIN n = 1 .. Len(m) - 1
      /\ \A i \in 1 .. Len(m) - 1 :
           /\ i \in 1 .. Len(m) /\ i + 1 \in 1 .. Len(m)
           /\ n[i] = IF i < k THEN m[i] ELSE m[i + 1]
  <2>1. m \in Seq(DeviceRecord)
    BY MapFacts
  <2>2. n = RemoveAt(m, k)
    BY DEF k
  <2>. HIDE DEF n
  <2>. QED BY <1>1, <2>1, <2>2, WithoutOne
<1>. HIDE DEF n
<1>. DEFINE at(i) == IF i < k THEN i ELSE i + 1
<1>3. \A i \in 1 .. Len(m) - 1 : at(i) \in 1 .. Len(m) /\ n[i] = m[at(i)] /\ at(i) # k
  BY <1>1, <1>2
<1>4. \A i, j \in 1 .. Len(m) - 1 : at(i) = at(j) => i = j
  BY <1>1
<1>5. \A i \in 1 .. Len(m) : i # k => \E j \in 1 .. Len(m) - 1 : n[j] = m[i]
  <2>. TAKE i \in 1 .. Len(m)
  <2>. HAVE i # k
  <2>1. CASE i < k
    <3>1. i \in 1 .. Len(m) - 1
      BY <1>1, <2>1
    <3>. QED BY <1>2, <2>1, <3>1
  <2>2. CASE ~(i < k)
    <3>1. i - 1 \in 1 .. Len(m) - 1 /\ ~(i - 1 < k) /\ i - 1 + 1 = i
      BY <1>1, <2>2
    <3>. QED BY <1>2, <3>1
  <2>. QED BY <2>1, <2>2
<1>. HIDE DEF at
<1>6. ASSUME NEW i \in 1 .. Len(n), NEW j \in 1 .. Len(n), n[i].id = n[j].id PROVE i = j
  <2>1. i \in 1 .. Len(m) - 1 /\ j \in 1 .. Len(m) - 1
    BY <1>2
  <2>2. m[at(i)].id = m[at(j)].id /\ at(i) \in 1 .. Len(m) /\ at(j) \in 1 .. Len(m)
    BY <1>3, <1>6, <2>1
  <2>3. at(i) = at(j)
    BY <2>2 DEF Records
  <2>. QED BY <1>4, <2>1, <2>3
<1>7. Out(n, b, t)
  BY <1>2, <1>3 DEF Out
<1>8. Known(n) = Known(m) \ {d}
  <2>1. ASSUME NEW i \in 1 .. Len(m) - 1 PROVE n[i].id \in Known(m) \ {d}
    BY <1>1, <1>3, MapFacts
  <2>2. ASSUME NEW i \in 1 .. Len(m), m[i].id # d PROVE m[i].id \in Known(n)
    <3>1. i # k
      BY <1>1, <2>2
    <3>. QED BY <1>2, <1>5, <3>1 DEF Known
  <2>3. Known(n) = {n[i].id : i \in 1 .. Len(m) - 1}
    BY <1>2 DEF Known
  <2>. QED BY <2>1, <2>2, <2>3, MapFacts
<1>. QED BY <1>2, <1>6, <1>7, <1>8 DEF Records, n

LEMMA TouchFacts ==
  ASSUME NEW m, Records(m), NEW r \in DeviceRecord, r.id \in Known(m), NEW b, NEW t, Out(m, b, t),
         r.id \in b => r.revoked, <<r.id, r.credential>> \notin t
  PROVE  Records(Touch(m, r)) /\ Out(Touch(m, r), b, t) /\ Known(Touch(m, r)) = Known(m)
<1>1. LET n == RemoveAt(m, Place(m, r.id))
      IN  Records(n) /\ Out(n, b, t) /\ Known(n) = Known(m) \ {r.id}
  BY RemovedFacts
<1>. QED BY <1>1, AddedFacts DEF Touch

(* A device that is changed in its place                                   *)
LEMMA AmendFacts ==
  ASSUME NEW m, Records(m), NEW r \in DeviceRecord, r.id \in Known(m), NEW b, NEW t, NEW c, NEW u,
         Out(m, c, u), b \subseteq c \cup {r.id}, t \subseteq u \cup ({r.id} \X Credential),
         r.id \in b => r.revoked, <<r.id, r.credential>> \notin t
  PROVE  Records(Amend(m, r)) /\ Out(Amend(m, r), b, t) /\ Known(Amend(m, r)) = Known(m)
<1>. DEFINE n == Amend(m, r)
<1>1. Len(m) \in Nat /\ DOMAIN m = 1 .. Len(m) /\ \A i \in 1 .. Len(m) : m[i] \in DeviceRecord
  BY MapFacts
<1>2. n = [i \in 1 .. Len(m) |-> IF m[i].id = r.id THEN r ELSE m[i]]
  BY <1>1 DEF Amend
<1>3. n \in [1 .. Len(m) -> DeviceRecord]
  BY <1>1, <1>2
<1>4. n \in Seq(DeviceRecord) /\ Len(n) = Len(m) /\ DOMAIN n = 1 .. Len(m)
  BY <1>1, <1>3, MappedSeq
<1>5. \A i \in 1 .. Len(m) : n[i] = IF m[i].id = r.id THEN r ELSE m[i]
  BY <1>2
<1>. HIDE DEF n
<1>6. \A i \in 1 .. Len(m) : n[i].id = m[i].id
  BY <1>5
<1>7. Out(n, b, t)
  <2>. SUFFICES ASSUME NEW i \in 1 .. Len(m)
                PROVE  (n[i].id \in b => n[i].revoked) /\ <<n[i].id, n[i].credential>> \notin t
    BY <1>4 DEF Out
  <2>1. CASE m[i].id = r.id
    BY <1>5, <2>1
  <2>2. CASE m[i].id # r.id
    BY <1>5, <2>2 DEF Out
  <2>. QED BY <2>1, <2>2
<1>8. Known(n) = Known(m)
  BY <1>4, <1>6, MapFacts DEF Known
<1>. QED BY <1>4, <1>6, <1>7, <1>8 DEF Records, n

(* What a write of the map leaves behind                                   *)
LEMMA SaveFacts ==
  ASSUME NEW n, DevInv, SaveDevices(n), Records(n), Out(n, barred', retired'),
         Known(devices) \subseteq Known(n), Saved \/ Out(devicesFile, barred', retired'),
         barred' \subseteq Device, retired' \subseteq Device \X Credential
  PROVE  DevInv'
<1>1. devices' = n /\ UNCHANGED <<lapsed, upgrade, upgradeFile>>
  BY DEF SaveDevices
<1>2. CASE devicesFile' = Kept(n) /\ UNCHANGED devFails
  <2>1. /\ Records(Kept(n)) /\ Out(Kept(n), barred', retired') /\ Len(Kept(n)) <= MaxDevices
        /\ Known(Kept(n)) \subseteq Known(n)
    BY KeptFacts
  <2>. QED BY <1>1, <1>2, <2>1 DEF DevInv
<1>3. CASE devFails < MaxDevFails /\ devFails' = devFails + 1 /\ UNCHANGED devicesFile
  <2>1. devFails' \in 0 .. MaxDevFails /\ devFails' # devFails
    BY <1>3, DevAssumption DEF DevInv
  <2>2. Out(devicesFile, barred', retired')
    BY <2>1 DEF Saved
  <2>. QED BY <1>1, <1>3, <2>1, <2>2 DEF DevInv
<1>. QED BY <1>2, <1>3 DEF SaveDevices

(* Fewer devices barred, fewer credentials retired                         *)
LEMMA OutOfLess ==
  ASSUME NEW m, NEW b, NEW t, NEW c \in SUBSET b, NEW u \in SUBSET t, Out(m, b, t)
  PROVE  Out(m, c, u)
BY DEF Out

LEMMA EnrollKeepsOut ==
  ASSUME DevInv, NEW d \in Device, NEW c \in Credential, Enroll(d, c)
  PROVE  DevInv'
<1>. DEFINE r == [id |-> d, credential |-> c, health |-> "online", revoked |-> FALSE]
<1>1. /\ d \notin Known(devices) /\ SaveDevices(<<r>> \o devices)
      /\ barred' = barred \ {d} /\ retired' = {p \in retired : p[1] # d}
  BY DEF Enroll
<1>2. r \in DeviceRecord /\ r.id = d /\ r.credential = c
  BY DEF DeviceRecord, Health
<1>3. Out(devices, barred', retired') /\ Out(devicesFile, barred', retired')
  BY <1>1, OutOfLess DEF DevInv
<1>4. d \notin barred' /\ <<d, c>> \notin retired'
  BY <1>1
<1>. HIDE DEF r
<1>5. /\ Records(<<r>> \o devices) /\ Out(<<r>> \o devices, barred', retired')
      /\ Known(<<r>> \o devices) = Known(devices) \cup {d}
  BY <1>1, <1>2, <1>3, <1>4, AddedFacts DEF DevInv
<1>6. barred' \subseteq Device /\ retired' \subseteq Device \X Credential
  BY <1>1 DEF DevInv
<1>. QED BY <1>1, <1>3, <1>5, <1>6, SaveFacts

(* The record of a device, as the map that holds it has it                 *)
LEMMA EntryFacts ==
  ASSUME NEW m, NEW b, NEW t, Records(m), Out(m, b, t), NEW d \in Known(m)
  PROVE  /\ Entry(m, d) \in DeviceRecord /\ Entry(m, d).id = d
         /\ d \in b => Entry(m, d).revoked
         /\ <<d, Entry(m, d).credential>> \notin t
BY PlaceFacts DEF Out

LEMMA HeartbeatKeepsOut ==
  ASSUME DevInv, NEW d \in Device, NEW h \in Heartbeats, Heartbeat(d, h)
  PROVE  DevInv'
<1>. DEFINE e == Entry(devices, d)
            r == [e EXCEPT !.health = h]
<1>1. d \in Known(devices) /\ SaveDevices(Touch(devices, r)) /\ barred' = barred /\ retired' = retired
  BY DEF Heartbeat
<1>2. /\ e \in DeviceRecord /\ e.id = d /\ (d \in barred => e.revoked)
      /\ <<d, e.credential>> \notin retired
  BY <1>1, EntryFacts DEF DevInv
<1>. HIDE DEF e
<1>3. r \in DeviceRecord /\ r.id = d /\ r.credential = e.credential /\ r.revoked = e.revoked
  BY <1>2, DevAssumption DEF DeviceRecord, Health
<1>. HIDE DEF r
<1>4. /\ Records(Touch(devices, r)) /\ Out(Touch(devices, r), barred, retired)
      /\ Known(Touch(devices, r)) = Known(devices)
  BY <1>1, <1>2, <1>3, TouchFacts DEF DevInv
<1>. QED BY <1>1, <1>4, SaveFacts DEF DevInv

LEMMA RotateKeepsOut ==
  ASSUME DevInv, NEW d \in Device, NEW c \in Credential, RotateCredential(d, c)
  PROVE  DevInv'
<1>. DEFINE e == Entry(devices, d)
            r == [e EXCEPT !.credential = c]
            gone == IF Saved /\ e.credential # c THEN {<<d, e.credential>>} ELSE {}
<1>1. /\ d \in Known(devices) /\ SaveDevices(Amend(devices, r)) /\ barred' = barred
      /\ retired' = (retired \cup gone) \ {<<d, c>>}
  BY DEF RotateCredential
<1>2. e \in DeviceRecord /\ e.id = d /\ (d \in barred => e.revoked)
  BY <1>1, EntryFacts DEF DevInv
<1>. HIDE DEF e
<1>3. r \in DeviceRecord /\ r.id = d /\ r.credential = c /\ r.revoked = e.revoked
  BY <1>2 DEF DeviceRecord
<1>4. /\ gone \subseteq {d} \X Credential /\ retired' \subseteq retired \cup ({d} \X Credential)
      /\ retired' \subseteq Device \X Credential /\ <<d, c>> \notin retired'
      /\ ~Saved => retired' \subseteq retired
  BY <1>1, <1>2 DEF DevInv, DeviceRecord
<1>. HIDE DEF r, gone
<1>5. /\ Records(Amend(devices, r)) /\ Out(Amend(devices, r), barred', retired')
      /\ Known(Amend(devices, r)) = Known(devices)
  <2>1. d \in barred' => r.revoked
    BY <1>1, <1>2, <1>3
  <2>2. Records(devices) /\ Out(devices, barred, retired) /\ r.id \in Known(devices)
    BY <1>1, <1>3 DEF DevInv
  <2>. DEFINE b == barred'
              t == retired'
  <2>3. /\ t \subseteq retired \cup ({r.id} \X Credential) /\ (r.id \in b => r.revoked)
        /\ <<r.id, r.credential>> \notin t /\ b \subseteq barred \cup {r.id}
    BY <1>1, <1>3, <1>4, <2>1
  <2>. HIDE DEF b, t
  <2>4. /\ Records(Amend(devices, r)) /\ Out(Amend(devices, r), b, t)
        /\ Known(Amend(devices, r)) = Known(devices)
    BY <1>3, <2>2, <2>3, AmendFacts
  <2>. QED BY <2>4 DEF b, t
<1>6. Saved \/ Out(devicesFile, barred', retired')
  BY <1>1, <1>4, OutOfLess DEF DevInv
<1>7. barred' \subseteq Device
  BY <1>1 DEF DevInv
<1>. QED BY <1>1, <1>4, <1>5, <1>6, <1>7, SaveFacts

LEMMA RevokeKeepsOut ==
  ASSUME DevInv, NEW d \in Device, Revoke(d)
  PROVE  DevInv'
<1>. DEFINE e == Entry(devices, d)
            r == [e EXCEPT !.revoked = TRUE]
<1>1. /\ d \in Known(devices) /\ SaveDevices(Amend(devices, r)) /\ retired' = retired
      /\ barred' = IF Saved THEN barred \cup {d} ELSE barred
  BY DEF Revoke
<1>2. e \in DeviceRecord /\ e.id = d /\ <<d, e.credential>> \notin retired
  BY <1>1, EntryFacts DEF DevInv
<1>. HIDE DEF e
<1>3. r \in DeviceRecord /\ r.id = d /\ r.credential = e.credential /\ r.revoked
  BY <1>2 DEF DeviceRecord
<1>. HIDE DEF r
<1>4. barred' \subseteq barred \cup {d} /\ barred' \subseteq Device /\ (~Saved => barred' = barred)
  BY <1>1 DEF DevInv
<1>5. /\ Records(Amend(devices, r)) /\ Out(Amend(devices, r), barred', retired')
      /\ Known(Amend(devices, r)) = Known(devices)
  <2>1. /\ retired' \subseteq retired \cup ({r.id} \X Credential) /\ (r.id \in barred' => r.revoked)
        /\ <<r.id, r.credential>> \notin retired' /\ barred' \subseteq barred \cup {r.id}
    BY <1>1, <1>2, <1>3, <1>4
  <2>2. Records(devices) /\ Out(devices, barred, retired) /\ r.id \in Known(devices)
    BY <1>1, <1>3 DEF DevInv
  <2>. DEFINE b == barred'
              t == retired'
  <2>3. /\ t \subseteq retired \cup ({r.id} \X Credential) /\ (r.id \in b => r.revoked)
        /\ <<r.id, r.credential>> \notin t /\ b \subseteq barred \cup {r.id}
    BY <2>1
  <2>. HIDE DEF b, t
  <2>4. /\ Records(Amend(devices, r)) /\ Out(Amend(devices, r), b, t)
        /\ Known(Amend(devices, r)) = Known(devices)
    BY <1>3, <2>2, <2>3, AmendFacts
  <2>. QED BY <2>4 DEF b, t
<1>6. Saved \/ Out(devicesFile, barred', retired')
  BY <1>1, <1>4 DEF DevInv
<1>. QED BY <1>1, <1>4, <1>5, <1>6, SaveFacts DEF DevInv

LEMMA DevStep ==
  ASSUME DevInv, [DevNext]_devVars
  PROVE  DevInv'
<1>1. CASE UNCHANGED devVars
  BY <1>1 DEF DevInv, devVars
<1>2. ASSUME NEW c \in Credential, CredentialLapses(c) PROVE DevInv'
  BY <1>2 DEF DevInv, CredentialLapses
<1>3. CASE DevRestart
  BY <1>3 DEF DevInv, DevRestart, LoadDevices, LoadUpgrades
<1>4. ASSUME RolloutNext PROVE DevInv'
  <2>1. /\ UNCHANGED <<devices, devicesFile, lapsed, barred, retired>>
        /\ devFails' \in 0 .. MaxDevFails
        /\ upgrade' \in UpgradeRecord \cup {NoUpgrade} => upgradeFile' \in UpgradeRecord \cup {NoUpgrade}
    <3>1. PICK u : SaveUpgrade(u)
      BY <1>4 DEF RolloutNext, StartUpgrade, Promote, RollbackUpgrade
    <3>. QED BY <3>1, DevAssumption DEF SaveUpgrade, DevInv
  <2>2. upgrade' \in UpgradeRecord \cup {NoUpgrade}
    <3>1. Named(Online) \subseteq Device
      BY MapFacts DEF DevInv, Named, Online, DeviceRecord
    <3>2. ASSUME NEW n \in CanarySize, StartUpgrade(n) PROVE upgrade' \in UpgradeRecord
      <4>. DEFINE cohort == Named(FirstOf(Online, IF n < 1 THEN 1 ELSE n))
      <4>1. /\ upgrade' = [state |-> "canary", canary |-> cohort,
                           rollout |-> Named(Online) \ cohort, completed |-> {}]
            /\ cohort \subseteq Named(Online)
        BY <3>2 DEF StartUpgrade, SaveUpgrade, FirstOf, Named
      <4>. HIDE DEF cohort
      <4>. QED BY <3>1, <4>1 DEF UpgradeRecord, UpgradeStates
    <3>3. ASSUME Promote \/ RollbackUpgrade PROVE upgrade' \in UpgradeRecord
      <4>1. upgrade \in UpgradeRecord
        BY <3>3 DEF DevInv, Promote, RollbackUpgrade, NoUpgrade, UpgradeStates
      <4>. QED BY <3>3, <4>1 DEF Promote, RollbackUpgrade, SaveUpgrade, UpgradeRecord, UpgradeStates
    <3>. QED BY <1>4, <3>2, <3>3 DEF RolloutNext
  <2>. QED BY <2>1, <2>2 DEF DevInv
<1>. QED BY <1>1, <1>2, <1>3, <1>4, EnrollKeepsOut, HeartbeatKeepsOut, RotateKeepsOut, RevokeKeepsOut
     DEF DevNext, RegistryNext

LEMMA DevStart ==
  ASSUME DevInit
  PROVE  DevInv
<1>1. Records(<<>>) /\ Out(<<>>, {}, {}) /\ Len(<<>>) = 0 /\ Known(<<>>) = {}
  BY DEF Records, Out, Known
<1>. QED BY <1>1, DevAssumption DEF DevInit, DevInv

LEMMA DevInvMeans ==
  ASSUME DevInv
  PROVE  DevicesStayOut
<1>1. DevTypeOK
  <2>1. ASSUME NEW map \in {devices, devicesFile}
        PROVE  /\ \A i \in DOMAIN map : map[i] \in DeviceRecord
               /\ \A i, j \in DOMAIN map : map[i].id = map[j].id => i = j
    <3>1. Records(map)
      BY <2>1 DEF DevInv
    <3>. QED BY <3>1, MapFacts DEF Records
  <2>. QED BY <2>1 DEF DevInv, DevTypeOK
<1>2. RevokedStaysOut
  BY EntryFacts DEF DevInv, RevokedStaysOut, Eligible, Verifies
<1>3. RetiredCredentialStaysOut
  <2>1. ASSUME NEW p \in retired, Verifies(p[1], p[2]) PROVE FALSE
    <3>1. p \in Device \X Credential /\ p = <<p[1], p[2]>>
      BY DEF DevInv
    <3>. QED BY <2>1, <3>1, EntryFacts DEF DevInv, Verifies
  <2>. QED BY <2>1 DEF RetiredCredentialStaysOut
<1>. QED BY <1>1, <1>2, <1>3 DEF DevicesStayOut

(* Of any number of devices and credentials, whichever saves fail: who was *)
(* revoked, and what was rotated away, does not verify and is not eligible *)
(* for a remediation, before and after a restart (device-registry.js).     *)
THEOREM DevicesAlwaysStayOut == DevSpec => []DevicesStayOut
<1>1. DevInit => DevInv
  BY DevStart
<1>2. DevInv /\ [DevNext]_devVars => DevInv'
  BY DevStep
<1>3. DevInv => DevicesStayOut
  BY DevInvMeans
<1>. QED BY <1>1, <1>2, <1>3, PTL DEF DevSpec

\* The stages an upgrade goes through
Fits(u) ==
  u # NoUpgrade =>
    /\ u.canary \cap u.rollout = {} /\ (u.canary \cup u.rollout) \cap u.completed = {}
    /\ u.state \in {"canary", "failed"} => u.completed = {} /\ u.canary # {}
    /\ u.state \in {"rollout", "complete"} => u.canary = {} /\ u.completed # {}
    /\ u.state = "complete" => u.rollout = {}

StageInv ==
  /\ DevInv
  /\ Fits(upgrade) /\ Fits(upgradeFile)
  /\ upgrade.state \in StageAfter(upgradeFile.state)

Stages == UpgradeStates \cup {"none"}

LEMMA StagesGoOn ==
  /\ \A a \in Stages : a \in StageAfter(a)
  /\ \A a, b, c \in Stages : b \in StageAfter(a) /\ c \in StageAfter(b) => c \in StageAfter(a)
<1>1. \A a \in Stages : StageAfter(a) \in SUBSET Stages
  BY DEF Stages, UpgradeStates, StageAfter
<1>. QED BY DEF Stages, UpgradeStates, StageAfter

LEMMA FirstOnline ==
  ASSUME DevInv, Online # {}, NEW n \in Nat \ {0}
  PROVE  Named(FirstOf(Online, n)) # {}
<1>1. Online \in SUBSET Nat
  BY MapFacts DEF DevInv, Online
<1>2. PICK i \in Online : \A j \in Online : i <= j
  BY <1>1, SmallestOf
<1>3. {j \in Online : j <= i} = {i}
  <2>1. i \in Online /\ i <= i
    BY <1>1, <1>2
  <2>2. ASSUME NEW j \in Online, j <= i PROVE j = i
    <3>1. i \in Nat /\ j \in Nat /\ i <= j
      BY <1>1, <1>2
    <3>. QED BY <2>2, <3>1
  <2>. QED BY <2>1, <2>2
<1>4. Cardinality({i}) <= n
  BY FS_Singleton
<1>5. i \in FirstOf(Online, n)
  BY <1>3, <1>4 DEF FirstOf
<1>. QED BY <1>5 DEF Named

LEMMA StageStep ==
  ASSUME StageInv, [DevNext]_devVars
  PROVE  StageInv' /\ upgradeFile'.state \in StageAfter(upgradeFile.state)
<1>0. DevInv /\ DevInv'
  BY DevStep DEF StageInv
<1>1. /\ upgrade.state \in Stages /\ upgradeFile.state \in Stages
      /\ upgrade'.state \in Stages
  BY <1>0 DEF DevInv, Stages, UpgradeRecord, NoUpgrade
<1>2. ASSUME UNCHANGED <<upgrade, upgradeFile>>
      PROVE  StageInv' /\ upgradeFile'.state \in StageAfter(upgradeFile.state)
  BY <1>0, <1>1, <1>2, StagesGoOn DEF StageInv, Fits
<1>3. CASE DevRestart
  BY <1>0, <1>1, <1>3, StagesGoOn DEF StageInv, DevRestart, LoadUpgrades, Fits
<1>4. ASSUME NEW u, SaveUpgrade(u), Fits(u), u.state \in StageAfter(upgrade.state)
      PROVE  StageInv' /\ upgradeFile'.state \in StageAfter(upgradeFile.state)
  <2>1. u = upgrade' /\ u.state \in Stages /\ u.state \in StageAfter(upgradeFile.state)
    BY <1>1, <1>4, StagesGoOn DEF SaveUpgrade, StageInv
  <2>2. upgradeFile' = u \/ upgradeFile' = upgradeFile
    BY <1>4 DEF SaveUpgrade
  <2>3. Fits(upgrade') /\ Fits(upgradeFile')
    BY <1>4, <2>1, <2>2 DEF StageInv
  <2>4. upgrade'.state \in StageAfter(upgradeFile'.state)
    BY <1>1, <2>1, <2>2, StagesGoOn
  <2>5. upgradeFile'.state \in StageAfter(upgradeFile.state)
    BY <1>1, <2>1, <2>2, StagesGoOn
  <2>6. StageInv'
    BY <1>0, <2>3, <2>4 DEF StageInv, Fits
  <2>. QED BY <2>5, <2>6
<1>5. ASSUME NEW n \in CanarySize, StartUpgrade(n)
      PROVE  \E u : SaveUpgrade(u) /\ Fits(u) /\ u.state \in StageAfter(upgrade.state)
  <2>. DEFINE size == IF n < 1 THEN 1 ELSE n
              cohort == Named(FirstOf(Online, size))
              u == [state |-> "canary", canary |-> cohort,
                    rollout |-> Named(Online) \ cohort, completed |-> {}]
  <2>1. SaveUpgrade(u) /\ upgrade = NoUpgrade /\ Online # {}
    BY <1>5 DEF StartUpgrade
  <2>2. size \in Nat \ {0}
    BY DevAssumption
  <2>. HIDE DEF size
  <2>3. cohort # {}
    BY <1>0, <2>1, <2>2, FirstOnline
  <2>. HIDE DEF cohort
  <2>4. Fits(u)
    BY <2>3 DEF Fits
  <2>5. u.state \in StageAfter(upgrade.state)
    BY <2>1 DEF StageAfter, NoUpgrade, UpgradeStates
  <2>. HIDE DEF u
  <2>. QED BY <2>1, <2>4, <2>5
<1>6. ASSUME Promote \/ RollbackUpgrade
      PROVE  \E u : SaveUpgrade(u) /\ Fits(u) /\ u.state \in StageAfter(upgrade.state)
  <2>1. upgrade \in UpgradeRecord /\ upgrade # NoUpgrade
    BY <1>0, <1>6 DEF DevInv, Promote, RollbackUpgrade, NoUpgrade, UpgradeStates
  <2>2. Fits(upgrade)
    BY DEF StageInv
  <2>3. CASE upgrade.state = "canary" /\ Promote /\ upgrade.canary \subseteq Named(Online)
    <3>. DEFINE u == [upgrade EXCEPT !.state = "rollout", !.canary = {}, !.completed = upgrade.canary]
    <3>1. SaveUpgrade(u)
      BY <2>3 DEF Promote
    <3>2. Fits(u) /\ u.state = "rollout"
      BY <2>1, <2>2, <2>3 DEF Fits, UpgradeRecord
    <3>. HIDE DEF u
    <3>3. u.state \in StageAfter(upgrade.state)
      BY <2>3, <3>2 DEF StageAfter, UpgradeStates
    <3>. QED BY <3>1, <3>2, <3>3
  <2>4. CASE upgrade.state = "canary" /\ Promote /\ ~(upgrade.canary \subseteq Named(Online))
    <3>. DEFINE u == [upgrade EXCEPT !.state = "failed"]
    <3>1. SaveUpgrade(u)
      BY <2>4 DEF Promote
    <3>2. Fits(u) /\ u.state = "failed"
      BY <2>1, <2>2, <2>4 DEF Fits, UpgradeRecord
    <3>. HIDE DEF u
    <3>3. u.state \in StageAfter(upgrade.state)
      BY <2>4, <3>2 DEF StageAfter, UpgradeStates
    <3>. QED BY <3>1, <3>2, <3>3
  <2>5. CASE upgrade.state = "rollout" /\ Promote
    <3>. DEFINE u == [upgrade EXCEPT !.state = "complete", !.rollout = {},
                                     !.completed = upgrade.completed \cup upgrade.rollout]
    <3>1. SaveUpgrade(u)
      BY <2>1, <2>5 DEF Promote, UpgradeRecord
    <3>2. Fits(u) /\ u.state = "complete"
      BY <2>1, <2>2, <2>5 DEF Fits, UpgradeRecord
    <3>. HIDE DEF u
    <3>3. u.state \in StageAfter(upgrade.state)
      BY <2>5, <3>2 DEF StageAfter, UpgradeStates
    <3>. QED BY <3>1, <3>2, <3>3
  <2>6. CASE upgrade.state = "failed" /\ Promote
    BY <2>2, <2>6, <1>1, StagesGoOn DEF Promote
  <2>7. CASE RollbackUpgrade
    <3>. DEFINE u == [upgrade EXCEPT !.state = "rolled_back"]
    <3>1. SaveUpgrade(u) /\ upgrade.state \in UpgradeStates \ {"complete"}
      BY <2>7 DEF RollbackUpgrade
    <3>2. Fits(u) /\ u.state = "rolled_back"
      BY <2>1, <2>2 DEF Fits, UpgradeRecord
    <3>. HIDE DEF u
    <3>3. u.state \in StageAfter(upgrade.state)
      BY <3>1, <3>2 DEF StageAfter, UpgradeStates
    <3>. QED BY <3>1, <3>2, <3>3
  <2>. QED BY <1>6, <2>3, <2>4, <2>5, <2>6, <2>7 DEF Promote
<1>7. CASE RolloutNext
  BY <1>4, <1>5, <1>6, <1>7 DEF RolloutNext
<1>8. CASE RegistryNext
  BY <1>2, <1>3, <1>8
  DEF RegistryNext, Enroll, RotateCredential, Heartbeat, Revoke, CredentialLapses, SaveDevices
<1>9. CASE UNCHANGED devVars
  BY <1>2, <1>9 DEF devVars
<1>. QED BY <1>7, <1>8, <1>9 DEF DevNext

(* The cohorts of an upgrade fit its stage, in memory and on file, and the *)
(* stage on file never goes back, for canaries and rollouts of any size,   *)
(* whichever saves fail (upgrade.js:66-139).                               *)
THEOREM UpgradesAlwaysAdvance == DevSpec => UpgradesAdvance
<1>1. DevInit => StageInv
  BY DevStart DEF DevInit, StageInv, Fits, StageAfter, NoUpgrade
<1>2. StageInv /\ [DevNext]_devVars => StageInv' /\ [upgradeFile'.state \in StageAfter(upgradeFile.state)]_devVars
  BY StageStep
<1>3. StageInv => StageFitsCohorts
  BY DEF StageInv, Fits, StageFitsCohorts
<1>. QED BY <1>1, <1>2, <1>3, PTL DEF DevSpec, UpgradesAdvance, StoredStageNeverGoesBack

(***************************************************************************)
(* Maps of records with an id, whatever the records: each id once.         *)
(***************************************************************************)
Keyed(m, S) ==
  /\ m \in Seq(S)
  /\ \A i, j \in 1 .. Len(m) : m[i].id = m[j].id => i = j

LEMMA KeyedFacts ==
  ASSUME NEW S, NEW m, Keyed(m, S)
  PROVE  /\ m \in Seq(S) /\ Len(m) \in Nat /\ DOMAIN m = 1 .. Len(m)
         /\ \A i \in 1 .. Len(m) : m[i] \in S
         /\ Ids(m) = {m[i].id : i \in 1 .. Len(m)}
BY LenProperties, ElementOfSeq DEF Keyed, Ids

LEMMA KeyedCut ==
  ASSUME NEW S, NEW m, Keyed(m, S), NEW max \in Nat
  PROVE  LET c == SubSeq(m, 1, IF Len(m) < max THEN Len(m) ELSE max)
         IN  Keyed(c, S) /\ Len(c) <= max /\ Ids(c) \subseteq Ids(m)
<1>. DEFINE c == SubSeq(m, 1, IF Len(m) < max THEN Len(m) ELSE max)
<1>1. Len(m) \in Nat /\ m \in Seq(S)
  BY KeyedFacts
<1>2. /\ c \in Seq(S) /\ Len(c) <= max /\ Len(c) <= Len(m) /\ Len(c) \in Nat
      /\ DOMAIN c = 1 .. Len(c) /\ \A i \in 1 .. Len(c) : c[i] = m[i]
  BY <1>1, CutAt
<1>. HIDE DEF c
<1>3. \A i \in 1 .. Len(c) : i \in 1 .. Len(m)
  BY <1>1, <1>2
<1>4. ASSUME NEW i \in 1 .. Len(c), NEW j \in 1 .. Len(c), c[i].id = c[j].id PROVE i = j
  BY <1>2, <1>3, <1>4 DEF Keyed
<1>5. ASSUME NEW i \in 1 .. Len(c) PROVE c[i].id \in Ids(m)
  BY <1>2, <1>3, KeyedFacts
<1>6. Ids(c) = {c[i].id : i \in 1 .. Len(c)}
  BY <1>2 DEF Ids
<1>7. Keyed(c, S)
  BY <1>2, <1>4 DEF Keyed
<1>8. Ids(c) \subseteq Ids(m)
  BY <1>5, <1>6
<1>. QED BY <1>2, <1>7, <1>8 DEF c

LEMMA KeyedInFront ==
  ASSUME NEW S, NEW m, Keyed(m, S), NEW r \in S, r.id \notin Ids(m)
  PROVE  Keyed(<<r>> \o m, S) /\ Ids(m) \subseteq Ids(<<r>> \o m)
<1>. DEFINE n == <<r>> \o m
<1>1. /\ n \in Seq(S) /\ Len(n) = Len(m) + 1 /\ DOMAIN n = 1 .. Len(m) + 1
      /\ Len(m) \in Nat /\ n[1] = r
      /\ \A i \in 1 .. Len(m) + 1 : i # 1 => i - 1 \in 1 .. Len(m) /\ n[i] = m[i - 1]
  BY KeyedFacts, InFront
<1>. HIDE DEF n
<1>2. \A i \in 1 .. Len(m) : m[i].id # r.id
  BY KeyedFacts
<1>3. ASSUME NEW i \in 1 .. Len(n), NEW j \in 1 .. Len(n), n[i].id = n[j].id PROVE i = j
  <2>1. i \in 1 .. Len(m) + 1 /\ j \in 1 .. Len(m) + 1 /\ i \in Int /\ j \in Int
    BY <1>1
  <2>2. ASSUME i # 1, j # 1 PROVE i - 1 = j - 1
    <3>1. i - 1 \in 1 .. Len(m) /\ j - 1 \in 1 .. Len(m) /\ m[i - 1].id = m[j - 1].id
      BY <1>1, <1>3, <2>1, <2>2
    <3>. QED BY <3>1 DEF Keyed
  <2>3. i = 1 <=> j = 1
    BY <1>1, <1>2, <1>3, <2>1
  <2>. QED BY <2>1, <2>2, <2>3
<1>4. ASSUME NEW i \in 1 .. Len(m) PROVE m[i].id \in Ids(n)
  <2>1. i + 1 \in 1 .. Len(m) + 1 /\ i + 1 # 1 /\ i + 1 - 1 = i
    BY <1>1
  <2>2. n[i + 1] = m[i]
    BY <1>1, <2>1
  <2>. QED BY <1>1, <2>1, <2>2 DEF Ids
<1>. QED BY <1>1, <1>3, <1>4, KeyedFacts DEF Keyed, n

\* Each record changed in its place, under its id
LEMMA KeyedMapped ==
  ASSUME NEW S, NEW m, Keyed(m, S), NEW T, NEW n \in [1 .. Len(m) -> T],
         \A i \in 1 .. Len(m) : n[i].id = m[i].id
  PROVE  Keyed(n, T) /\ Ids(n) = Ids(m)
<1>1. Len(m) \in Nat
  BY KeyedFacts
<1>2. n \in Seq(T) /\ Len(n) = Len(m) /\ DOMAIN n = 1 .. Len(m)
  BY <1>1, MappedSeq
<1>3. Ids(n) = {n[i].id : i \in 1 .. Len(m)}
  BY <1>2 DEF Ids
<1>. QED BY <1>2, <1>3, KeyedFacts DEF Keyed

-----------------------------------------------------------------------------
\* Grants of access: what the map may hold once the grants of c are closed.
Closing(c) == {g \in GrantRecord : g.id \in c => g.revoked}

JitInv ==
  /\ Keyed(grants, Closing(closed)) /\ Keyed(grantsFile, Closing(closed))
  /\ Len(grantsFile) <= MaxGrants
  /\ Ids(grantsFile) \subseteq Ids(grants)
  /\ now \in 0 .. MaxTime
  /\ closed \subseteq Grant /\ jitFails \in 0 .. MaxJitFails

LEMMA ClosingLess ==
  ASSUME NEW m, NEW c, NEW d, Keyed(m, Closing(c)), Ids(m) \cap d \subseteq c
  PROVE  Keyed(m, Closing(d))
<1>1. \A i \in 1 .. Len(m) : m[i] \in Closing(c) /\ m[i].id \in Ids(m)
  BY KeyedFacts
<1>2. \A i \in 1 .. Len(m) : m[i] \in Closing(d)
  BY <1>1 DEF Closing
<1>3. m \in [1 .. Len(m) -> Closing(d)] /\ Len(m) \in Nat
  <2>1. m \in Seq(Closing(c)) /\ Len(m) \in Nat
    BY KeyedFacts
  <2>2. m \in [1 .. Len(m) -> Closing(c)]
    BY <2>1, LenProperties
  <2>. QED BY <1>2, <2>1, <2>2
<1>. QED BY <1>3, KeyedMapped

LEMMA MarkFacts ==
  ASSUME NEW m, NEW c, NEW ids, Keyed(m, Closing(c))
  PROVE  Keyed(MarkRevoked(m, ids), Closing(c \cup ids)) /\ Ids(MarkRevoked(m, ids)) = Ids(m)
<1>. DEFINE n == MarkRevoked(m, ids)
<1>1. Len(m) \in Nat /\ DOMAIN m = 1 .. Len(m) /\ \A i \in 1 .. Len(m) : m[i] \in Closing(c)
  BY KeyedFacts
<1>2. n = [i \in 1 .. Len(m) |-> [m[i] EXCEPT !.revoked = m[i].revoked \/ m[i].id \in ids]]
  BY <1>1 DEF MarkRevoked, Closing, GrantRecord
<1>3. ASSUME NEW i \in 1 .. Len(m) PROVE n[i] \in Closing(c \cup ids) /\ n[i].id = m[i].id
  <2>1. n[i] = [m[i] EXCEPT !.revoked = m[i].revoked \/ m[i].id \in ids]
    BY <1>2
  <2>. HIDE DEF n
  <2>. QED BY <1>1, <2>1 DEF Closing, GrantRecord
<1>4. n \in [1 .. Len(m) -> Closing(c \cup ids)]
  <2>1. DOMAIN n = 1 .. Len(m) /\ n = [i \in DOMAIN n |-> n[i]]
    BY <1>2
  <2>. HIDE DEF n
  <2>. QED BY <1>3, <2>1
<1>. HIDE DEF n
<1>5. Keyed(n, Closing(c \cup ids)) /\ Ids(n) = Ids(m)
  BY <1>3, <1>4, KeyedMapped
<1>. QED BY <1>5 DEF n

LEMMA NewestFacts ==
  ASSUME NEW m, NEW S, Keyed(m, S)
  PROVE  Keyed(Newest(m), S) /\ Len(Newest(m)) <= MaxGrants /\ Ids(Newest(m)) \subseteq Ids(m)
<1>1. MaxGrants \in Nat
  BY JitAssumption
<1>. QED BY <1>1, KeyedCut DEF Newest

LEMMA JitStep ==
  ASSUME JitInv, [JitNext]_jitVars
  PROVE  JitInv'
<1>1. CASE UNCHANGED jitVars
  BY <1>1 DEF JitInv, jitVars
<1>2. ASSUME NEW id \in Grant, NEW t \in Tenant \cup {Unscoped}, NEW role \in RoleTools,
             NEW tools \in {{}} \cup {{x} : x \in Tool}, NEW from \in {0, now},
             NEW until \in {now + 1, Forever}, until <= Forever, GiveGrant(id, t, role, tools, from, until)
      PROVE  JitInv'
  <2>. DEFINE r == [id |-> id, tenant |-> t, tools |-> IF tools # {} THEN tools ELSE role,
                    from |-> from, until |-> until, revoked |-> FALSE]
  <2>1. /\ id \notin Ids(grants) /\ SaveGrants(<<r>> \o grants) /\ closed' = closed \ {id} /\ now' = now
    BY <1>2 DEF GiveGrant
  <2>2. r \in Closing(closed \ {id}) /\ r.id = id
    <3>1. role \subseteq Tool /\ tools \subseteq Tool
      BY JitAssumption
    <3>2. from \in 0 .. MaxTime /\ until \in 0 .. Forever
      BY <1>2, JitAssumption DEF JitInv, Forever
    <3>3. r \in GrantRecord /\ r.id = id
      BY <3>1, <3>2 DEF GrantRecord
    <3>. QED BY <3>3 DEF Closing
  <2>. HIDE DEF r
  <2>3. Keyed(grants, Closing(closed \ {id})) /\ Keyed(grantsFile, Closing(closed \ {id}))
    BY ClosingLess DEF JitInv
  <2>4. /\ Keyed(<<r>> \o grants, Closing(closed \ {id})) /\ Ids(grants) \subseteq Ids(<<r>> \o grants)
    BY <2>1, <2>2, <2>3, KeyedInFront
  <2>5. /\ Keyed(Newest(<<r>> \o grants), Closing(closed \ {id})) /\ Len(Newest(<<r>> \o grants)) <= MaxGrants
        /\ Ids(Newest(<<r>> \o grants)) \subseteq Ids(<<r>> \o grants)
    BY <2>4, NewestFacts
  <2>. QED BY <2>1, <2>3, <2>4, <2>5, JitAssumption DEF SaveGrants, JitInv
<1>3. ASSUME NEW id \in Grant, RevokeGrant(id) PROVE JitInv'
  <2>. DEFINE n == MarkRevoked(grants, {id})
  <2>1. /\ SaveGrants(n) /\ now' = now
        /\ closed' = IF jitFails' = jitFails THEN closed \cup {id} ELSE closed
    BY <1>3 DEF RevokeGrant
  <2>2. Keyed(n, Closing(closed \cup {id})) /\ Ids(n) = Ids(grants)
    BY MarkFacts DEF JitInv
  <2>. HIDE DEF n
  <2>3. Keyed(n, Closing(closed))
    BY <2>2, ClosingLess
  <2>4. CASE grantsFile' = Newest(n) /\ UNCHANGED jitFails
    <3>1. Keyed(Newest(n), Closing(closed \cup {id})) /\ Len(Newest(n)) <= MaxGrants /\ Ids(Newest(n)) \subseteq Ids(n)
      BY <2>2, NewestFacts
    <3>. QED BY <2>1, <2>2, <2>4, <3>1 DEF SaveGrants, JitInv
  <2>5. CASE jitFails < MaxJitFails /\ jitFails' = jitFails + 1 /\ UNCHANGED grantsFile
    <3>1. jitFails' # jitFails /\ jitFails' \in 0 .. MaxJitFails
      BY <2>5, JitAssumption DEF JitInv
    <3>. QED BY <2>1, <2>2, <2>3, <2>5, <3>1 DEF SaveGrants, JitInv
  <2>. QED BY <2>1, <2>4, <2>5 DEF SaveGrants
<1>4. Expired(grants) \subseteq Grant
  BY KeyedFacts DEF JitInv, Expired, Closing, GrantRecord
<1>5. CASE Expire
  <2>1. CASE /\ grants' = MarkRevoked(grants, Expired(grants))
             /\ grantsFile' = IF Expired(grants) = {} THEN grantsFile ELSE Newest(grants')
             /\ closed' = closed \cup Expired(grants)
             /\ UNCHANGED jitFails
    <3>. DEFINE n == MarkRevoked(grants, Expired(grants))
    <3>1. Keyed(n, Closing(closed')) /\ Ids(n) = Ids(grants)
      BY <2>1, MarkFacts DEF JitInv
    <3>. HIDE DEF n
    <3>2. Keyed(Newest(n), Closing(closed')) /\ Len(Newest(n)) <= MaxGrants /\ Ids(Newest(n)) \subseteq Ids(n)
      BY <3>1, NewestFacts
    <3>3. CASE Expired(grants) = {}
      <4>1. closed' = closed /\ grantsFile' = grantsFile /\ grants' = n
        BY <2>1, <3>3 DEF n
      <4>. QED BY <1>5, <2>1, <3>1, <4>1 DEF Expire, JitInv
    <3>4. CASE Expired(grants) # {}
      <4>1. grantsFile' = Newest(n) /\ grants' = n
        BY <2>1, <3>4 DEF n
      <4>. QED BY <1>4, <1>5, <2>1, <3>1, <3>2, <4>1 DEF Expire, JitInv
    <3>. QED BY <3>3, <3>4
  <2>2. ASSUME NEW done \in SUBSET Expired(grants), NEW torn \in Expired(grants),
               jitFails < MaxJitFails /\ jitFails' = jitFails + 1,
               grants' = MarkRevoked(grants, done \cup {torn}),
               grantsFile' = IF done = {} THEN grantsFile ELSE Newest(MarkRevoked(grants, done)),
               closed' = closed \cup done
        PROVE  JitInv'
    <3>. DEFINE n == MarkRevoked(grants, done \cup {torn})
                k == MarkRevoked(grants, done)
    <3>1. Keyed(n, Closing(closed \cup (done \cup {torn}))) /\ Ids(n) = Ids(grants)
      BY MarkFacts DEF JitInv
    <3>2. Keyed(k, Closing(closed \cup done)) /\ Ids(k) = Ids(grants)
      BY MarkFacts DEF JitInv
    <3>. HIDE DEF n, k
    <3>3. Keyed(n, Closing(closed \cup done))
      BY <3>1, ClosingLess
    <3>4. /\ Keyed(Newest(k), Closing(closed \cup done)) /\ Len(Newest(k)) <= MaxGrants
          /\ Ids(Newest(k)) \subseteq Ids(k)
      BY <3>2, NewestFacts
    <3>5. jitFails' \in 0 .. MaxJitFails /\ closed' \subseteq Grant /\ now' = now
      BY <1>4, <1>5, <2>2, JitAssumption DEF JitInv, Expire
    <3>6. CASE done = {}
      <4>1. closed' = closed /\ grantsFile' = grantsFile /\ grants' = n /\ closed \cup done = closed
        BY <2>2, <3>6 DEF n
      <4>2. Keyed(n, Closing(closed))
        BY <3>3, <4>1
      <4>. QED BY <3>1, <3>5, <4>1, <4>2 DEF JitInv
    <3>7. CASE done # {}
      <4>1. grantsFile' = Newest(k) /\ grants' = n
        BY <2>2, <3>7 DEF n, k
      <4>. QED BY <2>2, <3>1, <3>2, <3>3, <3>4, <3>5, <4>1 DEF JitInv
    <3>. QED BY <3>6, <3>7
  <2>. QED BY <1>5, <2>1, <2>2 DEF Expire
<1>6. CASE ClockTicks
  BY <1>6, JitAssumption DEF JitInv, ClockTicks
<1>7. CASE JitRestart
  BY <1>7 DEF JitInv, JitRestart
<1>. QED BY <1>1, <1>2, <1>3, <1>5, <1>6, <1>7 DEF JitNext

LEMMA JitInvMeans ==
  ASSUME JitInv
  PROVE  JitTypeOK /\ ClosedStaysClosed
<1>1. ASSUME NEW map \in {grants, grantsFile}
      PROVE  /\ \A i \in DOMAIN map : map[i] \in GrantRecord
             /\ \A i, j \in DOMAIN map : map[i].id = map[j].id => i = j
  <2>1. Keyed(map, Closing(closed))
    BY <1>1 DEF JitInv
  <2>. QED BY <2>1, KeyedFacts DEF Keyed, Closing
<1>2. ClosedStaysClosed
  BY KeyedFacts DEF JitInv, ClosedStaysClosed, Serving, ActiveWindow, Closing
<1>. QED BY <1>1, <1>2 DEF JitInv, JitTypeOK

LEMMA JitStart ==
  ASSUME JitInit
  PROVE  JitInv
<1>1. Keyed(<<>>, Closing({})) /\ Len(<<>>) = 0 /\ Ids(<<>>) = {}
  BY DEF Keyed, Ids
<1>. QED BY <1>1, JitAssumption DEF JitInit, JitInv
-----------------------------------------------------------------------------
\* Packages: what a record may be once the versions of g are confirmed.
WayBack(r, g) ==
  /\ r.state = "unknown" <=> r.current = NoVersion
  /\ r.state \in {"upgrading", "rollback_required", "rolling_back"} => r.previous \in g
  /\ r.state \in {"installed", "rolled_back"} => r.current \in g

PkgInv ==
  /\ packages \in [Package -> PkgRecord] /\ packagesFile \in [Package -> PkgRecord]
  /\ good \in [Package -> SUBSET Version]
  /\ pkgFaults \in 0 .. MaxPkgFaults
  /\ \A p \in Package : WayBack(packages[p], good[p]) /\ WayBack(packagesFile[p], good[p])

LEMMA PkgSaved ==
  ASSUME PkgInv, NEW p \in Package, NEW r \in PkgRecord, SavePackage(p, r),
         good' \in [Package -> SUBSET Version], \A q \in Package : good[q] \subseteq good'[q],
         WayBack(r, good'[p])
  PROVE  PkgInv'
<1>1. packages' = [packages EXCEPT ![p] = r]
  BY DEF SavePackage
<1>2. packages' \in [Package -> PkgRecord] /\ \A q \in Package : WayBack(packages'[q], good'[q])
  BY <1>1 DEF PkgInv, WayBack
<1>3. \A q \in Package : WayBack(packagesFile[q], good'[q])
  BY DEF PkgInv, WayBack
<1>4. pkgFaults' \in 0 .. MaxPkgFaults
  BY PkgAssumption DEF SavePackage, PkgFault, PkgInv
<1>5. packagesFile' = packages' \/ packagesFile' = packagesFile
  BY DEF SavePackage
<1>6. packagesFile' \in [Package -> PkgRecord] /\ \A q \in Package : WayBack(packagesFile'[q], good'[q])
  BY <1>2, <1>3, <1>5 DEF PkgInv
<1>. QED BY <1>2, <1>4, <1>6 DEF PkgInv

LEMMA PkgStep ==
  ASSUME PkgInv, [PkgNext]_pkgVars
  PROVE  PkgInv'
<1>1. ASSUME NEW p \in Package
      PROVE  /\ packages[p] \in PkgRecord /\ packages[p].state \in PkgStates
             /\ packages[p].current \in Version \cup {NoVersion}
             /\ packages[p].previous \in Version \cup {NoVersion}
             /\ WayBack(packages[p], good[p]) /\ good[p] \subseteq Version
  BY DEF PkgInv, PkgRecord
<1>2. ASSUME NEW p \in Package, NEW v \in Version, Install(p, v) PROVE PkgInv'
  <2>. DEFINE r == [packages[p] EXCEPT !.state = "installing", !.current = v]
  <2>1. SavePackage(p, r) /\ good' = good
    BY <1>2 DEF Install
  <2>2. r \in PkgRecord /\ WayBack(r, good[p])
    BY <1>1, PkgAssumption DEF PkgRecord, PkgStates, WayBack
  <2>. HIDE DEF r
  <2>. QED BY <2>1, <2>2, PkgSaved DEF PkgInv
<1>3. ASSUME NEW p \in Package, NEW v \in Version, Upgrade(p, v) PROVE PkgInv'
  <2>. DEFINE r == [state |-> "upgrading", current |-> v, previous |-> packages[p].current]
  <2>1. SavePackage(p, r) /\ good' = good /\ packages[p].state = "installed"
    BY <1>3 DEF Upgrade
  <2>2. r \in PkgRecord /\ WayBack(r, good[p])
    BY <1>1, <2>1, PkgAssumption DEF PkgRecord, PkgStates, WayBack
  <2>. HIDE DEF r
  <2>. QED BY <2>1, <2>2, PkgSaved DEF PkgInv
<1>4. ASSUME NEW p \in Package, Confirm(p) PROVE PkgInv'
  <2>. DEFINE r == [packages[p] EXCEPT !.state = "installed"]
  <2>1. /\ SavePackage(p, r) /\ packages[p].state # "unknown"
        /\ good' = [good EXCEPT ![p] = good[p] \cup {packages[p].current}]
    BY <1>1, <1>4 DEF Confirm, Transition, PkgInv
  <2>2. packages[p].current \in Version
    BY <1>1, <2>1 DEF WayBack
  <2>3. /\ good' \in [Package -> SUBSET Version] /\ \A q \in Package : good[q] \subseteq good'[q]
        /\ packages[p].current \in good'[p]
    BY <1>1, <2>1, <2>2 DEF PkgInv
  <2>4. r \in PkgRecord /\ r.state = "installed" /\ r.current = packages[p].current
    BY <1>1 DEF PkgRecord, PkgStates
  <2>. HIDE DEF r
  <2>5. WayBack(r, good'[p])
    BY <2>2, <2>3, <2>4, PkgAssumption DEF WayBack
  <2>. QED BY <2>1, <2>3, <2>4, <2>5, PkgSaved
<1>5. ASSUME NEW p \in Package, Fail(p) PROVE PkgInv'
  <2>. DEFINE next == IF packages[p].state = "upgrading" THEN "rollback_required" ELSE "failed"
              r == [packages[p] EXCEPT !.state = next]
  <2>1. SavePackage(p, r) /\ packages[p].state # "unknown" /\ good' = good
    BY <1>5 DEF Fail, Transition
  <2>2. r \in PkgRecord
    BY <1>1 DEF PkgRecord, PkgStates
  <2>3. /\ r.state = next /\ r.current = packages[p].current /\ r.previous = packages[p].previous
    BY <1>1 DEF PkgRecord
  <2>. HIDE DEF r
  <2>4. WayBack(r, good[p])
    BY <1>1, <2>1, <2>3 DEF WayBack
  <2>. QED BY <2>1, <2>2, <2>4, PkgSaved DEF PkgInv
<1>6. ASSUME NEW p \in Package, Rollback(p) PROVE PkgInv'
  <2>. DEFINE r == packages[p]
              b == [r EXCEPT !.state = "rolling_back"]
              e == [state |-> "rolled_back", current |-> r.previous, previous |-> NoVersion]
              begun == [packages EXCEPT ![p] = b]
              done == [packages EXCEPT ![p] = e]
  <2>1. /\ r.state \in {"rollback_required", "upgrading"} /\ r.previous # NoVersion /\ good' = good
        /\ \/ packages' = done /\ packagesFile' = done /\ UNCHANGED pkgFaults
           \/ packages' = begun /\ UNCHANGED packagesFile /\ PkgFault
           \/ packages' = begun /\ packagesFile' = begun /\ PkgFault
           \/ packages' = done /\ packagesFile' = begun /\ PkgFault
    BY <1>1, <1>6 DEF Rollback, CanRollBackFrom, PkgInv, PkgRecord
  <2>2. b \in PkgRecord /\ WayBack(b, good[p]) /\ e \in PkgRecord /\ WayBack(e, good[p])
    BY <1>1, <2>1, PkgAssumption DEF PkgRecord, PkgStates, WayBack
  <2>. HIDE DEF b, e
  <2>3. /\ begun \in [Package -> PkgRecord] /\ \A q \in Package : WayBack(begun[q], good[q])
        /\ done \in [Package -> PkgRecord] /\ \A q \in Package : WayBack(done[q], good[q])
    BY <2>2 DEF PkgInv
  <2>. HIDE DEF begun, done
  <2>4. pkgFaults' \in 0 .. MaxPkgFaults
    BY <2>1, PkgAssumption DEF PkgFault, PkgInv
  <2>5. packages' \in {begun, done} /\ packagesFile' \in {begun, done, packagesFile}
    BY <2>1
  <2>. QED BY <2>1, <2>3, <2>4, <2>5 DEF PkgInv
<1>7. CASE PkgRestart
  BY <1>7 DEF PkgInv, PkgRestart
<1>8. CASE UNCHANGED pkgVars
  BY <1>8 DEF PkgInv, pkgVars
<1>. QED BY <1>2, <1>3, <1>4, <1>5, <1>6, <1>7, <1>8 DEF PkgNext

LEMMA PkgStart ==
  ASSUME PkgInit
  PROVE  PkgInv
BY PkgAssumption DEF PkgInit, PkgInv, PkgRecord, PkgStates, WayBack

LEMMA PkgInvMeans ==
  ASSUME PkgInv
  PROVE  PkgTypeOK /\ KnownGoodIsKept
BY DEF PkgInv, PkgTypeOK, KnownGoodIsKept, WayBack

-----------------------------------------------------------------------------
\* Policies: a map keeps its revisions newest first, ...
Filed(m, n) ==
  /\ m \in Seq(Revision)
  /\ \A i \in 1 .. Len(m) : m[i].id <= n /\ m[i].version <= m[i].id
  /\ \A i, j \in 1 .. Len(m) : i < j => /\ m[i].id > m[j].id
                                        /\ m[i].tenant = m[j].tenant => m[i].version > m[j].version

\* ... a pointer points to a revision of its tenant, ...
Pointed(m, act) ==
  \A t \in PolTenant, i \in 1 .. Len(m) : act[t] = m[i].id => m[i].tenant = t

\* ... and that is the one that is marked.
Marked(m, act) ==
  \A i \in 1 .. Len(m) : m[i].state = "active" <=> act[m[i].tenant] = m[i].id

\* A pointer of the file is lost at the limit only.
LostAtLimit(m, act) ==
  \A t \in PolTenant :
     act[t] \notin RevIds(m) \cup {NoRevision}
       => Len(m) = MaxRevisions /\ \A id \in RevIds(m) : id > act[t]

Pointers == [PolTenant -> 1 .. MaxCreated \cup {NoRevision}]

PolInv ==
  /\ created \in 0 .. MaxCreated /\ damage \in BOOLEAN /\ polFaults \in 0 .. MaxPolFaults
  /\ polFile \in [revisions : Seq(Revision), active : Pointers, damaged : BOOLEAN]
  /\ active \in Pointers
  /\ Filed(revisions, created) /\ Filed(polFile.revisions, created)
  /\ Len(polFile.revisions) <= MaxRevisions
  /\ Pointed(revisions, active) /\ Pointed(polFile.revisions, polFile.active)
  /\ \A t \in PolTenant : active[t] \in RevIds(revisions) \cup {NoRevision}
  /\ LostAtLimit(polFile.revisions, polFile.active)
  /\ ~damage => Marked(revisions, active) /\ Marked(polFile.revisions, polFile.active)

LEMMA FiledFacts ==
  ASSUME NEW m, NEW n \in Nat, Filed(m, n)
  PROVE  /\ m \in Seq(Revision) /\ Len(m) \in Nat /\ DOMAIN m = 1 .. Len(m)
         /\ \A i \in 1 .. Len(m) :
               /\ m[i] \in Revision /\ m[i].id \in 1 .. MaxCreated /\ m[i].tenant \in PolTenant
               /\ m[i].version \in 1 .. MaxCreated /\ m[i].id \in 1 .. n /\ m[i].version <= m[i].id
         /\ RevIds(m) = {m[i].id : i \in 1 .. Len(m)}
         /\ \A i, j \in 1 .. Len(m) : m[i].id = m[j].id => i = j
<1>1. m \in Seq(Revision) /\ Len(m) \in Nat /\ DOMAIN m = 1 .. Len(m)
  BY LenProperties DEF Filed
<1>2. ASSUME NEW i \in 1 .. Len(m)
      PROVE  /\ m[i] \in Revision /\ m[i].id \in 1 .. MaxCreated /\ m[i].tenant \in PolTenant
             /\ m[i].version \in 1 .. MaxCreated /\ m[i].id \in 1 .. n /\ m[i].version <= m[i].id
  <2>1. m[i] \in Revision
    BY <1>1, ElementOfSeq
  <2>2. m[i].id \in 1 .. MaxCreated /\ m[i].version \in 1 .. MaxCreated /\ m[i].tenant \in PolTenant
    BY <2>1 DEF Revision
  <2>3. m[i].id <= n /\ m[i].version <= m[i].id
    BY DEF Filed
  <2>. QED BY <2>1, <2>2, <2>3
<1>3. ASSUME NEW i \in 1 .. Len(m), NEW j \in 1 .. Len(m), m[i].id = m[j].id PROVE i = j
  <2>1. m[i].id \in Int /\ m[j].id \in Int /\ i \in Int /\ j \in Int
    BY <1>2
  <2>2. ~(i < j) /\ ~(j < i)
    BY <1>3, <2>1 DEF Filed
  <2>. QED BY <2>1, <2>2
<1>. QED BY <1>1, <1>2, <1>3 DEF RevIds

LEMMA FiledPart ==
  ASSUME NEW m, NEW n \in Nat, Filed(m, n), NEW k \in 0 .. Len(m)
  PROVE  LET c == SubSeq(m, 1, k)
         IN  Filed(c, n) /\ Len(c) = k /\ \A i \in 1 .. k : c[i] = m[i] /\ i \in 1 .. Len(m)
<1>. DEFINE c == SubSeq(m, 1, k)
<1>1. m \in Seq(Revision) /\ Len(m) \in Nat
  BY FiledFacts
<1>2. c \in Seq(Revision) /\ Len(c) = k /\ \A i \in 1 .. k : c[i] = m[i]
  BY <1>1, FirstPart
<1>3. \A i \in 1 .. k : i \in 1 .. Len(m)
  BY <1>1
<1>. HIDE DEF c
<1>4. Filed(c, n)
  BY <1>2, <1>3 DEF Filed
<1>. QED BY <1>2, <1>3, <1>4 DEF c

\* What the file keeps of a map
LEMMA NewestRevisionsFacts ==
  ASSUME NEW m, NEW n \in Nat, Filed(m, n), NEW act \in Pointers, Pointed(m, act),
         \A t \in PolTenant : act[t] \in RevIds(m) \cup {NoRevision}
  PROVE  LET c == NewestRevisions(m)
         IN  /\ Filed(c, n) /\ Len(c) <= MaxRevisions /\ Pointed(c, act) /\ LostAtLimit(c, act)
             /\ Marked(m, act) => Marked(c, act)
<1>. DEFINE k == IF Len(m) < MaxRevisions THEN Len(m) ELSE MaxRevisions
            c == NewestRevisions(m)
<1>1. /\ Len(m) \in Nat /\ MaxRevisions \in Nat /\ k \in 0 .. Len(m) /\ k <= MaxRevisions
      /\ (k < Len(m) => k = MaxRevisions)
  BY FiledFacts, PolAssumption
<1>2. c = SubSeq(m, 1, k)
  BY DEF NewestRevisions
<1>. HIDE DEF c, k
<1>3. Filed(c, n) /\ Len(c) = k /\ \A i \in 1 .. k : c[i] = m[i] /\ i \in 1 .. Len(m)
  BY <1>1, <1>2, FiledPart
<1>4. Pointed(c, act)
  BY <1>3 DEF Pointed
<1>5. Marked(m, act) => Marked(c, act)
  BY <1>3 DEF Marked
<1>6. ASSUME NEW t \in PolTenant, act[t] \notin RevIds(c) \cup {NoRevision}
      PROVE  Len(c) = MaxRevisions /\ \A id \in RevIds(c) : id > act[t]
  <2>1. PICK j \in 1 .. Len(m) : act[t] = m[j].id
    BY <1>6, FiledFacts
  <2>2. RevIds(c) = {c[i].id : i \in 1 .. k}
    BY <1>3, FiledFacts
  <2>3. ~(j <= k) /\ j \in Int /\ k \in Int
    BY <1>1, <1>3, <1>6, <2>1, <2>2
  <2>4. Len(c) = MaxRevisions
    BY <1>1, <1>3, <2>1, <2>3
  <2>5. ASSUME NEW i \in 1 .. k PROVE c[i].id > act[t]
    <3>1. i < j /\ i \in 1 .. Len(m)
      BY <1>3, <2>3
    <3>. QED BY <1>3, <2>1, <3>1 DEF Filed
  <2>. QED BY <2>2, <2>4, <2>5
<1>7. LostAtLimit(c, act)
  BY <1>6 DEF LostAtLimit
<1>. QED BY <1>1, <1>3, <1>4, <1>5, <1>7 DEF c

LEMMA PolSaved ==
  ASSUME PolInv, NEW m, NEW act \in Pointers, SavePolicies(m, act),
         created' \in 0 .. MaxCreated, created <= created', Filed(m, created'), Pointed(m, act),
         \A t \in PolTenant : act[t] \in RevIds(m) \cup {NoRevision}, ~damage => Marked(m, act)
  PROVE  PolInv'
<1>1. /\ revisions' = m /\ active' = act /\ damage' = damage
      /\ created \in Nat /\ created' \in Nat
  BY DEF SavePolicies, PolInv
<1>2. polFaults' \in 0 .. MaxPolFaults
  BY PolAssumption DEF SavePolicies, PolInv, PolFault
<1>. DEFINE c == NewestRevisions(m)
            n == created'
<1>3. /\ Filed(c, n) /\ Len(c) <= MaxRevisions /\ Pointed(c, act) /\ LostAtLimit(c, act)
      /\ Marked(m, act) => Marked(c, act)
  <2>1. n \in Nat /\ Filed(m, n)
    BY <1>1
  <2>. HIDE DEF n
  <2>. QED BY <2>1, NewestRevisionsFacts
<1>4. Filed(polFile.revisions, n)
  <2>1. n \in Nat /\ created <= n /\ created \in Nat /\ Filed(polFile.revisions, created)
    BY <1>1 DEF PolInv
  <2>. HIDE DEF n
  <2>2. \A i \in 1 .. Len(polFile.revisions) : polFile.revisions[i].id <= n
    BY <2>1, FiledFacts
  <2>. QED BY <2>1, <2>2 DEF Filed
<1>5. CASE polFile' = [revisions |-> c, active |-> act, damaged |-> FALSE]
  <2>1. polFile'.revisions = c /\ polFile'.active = act
    BY <1>5
  <2>2. polFile' \in [revisions : Seq(Revision), active : Pointers, damaged : BOOLEAN]
    BY <1>3, <1>5 DEF Filed
  <2>. HIDE DEF c
  <2>. QED BY <1>1, <1>2, <1>3, <2>1, <2>2 DEF PolInv
<1>6. CASE polFile' = polFile
  BY <1>1, <1>2, <1>4, <1>6 DEF PolInv
<1>. QED BY <1>5, <1>6 DEF SavePolicies

LEMMA CreateKeeps ==
  ASSUME PolInv, NEW t \in PolTenant, CreateRevision(t)
  PROVE  PolInv'
<1>. DEFINE v == Max(Versions(t) \cup {0}) + 1
            r == [id |-> created', tenant |-> t, version |-> v, state |-> "draft"]
            m == revisions
            n == <<r>> \o m
<1>1. /\ created < MaxCreated /\ created' = created + 1 /\ SavePolicies(n, active)
      /\ created \in Nat /\ MaxCreated \in Nat
  BY PolAssumption DEF CreateRevision, PolInv
<1>2. /\ m \in Seq(Revision) /\ Len(m) \in Nat /\ DOMAIN m = 1 .. Len(m)
      /\ \A i \in 1 .. Len(m) :
            /\ m[i] \in Revision /\ m[i].id \in 1 .. MaxCreated /\ m[i].tenant \in PolTenant
            /\ m[i].version \in 1 .. MaxCreated /\ m[i].id \in 1 .. created /\ m[i].version <= m[i].id
      /\ RevIds(m) = {m[i].id : i \in 1 .. Len(m)}
  BY <1>1, FiledFacts DEF PolInv
<1>3. /\ v \in 1 .. created + 1
      /\ \A i \in 1 .. Len(m) : m[i].tenant = t => v > m[i].version
  <2>. DEFINE V == Versions(t) \cup {0}
  <2>1. \A i \in 1 .. Len(m) : m[i].version \in 0 .. created
    BY <1>1, <1>2
  <2>2. V \in SUBSET (0 .. created) /\ V # {}
    BY <1>1, <1>2, <2>1 DEF Versions
  <2>3. \A i \in 1 .. Len(m) : m[i].tenant = t => m[i].version \in V
    BY <1>2 DEF Versions
  <2>. HIDE DEF V
  <2>4. Max(V) \in 0 .. created /\ \A x \in V : x <= Max(V)
    BY <1>1, <2>2, MaxIsIn
  <2>5. v = Max(V) + 1
    BY DEF V
  <2>. HIDE DEF v
  <2>6. v \in 1 .. created + 1
    BY <1>1, <2>4, <2>5
  <2>7. ASSUME NEW i \in 1 .. Len(m), m[i].tenant = t PROVE v > m[i].version
    <3>1. m[i].version <= Max(V) /\ m[i].version \in 0 .. created
      BY <2>1, <2>3, <2>4, <2>7
    <3>. QED BY <2>4, <2>5, <3>1
  <2>. QED BY <2>6, <2>7
<1>. HIDE DEF v
<1>4. /\ r \in Revision /\ r.id = created + 1 /\ r.version = v /\ r.tenant = t /\ r.state = "draft"
  <2>1. created + 1 \in 1 .. MaxCreated /\ v \in 1 .. MaxCreated
    BY <1>1, <1>3
  <2>. QED BY <1>1, <2>1 DEF Revision
<1>. HIDE DEF r
<1>5. /\ n \in Seq(Revision) /\ Len(n) = Len(m) + 1 /\ DOMAIN n = 1 .. Len(m) + 1
      /\ n[1] = r
      /\ \A i \in 1 .. Len(m) + 1 : i # 1 => i - 1 \in 1 .. Len(m) /\ n[i] = m[i - 1]
  BY <1>2, <1>4, InFront
<1>. HIDE DEF n
<1>6. \A i \in 1 .. Len(n) : i = 1 \/ (i # 1 /\ i - 1 \in 1 .. Len(m) /\ n[i] = m[i - 1])
  BY <1>5
<1>7. Filed(n, created + 1)
  <2>1. ASSUME NEW i \in 1 .. Len(n) PROVE n[i].id <= created + 1 /\ n[i].version <= n[i].id
    <3>1. CASE i = 1
      BY <1>1, <1>3, <1>4, <1>5, <3>1
    <3>2. CASE i # 1
      <4>1. i - 1 \in 1 .. Len(m) /\ n[i] = m[i - 1]
        BY <1>6, <3>2
      <4>2. m[i - 1].id \in 1 .. created /\ m[i - 1].version <= m[i - 1].id
        BY <1>2, <4>1
      <4>. QED BY <1>1, <4>1, <4>2
    <3>. QED BY <3>1, <3>2
  <2>2. ASSUME NEW i \in 1 .. Len(n), NEW j \in 1 .. Len(n), i < j
        PROVE  /\ n[i].id > n[j].id
               /\ n[i].tenant = n[j].tenant => n[i].version > n[j].version
    <3>1. j - 1 \in 1 .. Len(m) /\ n[j] = m[j - 1] /\ m[j - 1].id \in 1 .. created
      <4>1. j # 1
        BY <2>2
      <4>. QED BY <1>2, <1>6, <4>1
    <3>2. CASE i = 1
      BY <1>1, <1>3, <1>4, <1>5, <3>1, <3>2
    <3>3. CASE i # 1
      <4>1. i - 1 \in 1 .. Len(m) /\ n[i] = m[i - 1] /\ i - 1 < j - 1
        BY <1>6, <2>2, <3>3
      <4>. QED BY <3>1, <4>1 DEF PolInv, Filed
    <3>. QED BY <3>2, <3>3
  <2>. QED BY <1>5, <2>1, <2>2 DEF Filed
<1>8. \A x \in PolTenant : active[x] \in RevIds(m) \cup {NoRevision}
  BY DEF PolInv
<1>9. \A x \in PolTenant : active[x] # created + 1
  BY <1>1, <1>2, <1>8, PolAssumption
<1>10. Pointed(n, active)
  <2>1. ASSUME NEW x \in PolTenant, NEW i \in 1 .. Len(n), active[x] = n[i].id PROVE n[i].tenant = x
    <3>1. i # 1
      BY <1>4, <1>5, <1>9, <2>1
    <3>2. i - 1 \in 1 .. Len(m) /\ n[i] = m[i - 1]
      BY <1>6, <3>1
    <3>. QED BY <2>1, <3>2 DEF PolInv, Pointed
  <2>. QED BY <2>1 DEF Pointed
<1>11. RevIds(m) \subseteq RevIds(n)
  <2>1. ASSUME NEW i \in 1 .. Len(m) PROVE m[i].id \in RevIds(n)
    <3>1. i + 1 \in 1 .. Len(m) + 1 /\ i + 1 # 1 /\ i + 1 - 1 = i
      BY <1>2
    <3>2. n[i + 1] = m[i]
      BY <1>5, <3>1
    <3>. QED BY <1>5, <3>1, <3>2 DEF RevIds
  <2>. QED BY <1>2, <2>1
<1>12. ASSUME ~damage PROVE Marked(n, active)
  <2>1. ASSUME NEW i \in 1 .. Len(n)
        PROVE  n[i].state = "active" <=> active[n[i].tenant] = n[i].id
    <3>1. CASE i = 1
      BY <1>4, <1>5, <1>9, <3>1
    <3>2. CASE i # 1
      <4>1. i - 1 \in 1 .. Len(m) /\ n[i] = m[i - 1]
        BY <1>6, <3>2
      <4>. QED BY <1>12, <4>1 DEF PolInv, Marked
    <3>. QED BY <3>1, <3>2
  <2>. QED BY <2>1 DEF Marked
<1>13. active \in Pointers /\ created' \in 0 .. MaxCreated /\ created <= created'
  BY <1>1 DEF PolInv
<1>14. Filed(n, created')
  BY <1>1, <1>7
<1>15. \A x \in PolTenant : active[x] \in RevIds(n) \cup {NoRevision}
  BY <1>8, <1>11
<1>. QED BY <1>1, <1>10, <1>12, <1>13, <1>14, <1>15, PolSaved

\* A revision with another mark
LEMMA WithStateFacts ==
  ASSUME NEW m, NEW n \in Nat, Filed(m, n), NEW id, NEW s \in {"active", "draft"}
  PROVE  LET w == WithState(m, id, s)
         IN  /\ Filed(w, n) /\ Len(w) = Len(m) /\ RevIds(w) = RevIds(m)
             /\ \A i \in 1 .. Len(m) : /\ w[i].id = m[i].id /\ w[i].tenant = m[i].tenant
                                       /\ w[i].state = IF m[i].id = id THEN s ELSE m[i].state
<1>. DEFINE w == WithState(m, id, s)
<1>1. /\ m \in Seq(Revision) /\ Len(m) \in Nat /\ DOMAIN m = 1 .. Len(m)
      /\ \A i \in 1 .. Len(m) : m[i] \in Revision
      /\ RevIds(m) = {m[i].id : i \in 1 .. Len(m)}
  BY FiledFacts
<1>2. w = [i \in 1 .. Len(m) |-> IF m[i].id = id THEN [m[i] EXCEPT !.state = s] ELSE m[i]]
  BY <1>1 DEF WithState
<1>3. ASSUME NEW i \in 1 .. Len(m)
      PROVE  /\ w[i] \in Revision
             /\ w[i].id = m[i].id /\ w[i].tenant = m[i].tenant /\ w[i].version = m[i].version
             /\ w[i].state = IF m[i].id = id THEN s ELSE m[i].state
  <2>1. w[i] = IF m[i].id = id THEN [m[i] EXCEPT !.state = s] ELSE m[i]
    BY <1>2
  <2>. HIDE DEF w
  <2>. QED BY <1>1, <2>1 DEF Revision
<1>4. w \in [1 .. Len(m) -> Revision]
  <2>1. DOMAIN w = 1 .. Len(m) /\ w = [i \in DOMAIN w |-> w[i]]
    BY <1>2
  <2>. HIDE DEF w
  <2>. QED BY <1>3, <2>1
<1>. HIDE DEF w
<1>5. w \in Seq(Revision) /\ Len(w) = Len(m) /\ DOMAIN w = 1 .. Len(m)
  BY <1>1, <1>4, MappedSeq
<1>6. Filed(w, n)
  BY <1>3, <1>5 DEF Filed
<1>7. RevIds(w) = RevIds(m)
  <2>1. RevIds(w) = {w[i].id : i \in 1 .. Len(m)}
    BY <1>5 DEF RevIds
  <2>. QED BY <1>1, <1>3, <2>1
<1>. QED BY <1>3, <1>5, <1>6, <1>7 DEF w

LEMMA ActivateKeeps ==
  ASSUME PolInv, NEW id \in 1 .. MaxCreated, Activate(id)
  PROVE  PolInv'
<1>. DEFINE m == revisions
            t == Rev(m, id).tenant
            former == active[t]
            k == CHOOSE i \in DOMAIN m : m[i].id = id
            w == WithState(m, former, "draft")
            x == WithState(w, id, "active")
            act == [active EXCEPT ![t] = id]
<1>1. /\ id \in RevIds(m) /\ SavePolicies(x, act) /\ created' = created /\ created \in Nat
      /\ created \in 0 .. MaxCreated /\ Filed(m, created) /\ active \in Pointers
      /\ created <= created
  BY DEF Activate, PolInv
<1>2. /\ m \in Seq(Revision) /\ Len(m) \in Nat /\ DOMAIN m = 1 .. Len(m)
      /\ \A i \in 1 .. Len(m) :
            /\ m[i] \in Revision /\ m[i].id \in 1 .. MaxCreated /\ m[i].tenant \in PolTenant
      /\ RevIds(m) = {m[i].id : i \in 1 .. Len(m)}
      /\ \A i, j \in 1 .. Len(m) : m[i].id = m[j].id => i = j
  BY <1>1, FiledFacts
<1>3. /\ k \in 1 .. Len(m) /\ m[k].id = id /\ t = m[k].tenant /\ t \in PolTenant
      /\ \A i \in 1 .. Len(m) : m[i].id = id => m[i].tenant = t
  <2>1. \E i \in DOMAIN m : m[i].id = id
    BY <1>1, <1>2
  <2>2. k \in DOMAIN m /\ m[k].id = id
    BY <2>1
  <2>3. t = m[k].tenant
    BY DEF Rev
  <2>. HIDE DEF k, t
  <2>. QED BY <1>2, <2>2, <2>3
<1>. HIDE DEF t, k
<1>4. /\ Filed(w, created) /\ Len(w) = Len(m) /\ RevIds(w) = RevIds(m)
      /\ \A i \in 1 .. Len(m) : /\ w[i].id = m[i].id /\ w[i].tenant = m[i].tenant
                                /\ w[i].state = IF m[i].id = former THEN "draft" ELSE m[i].state
  BY <1>1, WithStateFacts
<1>. HIDE DEF w
<1>5. /\ Filed(x, created) /\ Len(x) = Len(w) /\ RevIds(x) = RevIds(w)
      /\ \A i \in 1 .. Len(w) : /\ x[i].id = w[i].id /\ x[i].tenant = w[i].tenant
                                /\ x[i].state = IF w[i].id = id THEN "active" ELSE w[i].state
  BY <1>1, <1>4, WithStateFacts
<1>. HIDE DEF x
<1>6. \A i \in 1 .. Len(x) :
         /\ i \in 1 .. Len(m) /\ x[i].id = m[i].id /\ x[i].tenant = m[i].tenant /\ x[i].tenant \in PolTenant
         /\ x[i].state = IF m[i].id = id THEN "active" ELSE IF m[i].id = former THEN "draft" ELSE m[i].state
  BY <1>2, <1>4, <1>5
<1>7. act \in Pointers /\ \A y \in PolTenant : act[y] = IF y = t THEN id ELSE active[y]
  BY <1>1, <1>3 DEF Pointers
<1>. HIDE DEF act
<1>8. Pointed(x, act)
  <2>1. ASSUME NEW y \in PolTenant, NEW i \in 1 .. Len(x), act[y] = x[i].id PROVE x[i].tenant = y
    <3>1. CASE y = t
      BY <1>3, <1>6, <1>7, <2>1, <3>1
    <3>2. CASE y # t
      <4>1. active[y] = m[i].id /\ i \in 1 .. Len(m)
        BY <1>6, <1>7, <2>1, <3>2
      <4>2. m[i].tenant = y
        BY <4>1 DEF PolInv, Pointed
      <4>. QED BY <1>6, <4>2
    <3>. QED BY <3>1, <3>2
  <2>. QED BY <2>1 DEF Pointed
<1>9. \A y \in PolTenant : act[y] \in RevIds(x) \cup {NoRevision}
  <2>1. \A y \in PolTenant : active[y] \in RevIds(m) \cup {NoRevision}
    BY DEF PolInv
  <2>. QED BY <1>1, <1>4, <1>5, <1>7, <2>1
<1>10. ASSUME ~damage PROVE Marked(x, act)
  <2>1. ASSUME NEW i \in 1 .. Len(x)
        PROVE  x[i].state = "active" <=> act[x[i].tenant] = x[i].id
    <3>1. /\ i \in 1 .. Len(m) /\ x[i].id = m[i].id /\ x[i].tenant = m[i].tenant /\ m[i].tenant \in PolTenant
          /\ x[i].state = IF m[i].id = id THEN "active" ELSE IF m[i].id = former THEN "draft" ELSE m[i].state
          /\ m[i].state = "active" <=> active[m[i].tenant] = m[i].id
      BY <1>6, <1>10 DEF PolInv, Marked
    <3>2. CASE m[i].id = id
      BY <1>3, <1>7, <3>1, <3>2
    <3>3. CASE m[i].id # id /\ m[i].id = former
      <4>1. m[i].tenant = t
        BY <1>3, <3>1, <3>3 DEF PolInv, Pointed
      <4>. QED BY <1>7, <3>1, <3>3, <4>1
    <3>4. CASE m[i].id # id /\ m[i].id # former
      <4>1. CASE m[i].tenant = t
        BY <1>7, <3>1, <3>4, <4>1
      <4>2. CASE m[i].tenant # t
        BY <1>7, <3>1, <3>4, <4>2
      <4>. QED BY <4>1, <4>2
    <3>. QED BY <3>2, <3>3, <3>4
  <2>. QED BY <2>1 DEF Marked
<1>11. SavePolicies(x, act)
  BY <1>1 DEF act
<1>12. created' \in 0 .. MaxCreated /\ created <= created' /\ Filed(x, created')
  BY <1>1, <1>5
<1>. QED BY <1>7, <1>8, <1>9, <1>10, <1>11, <1>12, PolSaved

LEMMA PolRestartKeeps ==
  ASSUME PolInv, PolRestart
  PROVE  PolInv'
<1>. DEFINE f == polFile.revisions
<1>1. /\ UNCHANGED <<polFile, created, polFaults>> /\ created \in Nat /\ Filed(f, created)
      /\ polFile.active \in Pointers
  BY DEF PolRestart, PolInv
<1>2. /\ f \in Seq(Revision) /\ Len(f) \in Nat /\ DOMAIN f = 1 .. Len(f)
      /\ \A i \in 1 .. Len(f) : f[i].id \in 1 .. MaxCreated /\ f[i].tenant \in PolTenant
      /\ RevIds(f) = {f[i].id : i \in 1 .. Len(f)}
  BY <1>1, FiledFacts
<1>3. CASE polFile.damaged
  <2>1. PICK n \in 0 .. Len(f) - 1 : revisions' = SubSeq(f, 1, n)
    BY <1>3 DEF PolRestart
  <2>2. active' = [t \in PolTenant |-> NoRevision] /\ damage' = TRUE
    BY <1>3 DEF PolRestart
  <2>3. n \in 0 .. Len(f)
    BY <1>2
  <2>4. Filed(revisions', created)
    BY <1>1, <2>1, <2>3, FiledPart
  <2>5. /\ active' \in Pointers /\ \A t \in PolTenant : active'[t] = NoRevision
    BY <2>2 DEF Pointers
  <2>6. Pointed(revisions', active')
    <3>. DEFINE r == revisions'
    <3>1. \A i \in 1 .. Len(r) : r[i].id \in 1 .. MaxCreated
      <4>1. Filed(r, created)
        BY <2>4
      <4>. HIDE DEF r
      <4>. QED BY <1>1, <4>1, FiledFacts
    <3>. HIDE DEF r
    <3>2. \A t \in PolTenant, i \in 1 .. Len(r) : active'[t] # r[i].id
      BY <2>5, <3>1, PolAssumption
    <3>3. Pointed(r, active')
      BY <3>2 DEF Pointed
    <3>. QED BY <3>3 DEF r
  <2>. QED BY <1>1, <2>2, <2>4, <2>5, <2>6 DEF PolInv
<1>4. CASE ~polFile.damaged
  <2>1. /\ revisions' = f /\ damage' = damage
        /\ active' = [t \in PolTenant |-> IF polFile.active[t] \in RevIds(f) THEN polFile.active[t] ELSE NoRevision]
    BY <1>4 DEF PolRestart
  <2>2. active' \in Pointers
    BY <1>1, <2>1 DEF Pointers
  <2>3. \A t \in PolTenant : active'[t] = IF polFile.active[t] \in RevIds(f) THEN polFile.active[t] ELSE NoRevision
    BY <2>1
  <2>4. ASSUME NEW t \in PolTenant, NEW i \in 1 .. Len(f)
        PROVE  active'[t] = f[i].id <=> polFile.active[t] = f[i].id
    BY <1>2, <2>3, PolAssumption
  <2>5. Pointed(f, active')
    BY <2>4 DEF PolInv, Pointed
  <2>6. ~damage => Marked(f, active')
    BY <1>2, <2>4 DEF PolInv, Marked
  <2>7. \A t \in PolTenant : active'[t] \in RevIds(f) \cup {NoRevision}
    BY <2>3
  <2>. HIDE DEF f
  <2>8. Filed(revisions', created') /\ Pointed(revisions', active') /\ (~damage' => Marked(revisions', active'))
        /\ \A t \in PolTenant : active'[t] \in RevIds(revisions') \cup {NoRevision}
    BY <1>1, <2>1, <2>5, <2>6, <2>7
  <2>. QED BY <1>1, <2>1, <2>2, <2>8 DEF PolInv, f
<1>. QED BY <1>3, <1>4

LEMMA PolStep ==
  ASSUME PolInv, [PolNext]_polVars
  PROVE  PolInv'
<1>1. CASE FileDamaged
  <2>1. polFile' = [polFile EXCEPT !.damaged = TRUE] /\ UNCHANGED <<revisions, active, created, damage>>
    BY <1>1 DEF FileDamaged
  <2>2. /\ polFile'.revisions = polFile.revisions /\ polFile'.active = polFile.active
        /\ polFile' \in [revisions : Seq(Revision), active : Pointers, damaged : BOOLEAN]
    BY <2>1 DEF PolInv
  <2>3. polFaults' \in 0 .. MaxPolFaults
    BY <1>1, PolAssumption DEF FileDamaged, PolFault, PolInv
  <2>. QED BY <2>1, <2>2, <2>3 DEF PolInv
<1>2. CASE UNCHANGED polVars
  BY <1>2 DEF PolInv, polVars
<1>. QED BY <1>1, <1>2, CreateKeeps, ActivateKeeps, PolRestartKeeps DEF PolNext

LEMMA PolStart ==
  ASSUME PolInit
  PROVE  PolInv
<1>1. /\ Filed(<<>>, 0) /\ Len(<<>>) = 0
      /\ \A act : Pointed(<<>>, act) /\ Marked(<<>>, act)
  BY DEF Filed, Pointed, Marked
<1>2. active \in Pointers /\ \A t \in PolTenant : active[t] = NoRevision
  BY DEF PolInit, Pointers
<1>3. LostAtLimit(<<>>, active)
  BY <1>2 DEF LostAtLimit
<1>4. /\ polFile.revisions = <<>> /\ polFile.active = active /\ revisions = <<>>
      /\ created = 0 /\ damage = FALSE /\ polFaults = 0
      /\ polFile \in [revisions : Seq(Revision), active : Pointers, damaged : BOOLEAN]
  BY <1>2 DEF PolInit
<1>5. /\ Filed(revisions, created) /\ Filed(polFile.revisions, created)
      /\ Pointed(revisions, active) /\ Pointed(polFile.revisions, polFile.active)
      /\ Marked(revisions, active) /\ Marked(polFile.revisions, polFile.active)
      /\ LostAtLimit(polFile.revisions, polFile.active)
  BY <1>1, <1>3, <1>4
<1>6. created \in 0 .. MaxCreated /\ polFaults \in 0 .. MaxPolFaults
  BY <1>4, PolAssumption
<1>7. damage \in BOOLEAN
  BY <1>4
<1>8. Len(polFile.revisions) = 0 /\ 0 <= MaxRevisions
  BY <1>4, PolAssumption
<1>. QED BY <1>2, <1>4, <1>5, <1>6, <1>7, <1>8 DEF PolInv

LEMMA PolInvMeans ==
  ASSUME PolInv
  PROVE  PolTypeOK /\ PointerIsTheActiveOne /\ VersionsFollowCreation /\ ActiveIsLostOnlyAtTheLimit
<1>1. /\ created \in Nat /\ Filed(revisions, created) /\ Filed(polFile.revisions, created)
      /\ active \in Pointers
  BY DEF PolInv
<1>2. \A map \in {revisions, polFile.revisions} : \A i \in DOMAIN map : map[i] \in Revision
  BY <1>1, FiledFacts
<1>3. DOMAIN revisions = 1 .. Len(revisions)
  BY <1>1, FiledFacts
<1>. QED BY <1>1, <1>2, <1>3
     DEF PolInv, PolTypeOK, PointerIsTheActiveOne, VersionsFollowCreation, ActiveIsLostOnlyAtTheLimit,
         Pointers, Marked, Filed, LostAtLimit

-----------------------------------------------------------------------------
\* A behaviour of the fleet is a behaviour of every store.
THEOREM FleetIsItsStores == FleetSpec => DevSpec /\ JitSpec /\ PkgSpec /\ PolSpec
<1>1. FleetInit => DevInit /\ JitInit /\ PkgInit /\ PolInit
  BY DEF FleetInit
<1>2. ASSUME [FleetNext]_fleetVars
      PROVE  [DevNext]_devVars /\ [JitNext]_jitVars /\ [PkgNext]_pkgVars /\ [PolNext]_polVars
  <2>1. CASE UNCHANGED fleetVars
    BY <2>1 DEF fleetVars
  <2>2. CASE FleetNext
    <3>1. \/ DevNext /\ UNCHANGED <<jitVars, pkgVars, polVars>>
          \/ JitNext /\ UNCHANGED <<devVars, pkgVars, polVars>>
          \/ PkgNext /\ UNCHANGED <<devVars, jitVars, polVars>>
          \/ PolNext /\ UNCHANGED <<devVars, jitVars, pkgVars>>
      <4>1. EnrolAndReport \/ RegistryNext \/ RolloutNext => DevNext
        BY FleetAssumption DEF EnrolAndReport, DevNext, RegistryNext
      <4>. QED BY <2>2, <4>1 DEF FleetNext
    <3>. QED BY <3>1
  <2>. QED BY <1>2, <2>1, <2>2
<1>. QED BY <1>1, <1>2, PTL DEF FleetSpec, DevSpec, JitSpec, PkgSpec, PolSpec

(* ... so the registry of devices keeps its promise beside the others, ... *)
THEOREM DevicesStayOutOfTheFleet == FleetSpec => []DevicesStayOut
BY FleetIsItsStores, DevicesAlwaysStayOut, PTL

(* ... and so does the rollout of upgrades.                                *)
THEOREM UpgradesOfTheFleetAdvance == FleetSpec => UpgradesAdvance
BY FleetIsItsStores, UpgradesAlwaysAdvance, PTL

(* Grants (jit.js), packages (package-lifecycle.js) and policies           *)
(* (policy-registry.js) of any number keep what was acknowledged, over     *)
(* failed saves, restarts and full stores.                                 *)
THEOREM StoresAlwaysHold == FleetSpec => []AdminStoresHold
<1>. DEFINE I == JitInv /\ PkgInv /\ PolInv
<1>1. JitInit => JitInv
  BY JitStart
<1>2. JitInv /\ [JitNext]_jitVars => JitInv'
  BY JitStep
<1>3. PkgInit => PkgInv
  BY PkgStart
<1>4. PkgInv /\ [PkgNext]_pkgVars => PkgInv'
  BY PkgStep
<1>5. PolInit => PolInv
  BY PolStart
<1>6. PolInv /\ [PolNext]_polVars => PolInv'
  BY PolStep
<1>7. JitInv /\ PkgInv /\ PolInv => AdminStoresHold
  BY JitInvMeans, PkgInvMeans, PolInvMeans DEF AdminStoresHold
<1>. QED BY <1>1, <1>2, <1>3, <1>4, <1>5, <1>6, <1>7, FleetIsItsStores, PTL DEF JitSpec, PkgSpec, PolSpec
=============================================================================
