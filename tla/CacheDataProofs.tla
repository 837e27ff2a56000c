---------------------------- MODULE CacheDataProofs ----------------------------
(***************************************************************************)
(* Why the cache answers with the right data: what the front end keeps of  *)
(* the two maps, the disk and the readers, as long as evictors clear only  *)
(* zones that nobody is about to read from or to insert into.  Lemmas for  *)
(* the modules that compose the front end with a policy.                   *)
(***************************************************************************)
EXTENDS CacheProofs

Disk(p) == disk[p.zone][p.chunk_offset]
IdOf(p) == data_map[p.zone][p.chunk_offset]

\* Points at which a thread reads or has read.
Reading == {"read", "update_read", "release"}

\* The two maps are inverse to each other.
MapsInverse ==
  /\ \A id \in Ids : zone_map[id].type = "LOC" => IdOf(zone_map[id].location) = id
  /\ \A p \in zn_pair : IdOf(p) # NULL => zone_map[IdOf(p)] = Entry("LOC", p)

\* A mapped chunk is committed and holds the data.
MappedStored == \A p \in zn_pair : IdOf(p) # NULL => p \in Committed /\ Disk(p) = IdOf(p)

\* An id is fetched by one thread at a time, and is marked as being fetched.
OneFiller ==
  \A id \in Ids : \A t \in Fillers(id) :
    zone_map[id].type = "COND" /\ \A u \in Fillers(id) : u = t

\* A reader that has copied the location has the one of the entry, and one that is
\* about to read finds the data there.
ReadersFind ==
  \A t \in Threads :
    /\ pc[t] = "copy_type" /\ zone_map[data_id[t]].type = "LOC" =>
         result[t].location = zone_map[data_id[t]].location
    /\ pc[t] = "read" => result[t].location \in Committed /\ Disk(result[t].location) = data_id[t]

\* A chunk that was written and is not mapped yet belongs to one thread.
WritersStored ==
  /\ \A t \in Threads :
       /\ pc[t] \in Inserting \cup {"return_zone"} => Disk(location[t]) = data_id[t]
       /\ pc[t] \in Inserting => location[t] \in Committed /\ IdOf(location[t]) = NULL
  /\ \A t, u \in Threads :
       pc[t] \in Inserting /\ pc[u] \in Inserting /\ location[t] = location[u] => t = u

DataInv ==
  /\ MapsInverse
  /\ MappedStored
  /\ OneFiller
  /\ ReadersFind
  /\ ReadValid
  /\ WritersStored
  /\ ReadersBalanced

\* No mapping leads into the zone and none will: what clearing a zone is for.
Unmapped(z) ==
  /\ \A p \in zn_pair : p.zone = z => IdOf(p) = NULL
  /\ \A t \in Threads : pc[t] \in Inserting => location[t].zone # z

\* A full zone that is unmapped stays so, and without readers it gets none.
SettledStay ==
  \A z \in Written : Unmapped(z) => Unmapped(z)' /\ (Readers(z) = {} => Readers(z)' = {})

\* A step of t leaves the other threads where they are.
OthersStay(t) ==
  \A u \in Threads \ {t} :
    /\ pc'[u] = pc[u] /\ data_id'[u] = data_id[u] /\ result'[u] = result[u]
    /\ location'[u] = location[u] /\ data'[u] = data[u]
------------------------------------------------------------------------------
\* What these invariants say of the properties.
LEMMA DataAgree ==
  ASSUME NEW evictPcs, FrontTypeOK(evictPcs), DataInv
  PROVE  MapsAgree /\ ReadValid /\ ReadersBalanced
<1>1. \A id \in Ids : zone_map[id].location \in zn_pair
  BY DEF FrontTypeOK, mapTypeOK, zone_map_result
<1>2. MapsAgree
  BY <1>1, NullAssumption DEF DataInv, MapsInverse, MappedStored, MapsAgree, IdOf, Disk
<1> QED BY <1>2 DEF DataInv

\* Nothing is mapped at the start.
LEMMA DataInit == zn_init_cache => DataInv
<1> SUFFICES ASSUME zn_init_cache PROVE DataInv
  OBVIOUS
<1>1. \A p \in zn_pair : IdOf(p) = NULL
  BY NoPairFacts DEF zn_init_cache, zn_cachemap_init, IdOf
<1>2. \A id \in Ids : zone_map[id].type = "NONE"
  BY DEF zn_init_cache, zn_cachemap_init, NoEntry, Entry
<1>3. \A t \in Threads : pc[t] \in {"next", "bg_done"} /\ data_id[t] = NULL
  BY DEF zn_init_cache
<1>4. \A id \in Ids : Fillers(id) = {}
  BY <1>3, NullAssumption DEF Fillers
<1>5. \A z \in Zones : Readers(z) = {} /\ active_readers[z] = 0
  BY <1>3 DEF Readers, zn_init_cache, zn_cachemap_init
<1>6. ReadersBalanced
  BY <1>5, FS_EmptySet DEF ReadersBalanced
<1>7. MapsInverse /\ MappedStored /\ OneFiller
  BY <1>1, <1>2, <1>4 DEF MapsInverse, MappedStored, OneFiller
<1>8. ReadersFind /\ ReadValid /\ WritersStored
  BY <1>3 DEF ReadersFind, ReadValid, WritersStored, Inserting
<1> QED BY <1>6, <1>7, <1>8 DEF DataInv

\* The types the proofs below use.
LEMMA DataTypes ==
  ASSUME NEW evictPcs, FrontTypeOK(evictPcs)
  PROVE  /\ \A id \in Ids : zone_map[id].location \in zn_pair /\ zone_map[id].location.zone \in Zones
         /\ \A t \in Threads : result[t].location \in zn_pair /\ result[t].location.zone \in Zones
         /\ \A p \in zn_pair : IdOf(p) \in Ids \cup {NULL}
         /\ \A z : IsFiniteSet(Readers(z))
<1>1. \A p \in zn_pair : p.zone \in Zones /\ p.chunk_offset \in Chunks
  BY NoPairFacts
<1>2. \A e \in zone_map_result : e.location \in zn_pair
  BY DEF zone_map_result
<1>3. \A z : IsFiniteSet(Readers(z))
  BY ThreadsAssumption, FS_Subset DEF Readers
<1> QED BY <1>1, <1>2, <1>3 DEF FrontTypeOK, mapTypeOK, IdOf

\* The chunks a thread is about to insert, and those it may commit, are chunks.
LEMMA LocationTypes ==
  ASSUME ControlOK, NEW t \in Threads, pc[t] \in Inserting \cup {"return_zone"}
  PROVE  location[t] \in zn_pair
BY DEF ControlOK, HasLocation, Inserting

\* A step that changes no map, no reader and nothing on disk, of a thread that has
\* what the invariants ask for where it then is.
LEMMA DataKept ==
  ASSUME NEW evictPcs, FrontTypeOK(evictPcs), DataInv, NEW t \in Threads, OthersStay(t),
         UNCHANGED <<zone_map, data_map, active_readers, disk>>, Committed' = Committed,
         pc'[t] = "copy_type" /\ zone_map[data_id'[t]].type = "LOC" =>
           result'[t].location = zone_map[data_id'[t]].location,
         pc'[t] = "read" =>
           result'[t].location \in Committed /\ Disk(result'[t].location) = data_id'[t],
         pc'[t] \in {"update_read", "release"} => data'[t] \in {data_id'[t], NULL},
         pc'[t] \in Inserting =>
           pc[t] \in Inserting /\ location'[t] = location[t] /\ data_id'[t] = data_id[t],
         pc'[t] # "return_zone",
         \A id \in Ids : Fillers(id)' \subseteq Fillers(id),
         \A z \in Zones : Readers(z)' = Readers(z)
  PROVE  DataInv' /\ SettledStay
<1>1. MapsInverse' /\ MappedStored'
  BY DEF DataInv, MapsInverse, MappedStored, IdOf, Disk
<1>2. OneFiller'
  BY DEF DataInv, OneFiller
<1>3. ReadersFind'
  BY DEF DataInv, ReadersFind, OthersStay, Disk
<1>4. ReadValid'
  BY DEF DataInv, ReadValid, OthersStay
<1>5. WritersStored'
  BY DEF DataInv, WritersStored, OthersStay, Disk, IdOf
<1>6. ReadersBalanced'
  BY DEF DataInv, ReadersBalanced
<1>7. SettledStay
  BY DEF SettledStay, Unmapped, OthersStay, IdOf, Written
<1> QED BY <1>1, <1>2, <1>3, <1>4, <1>5, <1>6, <1>7 DEF DataInv

\* Whether another thread fills an id depends on the type of its entry alone, and
\* whether it reads a zone on the entry it copies.
LEMMA OthersFillers ==
  ASSUME NEW t \in Threads, OthersStay(t), NEW u \in Threads \ {t}, NEW id \in Ids,
         zone_map'[id].type = zone_map[id].type
  PROVE  u \in Fillers(id)' <=> u \in Fillers(id)
BY DEF OthersStay, Fillers

\* A thread that does not move reads the same zones, if the entry it copies stays.
LEMMA OthersReaders ==
  ASSUME NEW t \in Threads, OthersStay(t), NEW u \in Threads \ {t},
         pc[u] \in Copying => zone_map'[data_id[u]] = zone_map[data_id[u]]
  PROVE  \A z : u \in Readers(z)' <=> u \in Readers(z)
BY DEF OthersStay, Readers, Copying

\* Steps of a thread that neither reads nor has anything to insert.
LEMMA DataQuiet ==
  ASSUME NEW evictPcs, FrontTypeOK(evictPcs), DataInv, NEW t \in Threads, OthersStay(t),
         UNCHANGED <<zone_map, data_map, active_readers, disk>>, Committed' = Committed,
         pc[t] \notin Reading \cup Copying,
         pc'[t] \notin Inserting \cup Reading \cup Copying \cup {"return_zone"},
         pc'[t] = "find" \/ (data_id'[t] = data_id[t] /\ pc[t] # "find")
  PROVE  DataInv' /\ SettledStay
<1>1. \A id \in Ids : Fillers(id)' \subseteq Fillers(id)
  <2> SUFFICES ASSUME NEW id \in Ids, NEW u \in Fillers(id)' PROVE u \in Fillers(id)
    OBVIOUS
  <2>1. u \in Threads
    BY DEF Fillers
  <2>2. CASE u = t
    BY <2>2 DEF Fillers, Reading, Copying
  <2>3. CASE u # t
    BY <2>1, <2>3, OthersFillers
  <2> QED BY <2>2, <2>3
<1>2. \A z \in Zones : Readers(z)' = Readers(z)
  <2> SUFFICES ASSUME NEW z \in Zones, NEW u \in Threads PROVE u \in Readers(z)' <=> u \in Readers(z)
    BY DEF Readers
  <2>1. CASE u = t
    BY <2>1 DEF Readers, Reading, Copying
  <2>2. CASE u # t
    BY <2>2, OthersReaders
  <2> QED BY <2>1, <2>2
<1>3. pc'[t] \notin Inserting \cup {"copy_type", "return_zone", "read", "update_read", "release"}
  BY DEF Copying, Reading
<1> QED BY <1>1, <1>2, <1>3, DataKept

\* A lookup that hits: the thread becomes a reader of the zone and is counted.
LEMMA HitData ==
  ASSUME NEW evictPcs, FrontTypeOK(evictPcs), ControlOK, DataInv, NEW t \in Threads,
         pc[t] = "find", FindHit(data_id[t]), pc' = [pc EXCEPT ![t] = "copy_location"],
         UNCHANGED <<zsmVars, locals, disk>>
  PROVE  DataInv' /\ SettledStay
<1> DEFINE id == data_id[t]
<1> DEFINE x == zone_map[id].location.zone
<1>1. id \in Ids /\ zone_map[id].type = "LOC" /\ x \in Zones /\ zone_map[id].location \in zn_pair
  BY DataTypes DEF FindHit, ControlOK, FrontTypeOK, InGet, OutsideGet
<1>2. /\ UNCHANGED <<zone_map, data_map, locals, disk>>
      /\ active_readers' = [active_readers EXCEPT ![x] = @ + 1]
  BY DEF FindHit
<1>3. Committed' = Committed
  BY DEF zsmVars, Committed, ChunkWritten, LastChunkWritten
<1>4. OthersStay(t) /\ pc'[t] = "copy_location" /\ data_id'[t] = id
  BY <1>2 DEF OthersStay, locals, FrontTypeOK
<1>5. \A i \in Ids : Fillers(i)' \subseteq Fillers(i)
  <2> SUFFICES ASSUME NEW i \in Ids, NEW u \in Fillers(i)' PROVE u \in Fillers(i)
    OBVIOUS
  <2>1. u \in Threads
    BY DEF Fillers
  <2>2. CASE u = t
    BY <1>1, <1>2, <1>4, <2>2 DEF Fillers
  <2>3. CASE u # t
    BY <1>2, <1>4, <2>1, <2>3, OthersFillers
  <2> QED BY <2>2, <2>3
<1>6. \A z \in Zones : Readers(z)' = Readers(z) \cup (IF z = x THEN {t} ELSE {})
  <2> SUFFICES ASSUME NEW z \in Zones, NEW u \in Threads
               PROVE  u \in Readers(z)' <=> u \in Readers(z) \/ (u = t /\ z = x)
    BY DEF Readers
  <2>1. CASE u = t
    BY <1>1, <1>2, <1>4, <2>1 DEF Readers
  <2>2. CASE u # t
    BY <1>2, <1>4, <2>2, OthersReaders
  <2> QED BY <2>1, <2>2
<1>7. t \notin Readers(x)
  BY DEF Readers
<1>8. MapsInverse' /\ MappedStored' /\ OneFiller' /\ ReadersFind' /\ ReadValid' /\ WritersStored'
  BY <1>2, <1>3, <1>4, <1>5
  DEF DataInv, MapsInverse, MappedStored, OneFiller, ReadersFind, ReadValid, WritersStored,
      IdOf, Disk, OthersStay, Inserting, locals
<1>9. ReadersBalanced'
  <2> SUFFICES ASSUME NEW z \in Zones PROVE active_readers'[z] = Cardinality(Readers(z)')
    BY DEF ReadersBalanced
  <2>1. active_readers[z] = Cardinality(Readers(z)) /\ active_readers[z] \in Int
    BY DEF DataInv, ReadersBalanced, FrontTypeOK, mapTypeOK
  <2>2. CASE z = x
    <3>1. Cardinality(Readers(z) \cup {t}) = Cardinality(Readers(z)) + 1
      BY <1>7, <2>2, DataTypes, FS_AddElement
    <3>2. active_readers'[z] = active_readers[z] + 1
      BY <1>1, <1>2, <2>2 DEF FrontTypeOK, mapTypeOK
    <3> QED BY <1>6, <2>1, <2>2, <3>1, <3>2
  <2>3. CASE z # x
    <3>1. active_readers'[z] = active_readers[z]
      BY <1>1, <1>2, <2>3 DEF FrontTypeOK, mapTypeOK
    <3> QED BY <1>6, <2>1, <2>3, <3>1
  <2> QED BY <2>2, <2>3
<1>10. SettledStay
  <2> SUFFICES ASSUME NEW z \in Written, Unmapped(z)
               PROVE  Unmapped(z)' /\ (Readers(z) = {} => Readers(z)' = {})
    BY DEF SettledStay
  <2>1. Unmapped(z)'
    BY <1>2, <1>4 DEF Unmapped, IdOf, OthersStay, Inserting
  <2>2. z # x /\ z \in Zones
    BY <1>1, NullAssumption DEF DataInv, MapsInverse, Unmapped, Written
  <2> QED BY <1>6, <2>1, <2>2
<1> QED BY <1>8, <1>9, <1>10 DEF DataInv

\* The maps stay inverse to each other when an entry that is not mapped becomes
\* another one that is not.
LEMMA RetypeMaps ==
  ASSUME NEW evictPcs, FrontTypeOK(evictPcs), DataInv, NEW id \in Ids,
         zone_map[id].type # "LOC", zone_map'[id].type # "LOC",
         \A i \in Ids \ {id} : zone_map'[i] = zone_map[i],
         UNCHANGED <<data_map, disk>>, Committed' = Committed
  PROVE  MapsInverse' /\ MappedStored'
<1>1. ASSUME NEW p \in zn_pair, IdOf(p) # NULL PROVE IdOf(p) \in Ids \ {id}
  <2>1. zone_map[IdOf(p)] = Entry("LOC", p) /\ IdOf(p) \in Ids
    BY <1>1, DataTypes DEF DataInv, MapsInverse
  <2>2. zone_map[IdOf(p)].type = "LOC"
    BY <2>1 DEF Entry
  <2> QED BY <2>1, <2>2
<1>2. \A p \in zn_pair : IdOf(p)' = IdOf(p) /\ Disk(p)' = Disk(p)
  BY DEF IdOf, Disk
<1>3. ASSUME NEW i \in Ids, zone_map'[i].type = "LOC" PROVE IdOf(zone_map[i].location)' = i
  BY <1>2, <1>3, DataTypes DEF DataInv, MapsInverse
<1>4. ASSUME NEW p \in zn_pair, IdOf(p)' # NULL PROVE zone_map'[IdOf(p)'] = Entry("LOC", p)
  BY <1>1, <1>2, <1>4 DEF DataInv, MapsInverse
<1>5. MapsInverse'
  BY <1>3, <1>4 DEF MapsInverse
<1>6. MappedStored'
  BY <1>2 DEF DataInv, MappedStored
<1> QED BY <1>5, <1>6

\* A lookup that finds nothing: the thread is the one that fetches the id, and
\* nobody else has looked at the entry and not yet copied it.
LEMMA ClaimData ==
  ASSUME NEW evictPcs, FrontTypeOK(evictPcs), ControlOK, DataInv, NEW t \in Threads,
         pc[t] = "find", FindClaim(data_id[t]), pc' = [pc EXCEPT ![t] = "copy_location"],
         UNCHANGED <<zsmVars, locals, disk>>
  PROVE  DataInv' /\ SettledStay
<1> DEFINE id == data_id[t]
<1>1. id \in Ids /\ zone_map[id].type \in {"NONE", "EMPTY"} /\ zone_map[id] \in zone_map_result
  BY DEF FindClaim, ControlOK, FrontTypeOK, mapTypeOK, InGet, OutsideGet
<1>2. /\ UNCHANGED <<data_map, active_readers, locals, disk>>
      /\ \A i \in Ids \ {id} : zone_map'[i] = zone_map[i]
      /\ zone_map'[id].type = "COND"
  BY <1>1 DEF FindClaim, FrontTypeOK, mapTypeOK, zone_map_result
<1>3. Committed' = Committed
  BY DEF zsmVars, Committed, ChunkWritten, LastChunkWritten
<1>4. OthersStay(t) /\ pc'[t] = "copy_location" /\ data_id'[t] = id
  BY <1>2 DEF OthersStay, locals, FrontTypeOK
<1>5. Fillers(id) = {}
  BY <1>1 DEF DataInv, OneFiller
<1>6. \A u \in Threads \ {t} : data_id[u] = id => pc[u] \in NotFilling
  BY <1>1, <1>5 DEF Fillers, NotFilling
<1>7. /\ \A i \in Ids \ {id} : Fillers(i)' \subseteq Fillers(i)
      /\ Fillers(id)' = {t}
  <2>1. ASSUME NEW i \in Ids \ {id}, NEW u \in Fillers(i)' PROVE u \in Fillers(i)
    <3>1. u \in Threads \ {t}
      BY <1>4, <2>1 DEF Fillers
    <3> QED BY <1>2, <1>4, <2>1, <3>1, OthersFillers
  <2>2. t \in Fillers(id)'
    BY <1>2, <1>4 DEF Fillers
  <2>3. ASSUME NEW u \in Fillers(id)', u # t PROVE FALSE
    BY <1>4, <1>6, <2>3 DEF Fillers, OthersStay, NotFilling
  <2> QED BY <2>1, <2>2, <2>3
<1>8. \A z \in Zones : Readers(z)' = Readers(z)
  <2> SUFFICES ASSUME NEW z \in Zones, NEW u \in Threads PROVE u \in Readers(z)' <=> u \in Readers(z)
    BY DEF Readers
  <2>1. CASE u = t
    BY <1>2, <1>4, <2>1 DEF Readers
  <2>2. CASE u # t
    <3>1. pc[u] \in Copying => data_id[u] \in Ids \ {id}
      BY <1>6, <2>2, NullAssumption DEF Copying, NotFilling, ControlOK, FrontTypeOK, InGet, OutsideGet
    <3> QED BY <1>2, <1>4, <2>2, <3>1, OthersReaders
  <2> QED BY <2>1, <2>2
<1>9. MapsInverse' /\ MappedStored'
  BY <1>1, <1>2, <1>3, RetypeMaps
<1>10. OneFiller'
  <2>1. ASSUME NEW i \in Ids, NEW u \in Fillers(i)'
        PROVE  zone_map'[i].type = "COND" /\ \A v \in Fillers(i)' : v = u
    <3>1. CASE i = id
      <4>1. Fillers(i)' = {t}
        BY <1>4, <1>7, <3>1 DEF Fillers
      <4> QED BY <1>2, <2>1, <3>1, <4>1
    <3>2. CASE i # id
      BY <1>2, <1>7, <2>1, <3>2 DEF DataInv, OneFiller
    <3> QED BY <3>1, <3>2
  <2> QED BY <2>1 DEF OneFiller
<1>11. ReadersFind'
  <2>1. \A u \in Threads \ {t} : pc[u] = "copy_type" => data_id[u] \in Ids \ {id}
    BY <1>6, NullAssumption DEF NotFilling, ControlOK, FrontTypeOK, InGet, OutsideGet
  <2> QED BY <1>2, <1>3, <1>4, <2>1 DEF DataInv, ReadersFind, OthersStay, Disk
<1>12. ReadValid' /\ WritersStored'
  BY <1>2, <1>3, <1>4 DEF DataInv, ReadValid, WritersStored, IdOf, Disk, OthersStay, Inserting
<1>13. ReadersBalanced'
  BY <1>2, <1>8 DEF DataInv, ReadersBalanced
<1>14. SettledStay
  BY <1>2, <1>4, <1>8 DEF SettledStay, Unmapped, IdOf, OthersStay, Inserting, Written
<1> QED BY <1>9, <1>10, <1>11, <1>12, <1>13 , <1>14 DEF DataInv

\* The copy of the entry: a reader copies the location it was counted for, and a
\* thread that fetches the id does not become a reader.
LEMMA CopyData ==
  ASSUME NEW evictPcs, FrontTypeOK(evictPcs), ControlOK, DataInv, NEW t \in Threads,
         FindReturnLocation(t) \/ FindReturnType(t)
  PROVE  DataInv' /\ SettledStay
<1> DEFINE id == data_id[t]
<1>1. /\ pc[t] \in Copying
      /\ UNCHANGED <<zsmVars, zone_map, data_map, active_readers, data_id, location, data, disk>>
  BY DEF FindReturnLocation, FindReturnType, Goto, mapVars, Copying
<1>2. id \in Ids /\ zone_map[id].location \in zn_pair /\ result[t] \in zone_map_result
  BY <1>1, NullAssumption, DataTypes DEF Copying, ControlOK, FrontTypeOK, InGet, OutsideGet
<1>3. Committed' = Committed
  BY <1>1 DEF zsmVars, Committed, ChunkWritten, LastChunkWritten
<1>4. OthersStay(t)
  BY <1>1 DEF FindReturnLocation, FindReturnType, Goto, OthersStay, FrontTypeOK
<1>5. \/ pc'[t] = "copy_type" /\ result'[t].location = zone_map[id].location
      \/ /\ pc[t] = "copy_type" /\ zone_map[id].type = "LOC" /\ pc'[t] = "read"
         /\ result'[t].location = zone_map[id].location
      \/ zone_map[id].type # "LOC" /\ pc'[t] = "get_zone"
  <2>1. CASE FindReturnLocation(t)
    BY <1>2, <2>1 DEF FindReturnLocation, Goto, FrontTypeOK, zone_map_result
  <2>2. CASE FindReturnType(t)
    <3>1. result'[t].location = result[t].location
      BY <1>2, <2>2 DEF FindReturnType, FrontTypeOK, zone_map_result
    <3>2. pc[t] = "copy_type" /\ pc'[t] = IF zone_map[id].type = "LOC" THEN "read" ELSE "get_zone"
      BY <2>2 DEF FindReturnType, Goto, FrontTypeOK
    <3> QED BY <3>1, <3>2 DEF DataInv, ReadersFind
  <2> QED BY <2>1, <2>2
<1>6. \A i \in Ids : Fillers(i)' \subseteq Fillers(i)
  <2> SUFFICES ASSUME NEW i \in Ids, NEW u \in Fillers(i)' PROVE u \in Fillers(i)
    OBVIOUS
  <2>1. u \in Threads
    BY DEF Fillers
  <2>2. CASE u = t
    BY <1>1, <1>5, <2>2 DEF Fillers, Copying
  <2>3. CASE u # t
    BY <1>1, <1>4, <2>1, <2>3, OthersFillers
  <2> QED BY <2>2, <2>3
<1>7. \A z \in Zones : Readers(z)' = Readers(z)
  <2> SUFFICES ASSUME NEW z \in Zones, NEW u \in Threads PROVE u \in Readers(z)' <=> u \in Readers(z)
    BY DEF Readers
  <2>1. CASE u = t
    BY <1>1, <1>5, <2>1 DEF Readers, Copying
  <2>2. CASE u # t
    BY <1>1, <1>4, <2>2, OthersReaders
  <2> QED BY <2>1, <2>2
<1>8. zone_map[id].type = "LOC" =>
        zone_map[id].location \in Committed /\ Disk(zone_map[id].location) = id
  BY <1>2, NullAssumption DEF DataInv, MapsInverse, MappedStored
<1>9. pc'[t] \notin Inserting \cup {"return_zone", "update_read", "release"}
  BY <1>5 DEF Inserting
<1>10. pc'[t] = "copy_type" => result'[t].location = zone_map[data_id'[t]].location
  BY <1>1, <1>5
<1>11. pc'[t] = "read" => result'[t].location \in Committed /\ Disk(result'[t].location) = data_id'[t]
  BY <1>1, <1>5, <1>8
<1> HIDE DEF id
<1> QED BY <1>1, <1>3, <1>4, <1>6, <1>7, <1>9, <1>10, <1>11, DataKept

\* A step of a reader that stays one.
LEMMA ReadersStay ==
  ASSUME NEW evictPcs, FrontTypeOK(evictPcs), NEW t \in Threads, OthersStay(t),
         pc[t] \in Reading, pc'[t] \in Reading, result'[t] = result[t], UNCHANGED zone_map
  PROVE  /\ \A id \in Ids : Fillers(id)' \subseteq Fillers(id)
         /\ \A z \in Zones : Readers(z)' = Readers(z)
<1>1. ASSUME NEW id \in Ids, NEW u \in Fillers(id)' PROVE u \in Fillers(id)
  <2>1. u \in Threads \ {t}
    BY <1>1 DEF Fillers, Reading
  <2> QED BY <1>1, <2>1, OthersFillers
<1>2. ASSUME NEW z \in Zones, NEW u \in Threads PROVE u \in Readers(z)' <=> u \in Readers(z)
  <2>1. CASE u = t
    BY <2>1 DEF Readers, Reading
  <2>2. CASE u # t
    BY <2>2, OthersReaders
  <2> QED BY <2>1, <2>2
<1>3. \A z : Readers(z) \subseteq Threads /\ Readers(z)' \subseteq Threads
  BY DEF Readers
<1> QED BY <1>1, <1>2, <1>3

\* The read of the chunk, and the policy's update that follows it.
LEMMA ReadData ==
  ASSUME NEW evictPcs, FrontTypeOK(evictPcs), DataInv, NEW t \in Threads,
         \/ ReadChunk(t)
         \/ /\ Goto(t, "update_read", "release")
            /\ UNCHANGED <<zsmVars, mapVars, locals, disk>>
  PROVE  DataInv' /\ SettledStay
<1>1. /\ pc[t] \in {"read", "update_read"} /\ pc'[t] \in {"update_read", "release"}
      /\ UNCHANGED <<zsmVars, mapVars, data_id, result, location, disk>>
      /\ pc[t] = "read" => data'[t] \in {Disk(result[t].location), NULL}
      /\ pc[t] = "update_read" => data' = data
      /\ OthersStay(t)
  <2>1. CASE ReadChunk(t)
    <3>1. PICK buffer \in {Disk(result[t].location), NULL} : data' = [data EXCEPT ![t] = buffer]
      BY <2>1 DEF ReadChunk, zn_read_from_disk, Disk
    <3>2. OthersStay(t) /\ data'[t] = buffer
      BY <2>1, <3>1 DEF ReadChunk, Goto, FrontTypeOK, OthersStay
    <3> QED BY <2>1, <3>1, <3>2 DEF ReadChunk, Goto, FrontTypeOK
  <2>2. CASE Goto(t, "update_read", "release") /\ UNCHANGED <<zsmVars, mapVars, locals, disk>>
    BY <2>2 DEF Goto, FrontTypeOK, OthersStay, locals
  <2> QED BY <2>1, <2>2
<1>2. Committed' = Committed
  BY <1>1 DEF zsmVars, Committed, ChunkWritten, LastChunkWritten
<1>3. data'[t] \in {data_id'[t], NULL}
  BY <1>1 DEF DataInv, ReadersFind, ReadValid
<1>4. /\ \A id \in Ids : Fillers(id)' \subseteq Fillers(id)
      /\ \A z \in Zones : Readers(z)' = Readers(z)
  BY <1>1, ReadersStay DEF mapVars, Reading
<1>5. pc'[t] \notin Inserting \cup {"copy_type", "read", "return_zone"}
  BY <1>1 DEF Inserting
<1> QED BY <1>1, <1>2, <1>3, <1>4, <1>5, DataKept DEF mapVars

\* A reader that has finished is no longer counted.
LEMMA HitDoneData ==
  ASSUME NEW evictPcs, FrontTypeOK(evictPcs), DataInv, NEW t \in Threads, HitDone(t)
  PROVE  DataInv' /\ SettledStay
<1> DEFINE x == result[t].location.zone
<1>1. /\ pc[t] = "release" /\ x \in Zones
      /\ UNCHANGED <<zsmVars, zone_map, data_map, disk>>
      /\ active_readers' = [active_readers EXCEPT ![x] = @ - 1]
  BY DataTypes DEF HitDone, ReleaseReader
<1>2. OthersStay(t) /\ pc'[t] \in {"next", "failed"} /\ data_id'[t] = NULL
  BY DEF HitDone, Return, OthersStay, FrontTypeOK
<1>3. Committed' = Committed
  BY <1>1 DEF zsmVars, Committed, ChunkWritten, LastChunkWritten
<1>4. \A i \in Ids : Fillers(i)' \subseteq Fillers(i)
  <2> SUFFICES ASSUME NEW i \in Ids, NEW u \in Fillers(i)' PROVE u \in Fillers(i)
    OBVIOUS
  <2>1. u \in Threads \ {t}
    BY <1>2, NullAssumption DEF Fillers
  <2> QED BY <1>1, <1>2, <2>1, OthersFillers
<1>5. \A z \in Zones : Readers(z)' = Readers(z) \ {t}
  <2> SUFFICES ASSUME NEW z \in Zones, NEW u \in Threads
               PROVE  u \in Readers(z)' <=> u \in Readers(z) \ {t}
    BY DEF Readers
  <2>1. CASE u = t
    BY <1>2, <2>1 DEF Readers
  <2>2. CASE u # t
    BY <1>1, <1>2, <2>2, OthersReaders
  <2> QED BY <2>1, <2>2
<1>6. \A z \in Zones : t \in Readers(z) <=> z = x
  BY <1>1 DEF Readers
<1>7. MapsInverse' /\ MappedStored' /\ OneFiller' /\ ReadersFind' /\ ReadValid' /\ WritersStored'
  BY <1>1, <1>2, <1>3, <1>4
  DEF DataInv, MapsInverse, MappedStored, OneFiller, ReadersFind, ReadValid, WritersStored,
      IdOf, Disk, OthersStay, Inserting
<1>8. ReadersBalanced'
  <2> SUFFICES ASSUME NEW z \in Zones PROVE active_readers'[z] = Cardinality(Readers(z)')
    BY DEF ReadersBalanced
  <2>1. active_readers[z] = Cardinality(Readers(z)) /\ active_readers[z] \in Int
    BY DEF DataInv, ReadersBalanced, FrontTypeOK, mapTypeOK
  <2>2. CASE z = x
    <3>1. Cardinality(Readers(z) \ {t}) = Cardinality(Readers(z)) - 1
      BY <1>1, <1>6, <2>2, DataTypes, FS_RemoveElement
    <3>2. active_readers'[z] = active_readers[z] - 1
      BY <1>1, <2>2 DEF FrontTypeOK, mapTypeOK
    <3> QED BY <1>5, <2>1, <3>1, <3>2
  <2>3. CASE z # x
    <3>1. active_readers'[z] = active_readers[z]
      BY <1>1, <2>3 DEF FrontTypeOK, mapTypeOK
    <3>2. Readers(z) \ {t} = Readers(z)
      BY <1>6, <2>3
    <3> QED BY <1>5, <2>1, <3>1, <3>2
  <2> QED BY <2>2, <2>3
<1>9. SettledStay
  <2>1. \A z \in Written : z \in Zones
    BY DEF Written
  <2> QED BY <1>1, <1>2, <1>5, <2>1 DEF SettledStay, Unmapped, IdOf, OthersStay, Inserting
<1> QED BY <1>7, <1>8, <1>9 DEF DataInv

\* The thread that is to fill an id is its only filler, and nobody else looks at its
\* entry.
LEMMA SoleFiller ==
  ASSUME NEW evictPcs, FrontTypeOK(evictPcs), ControlOK, DataInv, NEW t \in Threads,
         pc[t] \in InGet, pc[t] \notin NotFilling \cup Copying
  PROVE  /\ data_id[t] \in Ids /\ zone_map[data_id[t]].type = "COND"
         /\ \A u \in Threads \ {t} : data_id[u] = data_id[t] => pc[u] \in NotFilling
<1>1. data_id[t] \in Ids
  BY NullAssumption DEF ControlOK, FrontTypeOK, InGet, OutsideGet
<1>2. t \in Fillers(data_id[t])
  BY DEF Fillers, NotFilling, Copying
<1>3. zone_map[data_id[t]].type = "COND" /\ \A u \in Fillers(data_id[t]) : u = t
  BY <1>1, <1>2 DEF DataInv, OneFiller
<1>4. ASSUME NEW u \in Threads \ {t}, data_id[u] = data_id[t] PROVE pc[u] \in NotFilling
  BY <1>3, <1>4 DEF Fillers, NotFilling
<1> QED BY <1>1, <1>3, <1>4

\* A filler that stays one, while no entry changes.
LEMMA FillersSame ==
  ASSUME NEW evictPcs, FrontTypeOK(evictPcs), NEW t \in Threads, OthersStay(t),
         pc[t] \notin NotFilling \cup Copying, pc'[t] \notin NotFilling \cup Copying,
         data_id'[t] = data_id[t], UNCHANGED zone_map
  PROVE  /\ \A id \in Ids : Fillers(id)' \subseteq Fillers(id)
         /\ \A z \in Zones : Readers(z)' = Readers(z)
<1>1. ASSUME NEW id \in Ids, NEW u \in Fillers(id)' PROVE u \in Fillers(id)
  <2>1. CASE u = t
    BY <1>1, <2>1 DEF Fillers, NotFilling, Copying
  <2>2. CASE u # t
    <3>1. u \in Threads \ {t}
      BY <1>1, <2>2 DEF Fillers
    <3> QED BY <1>1, <3>1, OthersFillers
  <2> QED BY <2>1, <2>2
<1>2. ASSUME NEW z \in Zones, NEW u \in Threads PROVE u \in Readers(z)' <=> u \in Readers(z)
  <2>1. CASE u = t
    BY <2>1 DEF Readers, NotFilling, Copying
  <2>2. CASE u # t
    BY <2>2, OthersReaders
  <2> QED BY <2>1, <2>2
<1>3. \A z : Readers(z) \subseteq Threads /\ Readers(z)' \subseteq Threads
  BY DEF Readers
<1> QED BY <1>1, <1>2, <1>3

\* The write of the chunk: nothing that is mapped, read or about to be mapped is there.
LEMMA WriteData ==
  ASSUME NEW evictPcs, ZsmInv, FrontTypeOK(evictPcs), ControlOK, GrantsMatchLocations, DataInv,
         NEW t \in Threads, WriteChunk(t)
  PROVE  DataInv' /\ SettledStay
<1>1. pc[t] = "write"
  BY DEF WriteChunk, Goto
<1>2. grant[t] # NoPair /\ grant[t] = location[t]
  BY <1>1 DEF GrantsMatchLocations, HoldsZone
<1>3. location[t] \notin Committed /\ location[t] \in zn_pair
  BY <1>2, GrantedZone, GrantNotCommitted
<1>4. /\ UNCHANGED <<zsmVars, mapVars, locals>>
      /\ \E to \in {"return_zone", "undo_zone"} : pc' = [pc EXCEPT ![t] = to]
      /\ \A p \in zn_pair : p # location[t] => Disk(p)' = Disk(p)
      /\ pc'[t] = "return_zone" =>
           disk'[location[t].zone][location[t].chunk_offset] = data_id[t]
  BY <1>3, WriteDisk DEF Disk
<1>5. Committed' = Committed /\ \A p \in Committed : p \in zn_pair /\ p # location[t]
  BY <1>3, <1>4 DEF zsmVars, Committed, ChunkWritten, LastChunkWritten
<1>6. /\ OthersStay(t) /\ pc'[t] \in {"return_zone", "undo_zone"}
      /\ UNCHANGED <<zone_map, data_map, active_readers, data_id, result, location, data>>
  BY <1>4 DEF OthersStay, FrontTypeOK, mapVars, locals
<1>7. /\ \A id \in Ids : Fillers(id)' \subseteq Fillers(id)
      /\ \A z \in Zones : Readers(z)' = Readers(z)
  BY <1>1, <1>6, FillersSame DEF NotFilling, Copying
<1>8. \A p \in Committed : Disk(p)' = Disk(p)
  BY <1>4, <1>5
<1>9. MapsInverse' /\ MappedStored' /\ OneFiller'
  BY <1>5, <1>6, <1>7, <1>8 DEF DataInv, MapsInverse, MappedStored, OneFiller, IdOf
<1>10. ReadersFind' /\ ReadValid'
  <2>1. \A u \in Threads : pc'[u] = "read" => Disk(result[u].location)' = data_id[u] /\ pc[u] = "read"
    BY <1>6, <1>8 DEF DataInv, ReadersFind, OthersStay, Disk
  <2> QED BY <1>5, <1>6, <2>1 DEF DataInv, ReadersFind, ReadValid, OthersStay
<1>11. WritersStored'
  <2>1. ASSUME NEW u \in Threads, pc'[u] \in Inserting
        PROVE  /\ pc[u] \in Inserting /\ location[u] \in Committed /\ IdOf(location[u]) = NULL
               /\ disk'[location[u].zone][location[u].chunk_offset] = data_id[u]
    <3>1. u # t /\ pc[u] \in Inserting
      BY <1>6, <2>1 DEF OthersStay, Inserting
    <3> QED BY <1>8, <3>1 DEF DataInv, WritersStored, Disk
  <2>2. ASSUME NEW u \in Threads, pc'[u] = "return_zone"
        PROVE  disk'[location[u].zone][location[u].chunk_offset] = data_id[u]
    <3>1. CASE u = t
      BY <1>4, <2>2, <3>1
    <3>2. CASE u # t
      <4>1. pc[u] = "return_zone"
        BY <1>6, <2>2, <3>2 DEF OthersStay
      <4>2. grant[u] # NoPair /\ grant[u] = location[u]
        BY <4>1 DEF GrantsMatchLocations, HoldsZone
      <4>3. location[u] \in zn_pair /\ location[u] # location[t]
        BY <1>2, <3>2, <4>2, GrantedZone
      <4> QED BY <1>4, <4>1, <4>3 DEF DataInv, WritersStored, Disk
    <3> QED BY <3>1, <3>2
  <2> QED BY <1>5, <1>6, <2>1, <2>2 DEF DataInv, WritersStored, Disk, IdOf, Inserting
<1>12. ReadersBalanced'
  BY <1>6, <1>7 DEF DataInv, ReadersBalanced
<1>13. SettledStay
  BY <1>6, <1>7 DEF SettledStay, Unmapped, IdOf, OthersStay, Inserting, Written
<1> QED BY <1>9, <1>10, <1>11, <1>12, <1>13 DEF DataInv

\* The return of the zone commits the chunk that was written, in a zone that was not
\* full.
LEMMA ReturnZoneData ==
  ASSUME NEW evictPcs, ZsmInv, FrontTypeOK(evictPcs), ControlOK, GrantsMatchLocations, DataInv,
         NEW t \in Threads, ReturnZone(t)
  PROVE  DataInv' /\ SettledStay
<1>1. /\ pc[t] = "return_zone" /\ pc' = [pc EXCEPT ![t] = "update_write"]
      /\ UNCHANGED <<mapVars, locals, disk>>
  BY DEF ReturnZone, Goto
<1>2. grant[t] # NoPair /\ grant[t] = location[t]
  BY <1>1 DEF GrantsMatchLocations, HoldsZone
<1>3. location[t] \notin Committed /\ location[t].zone \notin Written /\ location[t] \in zn_pair
  BY <1>2, GrantedZone, GrantNotCommitted
<1>4. Committed' = Committed \cup {location[t]}
  BY <1>2, ReturnWritten DEF ReturnZone
<1>5. /\ OthersStay(t) /\ pc'[t] = "update_write"
      /\ UNCHANGED <<zone_map, data_map, active_readers, data_id, result, location, data, disk>>
  BY <1>1 DEF OthersStay, FrontTypeOK, mapVars, locals
<1>6. /\ \A id \in Ids : Fillers(id)' \subseteq Fillers(id)
      /\ \A z \in Zones : Readers(z)' = Readers(z)
  BY <1>1, <1>5, FillersSame DEF NotFilling, Copying
<1>7. IdOf(location[t]) = NULL /\ Disk(location[t]) = data_id[t]
  BY <1>1, <1>3 DEF DataInv, MappedStored, WritersStored, Inserting
<1>8. MapsInverse' /\ MappedStored' /\ OneFiller'
  BY <1>4, <1>5, <1>6 DEF DataInv, MapsInverse, MappedStored, OneFiller, IdOf, Disk
<1>9. ReadersFind' /\ ReadValid'
  BY <1>4, <1>5 DEF DataInv, ReadersFind, ReadValid, OthersStay, Disk
<1>10. WritersStored'
  <2>1. ASSUME NEW u \in Threads, pc'[u] \in Inserting, u # t
        PROVE  pc[u] \in Inserting /\ location[u] \in Committed /\ location[u] # location[t]
    BY <1>3, <1>5, <2>1 DEF DataInv, WritersStored, OthersStay
  <2>2. ASSUME NEW u \in Threads
        PROVE  /\ pc'[u] \in Inserting \cup {"return_zone"} => Disk(location[u]) = data_id[u]
               /\ pc'[u] \in Inserting => location[u] \in Committed' /\ IdOf(location[u]) = NULL
    <3>1. CASE u = t
      BY <1>4, <1>7, <3>1
    <3>2. CASE u # t
      BY <1>4, <1>5, <2>1, <3>2 DEF DataInv, WritersStored, OthersStay
    <3> QED BY <3>1, <3>2
  <2>3. ASSUME NEW u \in Threads, NEW v \in Threads, pc'[u] \in Inserting, pc'[v] \in Inserting,
               location[u] = location[v]
        PROVE  u = v
    BY <2>1, <2>3 DEF DataInv, WritersStored
  <2> QED BY <1>5, <2>2, <2>3 DEF WritersStored, Disk, IdOf
<1>11. ReadersBalanced'
  BY <1>5, <1>6 DEF DataInv, ReadersBalanced
<1>12. SettledStay
  BY <1>3, <1>5, <1>6 DEF SettledStay, Unmapped, IdOf, OthersStay, Inserting, Written
<1> QED BY <1>8, <1>9, <1>10, <1>11, <1>12 DEF DataInv

\* The policy's update that follows the commit.
LEMMA UpdateWriteData ==
  ASSUME NEW evictPcs, FrontTypeOK(evictPcs), DataInv, NEW t \in Threads,
         Goto(t, "update_write", "insert"), UNCHANGED <<zsmVars, mapVars, locals, disk>>
  PROVE  DataInv' /\ SettledStay
<1>1. /\ OthersStay(t) /\ pc[t] = "update_write" /\ pc'[t] = "insert"
      /\ UNCHANGED <<zone_map, data_map, active_readers, data_id, location>>
  BY DEF Goto, OthersStay, FrontTypeOK, mapVars, locals
<1>2. Committed' = Committed
  BY DEF zsmVars, Committed, ChunkWritten, LastChunkWritten
<1>3. /\ \A id \in Ids : Fillers(id)' \subseteq Fillers(id)
      /\ \A z \in Zones : Readers(z)' = Readers(z)
  BY <1>1, FillersSame DEF NotFilling, Copying
<1> QED BY <1>1, <1>2, <1>3, DataKept DEF Inserting

\* The end of a fetch, whatever becomes of the entry: nobody fills the id any more, and
\* nobody was looking at its entry.
LEMMA FetchEnds ==
  ASSUME NEW evictPcs, FrontTypeOK(evictPcs), ControlOK, DataInv, NEW t \in Threads,
         pc[t] \in {"insert", "undo_map"}, NEW to \in {"next", "failed"}, Return(t, to),
         \A i \in Ids \ {data_id[t]} : zone_map'[i] = zone_map[i],
         zone_map'[data_id[t]].type \in {"LOC", "EMPTY"}
  PROVE  /\ OneFiller'
         /\ \A z \in Zones : Readers(z)' = Readers(z)
         /\ \A u \in Threads \ {t} : pc[u] \in Copying => data_id[u] \in Ids \ {data_id[t]}
<1>1. /\ data_id[t] \in Ids
      /\ \A u \in Threads \ {t} : data_id[u] = data_id[t] => pc[u] \in NotFilling
  BY SoleFiller DEF InGet, NotFilling, Copying
<1>2. OthersStay(t) /\ pc'[t] \notin Reading \cup Copying /\ data_id'[t] = NULL
  BY DEF Return, OthersStay, FrontTypeOK, Reading, Copying
<1>3. ASSUME NEW u \in Threads \ {t}, pc[u] \in Copying PROVE data_id[u] \in Ids \ {data_id[t]}
  BY <1>1, <1>3, NullAssumption DEF Copying, NotFilling, ControlOK, FrontTypeOK, InGet, OutsideGet
<1>4. ASSUME NEW i \in Ids, NEW u \in Fillers(i)' PROVE i # data_id[t] /\ u \in Fillers(i)
  <2>1. u \in Threads \ {t}
    BY <1>2, <1>4, NullAssumption DEF Fillers
  <2>2. i # data_id[t]
    BY <1>1, <1>2, <1>4, <2>1 DEF Fillers, OthersStay, NotFilling
  <2> QED BY <1>2, <1>4, <2>1, <2>2, OthersFillers
<1>5. OneFiller'
  BY <1>4 DEF DataInv, OneFiller
<1>6. ASSUME NEW z \in Zones, NEW u \in Threads PROVE u \in Readers(z)' <=> u \in Readers(z)
  <2>1. CASE u = t
    BY <1>2, <2>1 DEF Readers, Reading, Copying
  <2>2. CASE u # t
    BY <1>2, <1>3, <2>2, OthersReaders
  <2> QED BY <2>1, <2>2
<1>7. \A z : Readers(z) \subseteq Threads /\ Readers(z)' \subseteq Threads
  BY DEF Readers
<1> QED BY <1>3, <1>5, <1>6, <1>7

\* The fetch failed: the entry becomes empty.
LEMMA UndoMapData ==
  ASSUME NEW evictPcs, FrontTypeOK(evictPcs), ControlOK, DataInv, NEW t \in Threads, UndoMap(t)
  PROVE  DataInv' /\ SettledStay
<1>1. /\ pc[t] = "undo_map" /\ Return(t, "failed")
      /\ UNCHANGED <<zsmVars, data_map, active_readers, disk>>
  BY DEF UndoMap, zn_cachemap_fail
<1>2. data_id[t] \in Ids /\ zone_map[data_id[t]].type = "COND"
  BY <1>1, SoleFiller DEF InGet, NotFilling, Copying
<1>3. /\ \A i \in Ids \ {data_id[t]} : zone_map'[i] = zone_map[i]
      /\ zone_map'[data_id[t]].type = "EMPTY"
  BY <1>2 DEF UndoMap, zn_cachemap_fail, FrontTypeOK, mapTypeOK, zone_map_result
<1>4. /\ OneFiller'
      /\ \A z \in Zones : Readers(z)' = Readers(z)
      /\ \A u \in Threads \ {t} : pc[u] \in Copying => data_id[u] \in Ids \ {data_id[t]}
  BY <1>1, <1>3, FetchEnds
<1>5. Committed' = Committed
  BY <1>1 DEF zsmVars, Committed, ChunkWritten, LastChunkWritten
<1>6. MapsInverse' /\ MappedStored'
  BY <1>1, <1>2, <1>3, <1>5, RetypeMaps
<1>7. OthersStay(t) /\ pc'[t] = "failed"
  BY <1>1 DEF Return, OthersStay, FrontTypeOK
<1>8. ReadersFind' /\ ReadValid' /\ WritersStored'
  <2>1. ReadersFind'
    BY <1>1, <1>3, <1>4, <1>5, <1>7 DEF DataInv, ReadersFind, OthersStay, Disk, Copying
  <2> QED BY <1>1, <1>5, <1>7, <2>1 DEF DataInv, ReadValid, WritersStored, OthersStay, Disk, IdOf, Inserting
<1>9. ReadersBalanced'
  BY <1>1, <1>4 DEF DataInv, ReadersBalanced
<1>10. SettledStay
  BY <1>1, <1>4, <1>7 DEF SettledStay, Unmapped, IdOf, OthersStay, Inserting, Written
<1> QED BY <1>4, <1>6, <1>8, <1>9, <1>10 DEF DataInv

\* The insertion maps a chunk that was committed and mapped by nobody.
LEMMA MissDoneData ==
  ASSUME NEW evictPcs, FrontTypeOK(evictPcs), ControlOK, DataInv, NEW t \in Threads, MissDone(t)
  PROVE  DataInv' /\ SettledStay
<1>1. /\ pc[t] = "insert" /\ Return(t, "next")
      /\ UNCHANGED <<zsmVars, active_readers, disk>>
  BY DEF MissDone, zn_cachemap_insert
<1>2. data_id[t] \in Ids /\ zone_map[data_id[t]].type = "COND"
  BY <1>1, SoleFiller DEF InGet, NotFilling, Copying
<1>3. /\ location[t] \in zn_pair /\ location[t].zone \in Zones /\ location[t].chunk_offset \in Chunks
      /\ location[t] \in Committed /\ IdOf(location[t]) = NULL /\ Disk(location[t]) = data_id[t]
  BY <1>1, LocationTypes, NoPairFacts DEF DataInv, WritersStored, Inserting
<1>4. PICK id \in Ids : id = data_id[t]
  BY <1>2
<1>5. PICK pair \in zn_pair : pair = location[t]
  BY <1>3
<1>6. /\ \A i \in Ids \ {id} : zone_map'[i] = zone_map[i]
      /\ zone_map'[id] = Entry("LOC", pair)
      /\ zone_map'[id].type = "LOC" /\ zone_map'[id].location = pair
  BY <1>1, <1>4, <1>5 DEF MissDone, zn_cachemap_insert, FrontTypeOK, mapTypeOK, Entry
<1>7. ASSUME NEW p \in zn_pair PROVE IdOf(p)' = IF p = pair THEN id ELSE IdOf(p)
  <2>1. data_map' = [data_map EXCEPT ![pair.zone][pair.chunk_offset] = id]
    BY <1>4, <1>5 DEF MissDone, zn_cachemap_insert
  <2>2. /\ data_map \in [Zones -> [Chunks -> Ids \cup {NULL}]]
        /\ data_map[pair.zone] \in [Chunks -> Ids \cup {NULL}]
    BY <1>3, <1>5 DEF FrontTypeOK, mapTypeOK
  <2>3. p.zone \in Zones /\ p.chunk_offset \in Chunks
    BY NoPairFacts
  <2>4. p = pair \/ p.zone # pair.zone \/ p.chunk_offset # pair.chunk_offset
    BY DEF zn_pair
  <2> QED BY <1>3, <1>5, <2>1, <2>2, <2>3, <2>4 DEF IdOf
<1>8. Committed' = Committed /\ \A p \in zn_pair : Disk(p)' = Disk(p)
  BY <1>1 DEF zsmVars, Committed, ChunkWritten, LastChunkWritten, Disk
<1>9. /\ OneFiller'
      /\ \A z \in Zones : Readers(z)' = Readers(z)
      /\ \A u \in Threads \ {t} : pc[u] \in Copying => data_id[u] \in Ids \ {id}
  BY <1>1, <1>4, <1>6, FetchEnds
<1>10. OthersStay(t) /\ pc'[t] = "next"
  BY <1>1 DEF Return, OthersStay, FrontTypeOK
<1>11. MapsInverse'
  <2>1. ASSUME NEW i \in Ids, zone_map'[i].type = "LOC" PROVE IdOf(zone_map[i].location)' = i
    <3>1. CASE i = id
      BY <1>6, <1>7, <3>1
    <3>2. CASE i # id
      <4>1. zone_map'[i] = zone_map[i] /\ IdOf(zone_map[i].location) = i
        BY <1>6, <2>1, <3>2 DEF DataInv, MapsInverse
      <4>2. zone_map[i].location # pair
        BY <1>3, <1>5, <4>1, NullAssumption
      <4> QED BY <1>7, <4>1, <4>2, DataTypes
    <3> QED BY <3>1, <3>2
  <2>2. ASSUME NEW p \in zn_pair, IdOf(p)' # NULL PROVE zone_map'[IdOf(p)'] = Entry("LOC", p)
    <3>1. CASE p = pair
      BY <1>6, <1>7, <3>1
    <3>2. CASE p # pair
      <4>1. IdOf(p)' = IdOf(p) /\ IdOf(p) \in Ids /\ zone_map[IdOf(p)] = Entry("LOC", p)
        BY <1>7, <2>2, <3>2, DataTypes DEF DataInv, MapsInverse
      <4>2. zone_map[IdOf(p)].type = "LOC"
        BY <4>1 DEF Entry
      <4> QED BY <1>2, <1>4, <1>6, <4>1, <4>2
    <3> QED BY <3>1, <3>2
  <2> QED BY <2>1, <2>2 DEF MapsInverse
<1>12. MappedStored'
  BY <1>3, <1>4, <1>5, <1>7, <1>8 DEF DataInv, MappedStored
<1>13. ReadersFind' /\ ReadValid'
  BY <1>1, <1>6, <1>8, <1>9, <1>10 DEF DataInv, ReadersFind, ReadValid, OthersStay, Disk, Copying
<1>14. WritersStored'
  <2>1. ASSUME NEW u \in Threads, pc'[u] \in Inserting \cup {"return_zone"}
        PROVE  u # t /\ pc[u] = pc'[u] /\ location'[u] = location[u] /\ data_id'[u] = data_id[u]
    BY <1>10, <2>1 DEF OthersStay, Inserting
  <2>2. ASSUME NEW u \in Threads, pc'[u] \in Inserting
        PROVE  location[u] \in Committed /\ IdOf(location[u])' = NULL
    <3>1. u # t /\ pc[u] \in Inserting /\ location'[u] = location[u]
      BY <2>1, <2>2
    <3>2. location[u] \in Committed /\ location[u] \in zn_pair /\ IdOf(location[u]) = NULL
      BY <3>1 DEF DataInv, WritersStored, Committed
    <3>3. location[u] # pair
      BY <1>1, <1>5, <3>1 DEF DataInv, WritersStored, Inserting
    <3>4. data_map'[location[u].zone][location[u].chunk_offset] = NULL
      BY <1>7, <3>2, <3>3 DEF IdOf
    <3> QED BY <3>1, <3>2, <3>4 DEF IdOf
  <2> QED BY <1>1, <1>8, <2>1, <2>2 DEF DataInv, WritersStored, Disk
<1>15. ReadersBalanced'
  BY <1>1, <1>9 DEF DataInv, ReadersBalanced
<1>16. SettledStay
  <2>1. ASSUME NEW z \in Written, Unmapped(z) PROVE Unmapped(z)'
    <3>1. pair.zone # z
      BY <1>1, <1>5, <2>1 DEF Unmapped, Inserting
    <3> QED BY <1>7, <1>10, <2>1, <3>1 DEF Unmapped, OthersStay, Inserting
  <2> QED BY <1>9, <2>1 DEF SettledStay, Written
<1> QED BY <1>9, <1>11, <1>12, <1>13, <1>14, <1>15, <1>16 DEF DataInv

\* A step that touches none of this.
LEMMA DataSame ==
  ASSUME DataInv, UNCHANGED <<zone_map, data_map, active_readers, pc, locals, disk>>,
         Committed' = Committed
  PROVE  DataInv' /\ SettledStay
<1>1. UNCHANGED <<data_id, result, location, data>>
  BY DEF locals
<1>2. /\ \A id \in Ids : Fillers(id)' = Fillers(id)
      /\ \A z \in Zones : Readers(z)' = Readers(z)
  BY <1>1 DEF Fillers, Readers
<1>3. MapsInverse' /\ MappedStored' /\ OneFiller'
  BY <1>2 DEF DataInv, MapsInverse, MappedStored, OneFiller, IdOf, Disk
<1>4. ReadersFind' /\ ReadValid' /\ WritersStored'
  BY <1>1 DEF DataInv, ReadersFind, ReadValid, WritersStored, IdOf, Disk
<1>5. ReadersBalanced'
  BY <1>2 DEF DataInv, ReadersBalanced
<1>6. SettledStay
  BY <1>1, <1>2 DEF SettledStay, Unmapped, IdOf, Written
<1> QED BY <1>3, <1>4, <1>5, <1>6 DEF DataInv

\* Every step of the front end keeps the data where the maps say it is.
LEMMA DataStep ==
  ASSUME NEW evictPcs, ZsmInv, FrontTypeOK(evictPcs), ControlOK, GrantsMatchLocations, DataInv,
         NEW t \in Threads, TaskStep(t) \/ GetStep(t) \/ evict_task(t) \/ Wakeup(t)
  PROVE  DataInv' /\ SettledStay
<1>0. UNCHANGED zsmVars => Committed' = Committed
  BY DEF zsmVars, Committed, ChunkWritten, LastChunkWritten
<1>1. CASE TakeRequest(t)
  <2>1. /\ OthersStay(t) /\ pc[t] = "next" /\ pc'[t] = "find"
        /\ UNCHANGED <<zsmVars, zone_map, data_map, active_readers, disk>>
    BY <1>1 DEF TakeRequest, Goto, OthersStay, FrontTypeOK, mapVars
  <2>2. /\ pc[t] \notin Reading \cup Copying
        /\ pc'[t] \notin Inserting \cup Reading \cup Copying \cup {"return_zone"}
    BY <2>1 DEF Reading, Copying, Inserting
  <2> QED BY <1>0, <2>1, <2>2, DataQuiet
<1>2. CASE WorkloadDone(t) \/ CountCompleted(t) \/ evict_task(t)
  <2>1. /\ pc[t] \in OutsideGet
        /\ \E to \in OutsideGet \cup {"evict"} : pc' = [pc EXCEPT ![t] = to]
        /\ UNCHANGED <<zsmVars, mapVars, locals, disk>>
    BY <1>2 DEF WorkloadDone, CountCompleted, evict_task, CheckDone, CheckFreeZones, Goto, OutsideGet
  <2>2. /\ OthersStay(t) /\ pc'[t] \in OutsideGet \cup {"evict"} /\ data_id' = data_id
        /\ UNCHANGED <<zone_map, data_map, active_readers>>
    BY <2>1 DEF OthersStay, FrontTypeOK, mapVars, locals
  <2>3. /\ pc[t] \notin Reading \cup Copying /\ pc[t] # "find"
        /\ pc'[t] \notin Inserting \cup Reading \cup Copying \cup {"return_zone"}
    BY <2>1, <2>2 DEF Reading, Copying, Inserting, OutsideGet
  <2> QED BY <1>0, <2>1, <2>2, <2>3, DataQuiet
<1>3. CASE Wakeup(t)
  BY <1>0, <1>3, DataSame DEF Wakeup, SpuriousWakeup, cacheVars
<1>4. CASE zn_cachemap_find(t)
  <2>1. pc[t] = "find" /\ UNCHANGED <<zsmVars, locals, disk>>
    BY <1>4 DEF zn_cachemap_find
  <2>2. CASE FindHit(data_id[t]) /\ pc' = [pc EXCEPT ![t] = "copy_location"]
    BY <2>1, <2>2, HitData
  <2>3. CASE FindClaim(data_id[t]) /\ pc' = [pc EXCEPT ![t] = "copy_location"]
    BY <2>1, <2>3, ClaimData
  <2>4. CASE FindWait(t, data_id[t]) /\ UNCHANGED pc
    BY <1>0, <2>1, <2>4, DataSame DEF FindWait
  <2> QED BY <1>4, <2>2, <2>3, <2>4 DEF zn_cachemap_find
<1>5. CASE FindReturnLocation(t) \/ FindReturnType(t)
  BY <1>5, CopyData
<1>6. CASE ReadChunk(t) \/ HitDone(t)
  BY <1>6, ReadData, HitDoneData
<1>7. CASE GetZone(t)
  <2>1. /\ pc[t] = "get_zone" /\ pc'[t] \in {"write", "undo_map", "evict"}
        /\ OthersStay(t) /\ data_id' = data_id
        /\ UNCHANGED <<zone_map, data_map, active_readers, disk>>
    BY <1>7 DEF GetZone, Goto, OthersStay, FrontTypeOK, mapVars
  <2>2. Committed' = Committed
    BY <1>0, <1>7, GetWritten DEF GetZone
  <2>3. /\ pc[t] \notin Reading \cup Copying
        /\ pc'[t] \notin Inserting \cup Reading \cup Copying \cup {"return_zone"}
    BY <2>1 DEF Reading, Copying, Inserting
  <2> QED BY <2>1, <2>2, <2>3, DataQuiet
<1>8. CASE WriteChunk(t) \/ ReturnZone(t) \/ MissDone(t) \/ UndoMap(t)
  BY <1>8, WriteData, ReturnZoneData, MissDoneData, UndoMapData
<1>9. CASE UndoZoneGet(t)
  <2>1. /\ pc[t] = "undo_zone" /\ pc'[t] = "undo_map"
        /\ OthersStay(t) /\ data_id' = data_id
        /\ UNCHANGED <<zone_map, data_map, active_readers, disk>>
    BY <1>9 DEF UndoZoneGet, Goto, OthersStay, FrontTypeOK, mapVars, locals
  <2>2. grant[t] # NoPair /\ grant[t] = location[t]
    BY <2>1 DEF GrantsMatchLocations, HoldsZone
  <2>3. Committed' = Committed
    BY <1>9, <2>2, FailedWritten DEF UndoZoneGet
  <2>4. /\ pc[t] \notin Reading \cup Copying
        /\ pc'[t] \notin Inserting \cup Reading \cup Copying \cup {"return_zone"}
    BY <2>1 DEF Reading, Copying, Inserting
  <2> QED BY <2>1, <2>3, <2>4, DataQuiet
<1> QED BY <1>1, <1>2, <1>3, <1>4, <1>5, <1>6, <1>7, <1>8, <1>9 DEF TaskStep, GetStep
------------------------------------------------------------------------------
(***************************************************************************)
(* Eviction.  zn_fg_evict clears the mappings of a zone, waits for its     *)
(* readers and resets it.                                                  *)
(***************************************************************************)
\* Clearing a zone empties the entries that lead into it and no other.
LEMMA ClearEntries ==
  ASSUME NEW evictPcs, FrontTypeOK(evictPcs), DataInv, NEW z \in Zones, zn_cachemap_clear_zone(z)
  PROVE  /\ \A id \in Ids :
              IF zone_map[id].type = "LOC" /\ zone_map[id].location.zone = z
              THEN zone_map'[id].type = "EMPTY"
              ELSE zone_map'[id] = zone_map[id]
         /\ \A p \in zn_pair : IdOf(p)' = IF p.zone = z THEN NULL ELSE IdOf(p)
<1>1. ASSUME NEW id \in Ids
      PROVE  id \in {data_map[z][c] : c \in Chunks}
             <=> zone_map[id].type = "LOC" /\ zone_map[id].location.zone = z
  <2>1. ASSUME NEW c \in Chunks, data_map[z][c] = id
        PROVE  zone_map[id].type = "LOC" /\ zone_map[id].location.zone = z
    <3>1. Pair(z, c) \in zn_pair /\ Pair(z, c).zone = z /\ Pair(z, c).chunk_offset = c
      BY NoPairFacts DEF Pair
    <3>2. zone_map[id] = Entry("LOC", Pair(z, c))
      BY <2>1, <3>1, NullAssumption DEF DataInv, MapsInverse, IdOf
    <3> QED BY <3>1, <3>2 DEF Entry
  <2>2. ASSUME zone_map[id].type = "LOC", zone_map[id].location.zone = z
        PROVE  \E c \in Chunks : data_map[z][c] = id
    <3>1. IdOf(zone_map[id].location) = id /\ zone_map[id].location.chunk_offset \in Chunks
      BY <2>2, DataTypes, NoPairFacts DEF DataInv, MapsInverse
    <3> QED BY <2>2, <3>1 DEF IdOf
  <2> QED BY <2>1, <2>2
<1>2. \A id \in Ids : zone_map[id] \in zone_map_result
  BY DEF FrontTypeOK, mapTypeOK
<1>3. \A id \in Ids : [zone_map[id] EXCEPT !.type = "EMPTY"].type = "EMPTY"
  BY <1>2 DEF zone_map_result
<1>4. ASSUME NEW p \in zn_pair PROVE IdOf(p)' = IF p.zone = z THEN NULL ELSE IdOf(p)
  <2>1. p.zone \in Zones /\ p.chunk_offset \in Chunks
    BY NoPairFacts
  <2> QED BY <2>1 DEF zn_cachemap_clear_zone, IdOf, FrontTypeOK, mapTypeOK
<1> QED BY <1>1, <1>3, <1>4 DEF zn_cachemap_clear_zone

\* An evictor that clears a zone nobody is about to read from or to insert into leaves
\* the rest as it was, and no mapping leads into the zone any more.
LEMMA ClearData ==
  ASSUME NEW evictPcs, FrontTypeOK(evictPcs), ControlOK, DataInv, NEW t \in Threads, NEW z \in Zones,
         zn_cachemap_clear_zone(z), InFlight(z) = {},
         NEW to, pc[t] \notin InGet, to \notin InGet, pc' = [pc EXCEPT ![t] = to],
         UNCHANGED <<zsmVars, locals, disk>>
  PROVE  DataInv' /\ SettledStay /\ Unmapped(z)'
<1>1. /\ \A id \in Ids : IF zone_map[id].type = "LOC" /\ zone_map[id].location.zone = z
                         THEN zone_map'[id].type = "EMPTY"
                         ELSE zone_map'[id] = zone_map[id]
      /\ \A p \in zn_pair : IdOf(p)' = IF p.zone = z THEN NULL ELSE IdOf(p)
  BY ClearEntries
<1>2. /\ OthersStay(t) /\ pc'[t] \notin InGet
      /\ UNCHANGED <<data_id, result, location, data, active_readers, disk>>
  BY DEF OthersStay, FrontTypeOK, locals, zn_cachemap_clear_zone
<1>3. Committed' = Committed
  BY DEF zsmVars, Committed, ChunkWritten, LastChunkWritten
<1>4. \A u \in Threads : /\ pc'[u] \in InGet <=> pc[u] \in InGet
                         /\ pc[u] \in InGet => pc'[u] = pc[u]
  BY <1>2 DEF OthersStay
<1>5. ASSUME NEW u \in Threads, pc[u] \in Copying
      PROVE  pc'[u] = pc[u] /\ data_id[u] \in Ids /\ zone_map'[data_id[u]] = zone_map[data_id[u]]
  <2>1. pc[u] \in InGet
    BY <1>5 DEF Copying, InGet
  <2>2. data_id[u] \in Ids
    BY <2>1, NullAssumption DEF ControlOK, FrontTypeOK, InGet, OutsideGet
  <2>3. ~(zone_map[data_id[u]].type = "LOC" /\ zone_map[data_id[u]].location.zone = z)
    BY <1>5 DEF InFlight
  <2> QED BY <1>1, <1>4, <2>1, <2>2, <2>3
<1>6. MapsInverse' /\ MappedStored'
  <2>1. ASSUME NEW id \in Ids, zone_map'[id].type = "LOC" PROVE IdOf(zone_map[id].location)' = id
    <3>1. /\ zone_map'[id] = zone_map[id] /\ zone_map[id].location.zone # z
          /\ zone_map[id].location \in zn_pair /\ IdOf(zone_map[id].location) = id
      BY <1>1, <2>1, DataTypes DEF DataInv, MapsInverse
    <3>2. data_map'[zone_map[id].location.zone][zone_map[id].location.chunk_offset] = id
      BY <1>1, <3>1 DEF IdOf
    <3> QED BY <3>1, <3>2 DEF IdOf
  <2>2. ASSUME NEW p \in zn_pair, IdOf(p)' # NULL
        PROVE  zone_map'[IdOf(p)'] = Entry("LOC", p) /\ IdOf(p)' = IdOf(p)
    <3>1. p.zone # z /\ IdOf(p)' = IdOf(p) /\ IdOf(p) \in Ids /\ zone_map[IdOf(p)] = Entry("LOC", p)
      BY <1>1, <2>2, DataTypes DEF DataInv, MapsInverse
    <3>2. zone_map[IdOf(p)].location = p
      BY <3>1 DEF Entry
    <3> QED BY <1>1, <3>1, <3>2
  <2>3. MapsInverse'
    BY <2>1, <2>2 DEF MapsInverse
  <2>4. MappedStored'
    BY <1>2, <1>3, <2>2 DEF DataInv, MappedStored, Disk
  <2> QED BY <2>3, <2>4
<1>7. OneFiller'
  <2>1. ASSUME NEW id \in Ids, NEW u \in Fillers(id)'
        PROVE  u \in Fillers(id) /\ zone_map'[id] = zone_map[id]
    <3>1. u \in Threads /\ data_id[u] = id /\ pc'[u] \notin NotFilling
      BY <1>2, <2>1 DEF Fillers, NotFilling
    <3>2. pc[u] \notin NotFilling
      BY <1>4, <3>1 DEF NotFilling, InGet
    <3>3. CASE pc[u] \in Copying
      BY <1>5, <2>1, <3>1, <3>3 DEF Fillers, Copying
    <3>4. CASE pc[u] \notin Copying
      <4>1. u \in Fillers(id)
        BY <3>1, <3>2, <3>4 DEF Fillers, NotFilling, Copying
      <4>2. zone_map[id].type = "COND"
        BY <4>1 DEF DataInv, OneFiller
      <4> QED BY <1>1, <4>1, <4>2
    <3> QED BY <3>3, <3>4
  <2> QED BY <2>1 DEF DataInv, OneFiller
<1>8. \A y \in Zones : Readers(y)' = Readers(y)
  <2> SUFFICES ASSUME NEW y \in Zones, NEW u \in Threads PROVE u \in Readers(y)' <=> u \in Readers(y)
    BY DEF Readers
  <2>1. CASE u = t
    BY <1>2, <2>1 DEF Readers, InGet
  <2>2. CASE u # t
    BY <1>2, <1>5, <2>2, OthersReaders
  <2> QED BY <2>1, <2>2
<1>9. ReadersFind' /\ ReadValid'
  <2>1. \A u \in Threads : pc'[u] = "copy_type" => pc[u] \in Copying
    BY <1>4 DEF Copying, InGet
  <2>2. \A u \in Threads : pc'[u] \in Reading => pc[u] = pc'[u]
    BY <1>4 DEF Reading, InGet
  <2>3. ReadersFind'
    BY <1>2, <1>3, <1>5, <2>1, <2>2 DEF DataInv, ReadersFind, Disk, Reading
  <2>4. ReadValid'
    BY <1>2, <2>2 DEF DataInv, ReadValid, Reading
  <2> QED BY <2>3, <2>4
<1>10. WritersStored'
  <2>1. \A u \in Threads : pc'[u] \in Inserting \cup {"return_zone"} => pc[u] = pc'[u]
    BY <1>4 DEF Inserting, InGet
  <2>2. ASSUME NEW p \in zn_pair, IdOf(p) = NULL PROVE IdOf(p)' = NULL
    BY <1>1, <2>2
  <2>3. ASSUME NEW u \in Threads, pc'[u] \in Inserting PROVE IdOf(location[u])' = NULL
    <3>1. pc[u] \in Inserting /\ location[u] \in zn_pair /\ IdOf(location[u]) = NULL
      BY <2>1, <2>3 DEF DataInv, WritersStored, Committed
    <3>2. data_map'[location[u].zone][location[u].chunk_offset] = NULL
      BY <2>2, <3>1 DEF IdOf
    <3> QED BY <1>2, <3>2 DEF IdOf
  <2> QED BY <1>2, <1>3, <2>1, <2>3 DEF DataInv, WritersStored, Disk
<1>11. ReadersBalanced'
  BY <1>2, <1>8 DEF DataInv, ReadersBalanced
<1>12. \A u \in Threads : pc'[u] \in Inserting => pc[u] \in Inserting
  BY <1>4 DEF Inserting, InGet
<1>13. SettledStay
  BY <1>1, <1>2, <1>8, <1>12 DEF SettledStay, Unmapped, Written
<1>14. Unmapped(z)'
  BY <1>1, <1>2, <1>12 DEF Unmapped, InFlight
<1> QED BY <1>6, <1>7, <1>9, <1>10, <1>11, <1>13, <1>14 DEF DataInv

\* The reset of a zone that no mapping leads into and nobody reads disturbs nothing.
LEMMA ResetData ==
  ASSUME NEW evictPcs, FrontInv(evictPcs), DataInv, NEW t \in Threads, NEW z \in Written,
         ResetOnDevice(z), Unmapped(z), Readers(z) = {},
         NEW to, pc[t] \notin InGet, to \notin InGet, pc' = [pc EXCEPT ![t] = to],
         UNCHANGED <<mapVars, locals>>
  PROVE  DataInv' /\ \A y : /\ Unmapped(y) => Unmapped(y)'
                            /\ y \in Zones => Readers(y)' = Readers(y)
<1>1. FrontTypeOK(evictPcs) /\ ZsmInv /\ GrantsMatchLocations
  BY DEF FrontInv
<1>2. /\ OthersStay(t) /\ pc'[t] \notin InGet
      /\ UNCHANGED <<zone_map, data_map, active_readers, data_id, result, location, data>>
  BY <1>1 DEF OthersStay, FrontTypeOK, mapVars, locals
<1>3. \A p \in Committed : p.zone # z => p \in Committed'
  BY <1>1, EvictWritten DEF ResetOnDevice
<1>4. \A p \in zn_pair : p.zone # z => Disk(p)' = Disk(p)
  BY ResetWhole, NoPairFacts DEF Disk
<1>5. pc[t] \notin NotFilling \cup Copying /\ pc'[t] \notin NotFilling \cup Copying
  BY <1>2 DEF NotFilling, Copying, InGet
<1>6. /\ \A id \in Ids : Fillers(id)' \subseteq Fillers(id)
      /\ \A y \in Zones : Readers(y)' = Readers(y)
  BY <1>1, <1>2, <1>5, FillersSame
<1>7. \A u \in Threads : pc'[u] \in InGet => pc[u] = pc'[u]
  BY <1>2 DEF OthersStay
<1>8. MapsInverse' /\ MappedStored' /\ OneFiller'
  <2>1. \A p \in zn_pair : IdOf(p) # NULL => p.zone # z
    BY DEF Unmapped
  <2> QED BY <1>2, <1>3, <1>4, <1>6, <2>1 DEF DataInv, MapsInverse, MappedStored, OneFiller, IdOf
<1>9. ReadersFind' /\ ReadValid'
  <2>1. ASSUME NEW u \in Threads, pc'[u] = "read"
        PROVE  result[u].location \in Committed' /\ Disk(result[u].location)' = data_id[u]
    <3>1. pc[u] = "read" /\ result[u].location \in zn_pair
      BY <1>1, <1>7, <2>1, DataTypes DEF InGet
    <3>2. result[u].location.zone # z
      BY <3>1 DEF Readers
    <3>3. result[u].location \in Committed /\ Disk(result[u].location) = data_id[u]
      BY <3>1 DEF DataInv, ReadersFind
    <3>4. disk'[result[u].location.zone][result[u].location.chunk_offset] = data_id[u]
      BY <1>4, <3>1, <3>2, <3>3 DEF Disk
    <3> QED BY <1>2, <1>3, <3>2, <3>3, <3>4 DEF Disk
  <2>2. ReadersFind'
    BY <1>2, <1>7, <2>1 DEF DataInv, ReadersFind, InGet
  <2>3. ReadValid'
    BY <1>2, <1>7 DEF DataInv, ReadValid, InGet
  <2> QED BY <2>2, <2>3
<1>10. WritersStored'
  <2>1. ASSUME NEW u \in Threads, pc'[u] \in Inserting \cup {"return_zone"}
        PROVE  /\ pc[u] = pc'[u] /\ location[u] \in zn_pair /\ location[u].zone # z
               /\ disk'[location[u].zone][location[u].chunk_offset] = data_id[u]
    <3>1. pc[u] = pc'[u]
      BY <1>7, <2>1 DEF Inserting, InGet
    <3>2. location[u] \in zn_pair /\ Disk(location[u]) = data_id[u]
      BY <2>1, <3>1, LocationTypes DEF FrontInv, DataInv, WritersStored
    <3>3. location[u].zone # z
      <4>1. CASE pc[u] \in Inserting
        BY <4>1 DEF Unmapped
      <4>2. CASE pc[u] = "return_zone"
        BY <1>1, <4>2, GrantNotCommitted DEF GrantsMatchLocations, HoldsZone
      <4> QED BY <2>1, <3>1, <4>1, <4>2
    <3> QED BY <1>4, <3>1, <3>2, <3>3 DEF Disk
  <2> QED BY <1>2, <1>3, <2>1 DEF DataInv, WritersStored, Disk, IdOf
<1>11. ReadersBalanced'
  BY <1>2, <1>6 DEF DataInv, ReadersBalanced
<1>12. \A u \in Threads : pc'[u] \in Inserting => pc[u] \in Inserting
  BY <1>7 DEF Inserting, InGet
<1>13. \A y : Unmapped(y) => Unmapped(y)'
  BY <1>2, <1>12 DEF Unmapped, IdOf
<1> QED BY <1>6, <1>8, <1>9, <1>10, <1>11, <1>13 DEF DataInv
==============================================================================
