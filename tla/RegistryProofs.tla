--------------------------- MODULE RegistryProofs ---------------------------
(***************************************************************************)
(* Proofs about Registry: what the index, the tarballs and the downloads   *)
(* keep however handlers overlap and die, and what stays published as long *)
(* as they do not, for any number of handlers, clients, versions and       *)
(* uploads.                                                                *)
(***************************************************************************)
EXTENDS Registry, TLAPS

Live(u) == [version |-> u.version, sha |-> u.sha, yanked |-> FALSE]
Saved == {"open index", "write index", "answer"}
Reading == {"open tarball", "write tarball", "open index"}

(* What the steps need of the shape of the state. *)
Shape == /\ index \subseteq Entry
         /\ tarball \in [Versions -> NoBytes \cup Contents]
         /\ hpc \in [Handlers -> {"idle", "open tarball", "write tarball",
                                 "open index", "write index", "answer"}]
         /\ upload \in [Handlers -> Upload \cup {None}]
         /\ \A h \in Handlers : hpc[h] # "idle" => upload[h] \in Upload
         /\ loaded \in [Handlers -> SUBSET Entry]
         /\ cpc \in [Clients -> {"idle", "drop", "fetch", "open cache",
                                 "fill cache", "return"}]
         /\ want \in [Clients -> Upload \cup {None}]
         /\ \A k \in Clients : cpc[k] # "idle" => want[k] \in Upload
         /\ got \in [Clients -> {"none"} \cup Contents]
         /\ listed \subseteq Upload

(* Every entry of a list was listed before. *)
AllListed(entries) ==
  \A e \in entries : [version |-> e.version, sha |-> e.sha] \in listed

EntriesListed == /\ AllListed(index)
                 /\ \A h \in Handlers : AllListed(loaded[h])

(* A handler past its first file operation has a tarball to list.          *)
TarballsExist ==
  \A h \in Handlers :
    hpc[h] \in Saved \cup {"write tarball"} => tarball[upload[h].version] # "none"

UploadsPosted == /\ \A h \in Handlers : hpc[h] # "idle" => upload[h] \in posted
                 /\ listed \subseteq posted

TarballInv == Shape /\ EntriesListed /\ TarballsExist /\ UploadsPosted
                    /\ EntryHasTarball

(* No list a handler works with has two live entries for a version, and    *)
(* none has one for the version the handler publishes.                     *)
OneLive(entries) ==
  \A d, e \in entries : ~d.yanked /\ ~e.yanked /\ d.version = e.version => d = e

LiveInv == /\ OneLive(index)
           /\ \A h \in Handlers : OneLive(loaded[h])
           /\ \A h \in Handlers :
                hpc[h] # "idle" => ~Taken(upload[h].version, loaded[h])

(* A client at work wants what was posted, and has nothing but that.       *)
ClientInv ==
  \A k \in Clients : /\ cpc[k] # "idle" => want[k] \in posted
                     /\ got[k] # "none" => /\ cpc[k] # "idle"
                                           /\ got[k] = want[k].sha

(* The entries are what PublishedForGood says of the index. *)
Kept(entries) ==
  /\ \A u \in acked : u.version \notin pulled => Live(u) \in entries
  /\ \A e \in entries : ~e.yanked => tarball[e.version] = e.sha

(* As long as nothing is disturbed one handler is at work; it has read the *)
(* index as it is, and left nothing half done behind the step it is at.    *)
Calm ==
  /\ \A g, h \in Handlers : hpc[g] # "idle" /\ hpc[h] # "idle" => g = h
  /\ (\A h \in Handlers : hpc[h] # "write index") =>
       /\ indexFile \in {"none", "whole"}
       /\ indexFile = "none" => index = {}
       /\ Kept(index)
  /\ \A h \in Handlers :
       /\ hpc[h] \in Reading => loaded[h] = index
       /\ hpc[h] = "write tarball" => tarball[upload[h].version] = "cut"
       /\ hpc[h] \in Saved => tarball[upload[h].version] = upload[h].sha
       /\ hpc[h] = "write index" => indexFile = "cut" /\ Kept(loaded[h])
       /\ hpc[h] = "answer" => Live(upload[h]) \in index

GoodInv == disturbed \/ Calm
-----------------------------------------------------------------------------
LEMMA ShapeStep == Shape /\ [RegistryNext]_registryVars => Shape'
<1> SUFFICES ASSUME Shape, [RegistryNext]_registryVars PROVE Shape'
  OBVIOUS
<1> USE DEF Shape, server, client, records
<1>1. ASSUME NEW h \in Handlers, NEW u \in Upload, Publish(h, u) PROVE Shape'
  BY <1>1 DEF Publish, LoadIndex
<1>2. ASSUME NEW h \in Handlers, OpenTarball(h) PROVE Shape'
  BY <1>2 DEF OpenTarball, NoBytes
<1>3. ASSUME NEW h \in Handlers, WriteTarball(h) PROVE Shape'
  BY <1>3 DEF WriteTarball, NoBytes, Upload
<1>4. ASSUME NEW h \in Handlers, OpenIndex(h) PROVE Shape'
  BY <1>4 DEF OpenIndex
<1>5. ASSUME NEW h \in Handlers, WriteIndex(h) PROVE Shape'
  <2>1. Appended(h) \subseteq Entry
    <3>1. upload[h].version \in Versions /\ upload[h].sha \in Contents
      BY <1>5 DEF WriteIndex, Upload
    <3>2. [version |-> upload[h].version, sha |-> upload[h].sha,
           yanked |-> FALSE] \in Entry
      BY <3>1, Zenon DEF Entry
    <3> QED BY <3>2 DEF Appended
  <2>2. index' = Appended(h) \/ index' = {}
    BY <1>5 DEF WriteIndex
  <2>3. \A e \in Appended(h) : [version |-> e.version, sha |-> e.sha] \in Upload
    BY <2>1 DEF Upload, Entry
  <2>4. \/ listed' = listed
        \/ listed' = listed \cup {[version |-> e.version, sha |-> e.sha] :
                                    e \in Appended(h)}
    BY <1>5 DEF WriteIndex
  <2>5. listed' \subseteq Upload
    <3> SUFFICES ASSUME NEW w \in listed', w \notin listed PROVE w \in Upload
      OBVIOUS
    <3>1. PICK e \in Appended(h) : w = [version |-> e.version, sha |-> e.sha]
      BY <2>4, Zenon
    <3> QED BY <2>3, <3>1
  <2>6. /\ hpc' = [hpc EXCEPT ![h] = "answer"]
        /\ UNCHANGED <<tarball, upload, loaded, client, posted>>
        /\ upload[h] \in Upload
    BY <1>5 DEF WriteIndex
  <2> QED BY <2>1, <2>2, <2>5, <2>6
<1>6. ASSUME NEW h \in Handlers, Answer(h) PROVE Shape'
  BY <1>6 DEF Answer, Ended
<1>7. ASSUME NEW h \in Handlers, Die(h) PROVE Shape'
  BY <1>7 DEF Die, Ended
<1>8. ASSUME NEW v \in Versions, Yank(v) PROVE Shape'
  BY <1>8 DEF Yank, Flagged, Entry
<1>9. ASSUME NEW k \in Clients, NEW u \in listed, Download(k, u) PROVE Shape'
  <2>1. u \in Upload /\ u.sha \in Contents
    BY DEF Upload
  <2>2. got' \in [Clients -> {"none"} \cup Contents]
    BY <1>9, <2>1 DEF Download, Verified
  <2>3. PICK s \in {"drop", "fetch", "return"} : cpc' = [cpc EXCEPT ![k] = s]
    BY <1>9 DEF Download
  <2>4. want' = [want EXCEPT ![k] = u] /\ UNCHANGED <<server, listed, posted>>
    BY <1>9 DEF Download
  <2> QED BY <2>1, <2>2, <2>3, <2>4
<1>10. ASSUME NEW k \in Clients, Drop(k) PROVE Shape'
  BY <1>10 DEF Drop
<1>11. ASSUME NEW k \in Clients, Fetch(k) PROVE Shape'
  BY <1>11 DEF Fetch, Verified, Upload, NoBytes
<1>12. ASSUME NEW k \in Clients, OpenCache(k) PROVE Shape'
  BY <1>12 DEF OpenCache
<1>13. ASSUME NEW k \in Clients, FillCache(k) PROVE Shape'
  BY <1>13 DEF FillCache
<1>14. ASSUME NEW k \in Clients, CacheFails(k) PROVE Shape'
  BY <1>14 DEF CacheFails
<1>15. ASSUME NEW k \in Clients, EndDownload(k) PROVE Shape'
  BY <1>15 DEF EndDownload
<1>16. CASE UNCHANGED registryVars
  BY <1>16 DEF registryVars
<1> QED
  BY <1>1, <1>2, <1>3, <1>4, <1>5, <1>6, <1>7, <1>8, <1>9, <1>10, <1>11, <1>12,
     <1>13, <1>14, <1>15, <1>16 DEF RegistryNext, Handle, Install

(* Downloads touch neither the server nor what is known of its uploads.    *)
LEMMA InstallKeepsServer ==
  ASSUME NEW k \in Clients, Install(k)
  PROVE  UNCHANGED <<server, records>>
BY DEF Install, Download, Drop, Fetch, OpenCache, FillCache, CacheFails, EndDownload

(* No step of a handler touches the clients.                               *)
LEMMA HandlersKeepClients ==
  ASSUME NEW h \in Handlers, Handle(h)
  PROVE  UNCHANGED client
BY DEF Handle, Publish, OpenTarball, WriteTarball, OpenIndex, WriteIndex, Answer,
       Die

(* WriteIndex lists what the handler has read and what it publishes.       *)
LEMMA NewlyListed ==
  ASSUME Shape, EntriesListed, NEW h \in Handlers, WriteIndex(h), NEW w \in listed'
  PROVE  w \in listed \/ w = upload[h]
<1> SUFFICES ASSUME w \notin listed PROVE w = upload[h]
  OBVIOUS
<1>1. \/ listed' = listed
      \/ listed' = listed \cup {[version |-> e.version, sha |-> e.sha] :
                                  e \in Appended(h)}
  BY DEF WriteIndex
<1>2. PICK e \in Appended(h) : w = [version |-> e.version, sha |-> e.sha]
  BY <1>1, Zenon
<1>3. e \notin loaded[h]
  BY <1>2 DEF EntriesListed, AllListed
<1>4. e = [version |-> upload[h].version, sha |-> upload[h].sha, yanked |-> FALSE]
  BY <1>3, <1>2, Zenon DEF Appended
<1>5. e.version = upload[h].version /\ e.sha = upload[h].sha
  BY <1>4
<1>6. upload[h] \in Upload
  BY DEF WriteIndex, Shape
<1> QED BY <1>2, <1>5, <1>6 DEF Upload

(* The entries WriteIndex writes are listed afterwards.                    *)
LEMMA AppendedListed ==
  ASSUME NEW h \in Handlers, WriteIndex(h)
  PROVE  /\ listed \subseteq listed'
         /\ \A e \in index' : [version |-> e.version, sha |-> e.sha] \in listed'
<1>1. listed \subseteq listed'
  BY DEF WriteIndex
<1>2. \/ index' = {}
      \/ /\ index' = Appended(h)
         /\ listed' = listed \cup {[version |-> e.version, sha |-> e.sha] :
                                     e \in Appended(h)}
  BY DEF WriteIndex
<1>3. \A e \in index' : [version |-> e.version, sha |-> e.sha] \in listed'
  BY <1>2, Zenon
<1> QED BY <1>1, <1>3

(* A tarball that is there stays there.                                    *)
LEMMA TarballsStay ==
  ASSUME Shape, [RegistryNext]_registryVars, NEW v \in Versions, tarball[v] # "none"
  PROVE  tarball'[v] # "none"
<1>1. ASSUME NEW h \in Handlers, OpenTarball(h) PROVE tarball'[v] # "none"
  BY <1>1 DEF OpenTarball, Shape
<1>2. ASSUME NEW h \in Handlers, WriteTarball(h) PROVE tarball'[v] # "none"
  <2>1. upload[h].sha # "none"
    BY <1>2, RegistryAssumption DEF WriteTarball, Shape, Upload, NoBytes
  <2> QED BY <1>2, <2>1 DEF WriteTarball, Shape
<1>3. CASE UNCHANGED tarball
  BY <1>3
<1> QED
  BY <1>1, <1>2, <1>3, InstallKeepsServer
  DEF RegistryNext, Handle, registryVars, server, Publish, OpenIndex, WriteIndex, Answer, Die, Yank

LEMMA TarballInit == RegistryInit => TarballInv
<1> SUFFICES ASSUME RegistryInit PROVE TarballInv
  OBVIOUS
<1>1. /\ index = {} /\ listed = {} /\ posted = {}
      /\ tarball = [v \in Versions |-> "none"]
      /\ hpc = [h \in Handlers |-> "idle"]
      /\ upload = [h \in Handlers |-> None]
      /\ loaded = [h \in Handlers |-> {}]
      /\ cpc = [k \in Clients |-> "idle"]
      /\ want = [k \in Clients |-> None]
      /\ got = [k \in Clients |-> "none"]
  BY DEF RegistryInit
<1>2. Shape
  BY <1>1 DEF Shape, NoBytes
<1>3. EntriesListed /\ UploadsPosted /\ EntryHasTarball
  BY <1>1 DEF EntriesListed, AllListed, UploadsPosted, EntryHasTarball
<1>4. TarballsExist
  BY <1>1 DEF TarballsExist, Saved
<1> QED BY <1>2, <1>3, <1>4 DEF TarballInv

LEMMA EntriesListedStep ==
  ASSUME TarballInv, [RegistryNext]_registryVars
  PROVE  EntriesListed'
<1> USE DEF TarballInv
<1>1. Shape /\ EntriesListed
  OBVIOUS
<1>2. ASSUME NEW h \in Handlers, NEW u \in Upload, Publish(h, u)
      PROVE  EntriesListed'
  <2>1. /\ UNCHANGED <<index, listed>>
        /\ loaded' = [loaded EXCEPT ![h] = LoadIndex]
    BY <1>2 DEF Publish
  <2>2. AllListed(LoadIndex)
    BY <1>1 DEF EntriesListed, AllListed, LoadIndex
  <2> QED BY <1>1, <2>1, <2>2 DEF EntriesListed, AllListed, Shape
<1>3. ASSUME NEW h \in Handlers, WriteIndex(h) PROVE EntriesListed'
  <2>1. UNCHANGED loaded
    BY <1>3 DEF WriteIndex
  <2> QED BY <1>1, <1>3, <2>1, AppendedListed DEF EntriesListed, AllListed
<1>4. ASSUME NEW h \in Handlers, OpenTarball(h) \/ WriteTarball(h)
      PROVE  EntriesListed'
  <2>1. UNCHANGED <<index, loaded, listed>>
    BY <1>4 DEF OpenTarball, WriteTarball, records
  <2> QED BY <1>1, <2>1 DEF EntriesListed, AllListed
<1>5. ASSUME NEW h \in Handlers, OpenIndex(h) PROVE EntriesListed'
  <2>1. index' = {} /\ UNCHANGED <<loaded, listed>>
    BY <1>5 DEF OpenIndex, records
  <2> QED BY <1>1, <2>1 DEF EntriesListed, AllListed
<1>6. ASSUME NEW h \in Handlers, Answer(h) \/ Die(h) PROVE EntriesListed'
  <2>1. /\ loaded' = [loaded EXCEPT ![h] = {}]
        /\ UNCHANGED <<index, listed>>
    BY <1>6 DEF Answer, Die, Ended
  <2> QED BY <1>1, <2>1 DEF EntriesListed, AllListed, Shape
<1>7. ASSUME NEW v \in Versions, Yank(v) PROVE EntriesListed'
  <2>1. index' = {Flagged(e, v) : e \in index} /\ UNCHANGED <<loaded, listed>>
    BY <1>7 DEF Yank
  <2>2. ASSUME NEW d \in index'
        PROVE  [version |-> d.version, sha |-> d.sha] \in listed
    <3>1. PICK e \in index : d = Flagged(e, v)
      BY <2>1, Zenon
    <3>2. d.version = e.version /\ d.sha = e.sha
      BY <1>1, <3>1 DEF Flagged, Shape, Entry
    <3> QED BY <1>1, <3>2 DEF EntriesListed, AllListed
  <2> QED BY <1>1, <2>1, <2>2 DEF EntriesListed, AllListed
<1>8. ASSUME UNCHANGED <<server, records>> PROVE EntriesListed'
  <2>1. UNCHANGED <<index, loaded, listed>>
    BY <1>8 DEF server, records
  <2> QED BY <1>1, <2>1 DEF EntriesListed, AllListed
<1> QED
  BY <1>2, <1>3, <1>4, <1>5, <1>6, <1>7, <1>8, InstallKeepsServer
  DEF RegistryNext, Handle, registryVars

LEMMA TarballStep == TarballInv /\ [RegistryNext]_registryVars => TarballInv'
<1> SUFFICES ASSUME TarballInv, [RegistryNext]_registryVars PROVE TarballInv'
  OBVIOUS
<1>1. Shape /\ EntriesListed /\ TarballsExist /\ UploadsPosted /\ EntryHasTarball
  BY DEF TarballInv
<1>2. Shape' /\ EntriesListed'
  BY <1>1, ShapeStep, EntriesListedStep
<1>3. ASSUME NEW h \in Handlers, NEW u \in Upload, Publish(h, u)
      PROVE  TarballsExist' /\ UploadsPosted' /\ EntryHasTarball'
  <2>1. /\ hpc' = [hpc EXCEPT ![h] = "open tarball"]
        /\ upload' = [upload EXCEPT ![h] = u]
        /\ posted' = posted \cup {u}
        /\ UNCHANGED <<tarball, listed>>
    BY <1>3 DEF Publish
  <2> QED BY <1>1, <2>1 DEF TarballsExist, UploadsPosted, EntryHasTarball, Saved,
                            Shape
<1>4. ASSUME NEW h \in Handlers, OpenTarball(h) \/ WriteTarball(h)
      PROVE  TarballsExist' /\ UploadsPosted' /\ EntryHasTarball'
  <2>1. UNCHANGED <<upload, listed, posted>>
    BY <1>4 DEF OpenTarball, WriteTarball, records
  <2>2. PICK s \in {"write tarball", "open index"} : hpc' = [hpc EXCEPT ![h] = s]
    BY <1>4 DEF OpenTarball, WriteTarball
  <2>3. hpc[h] # "idle" /\ upload[h] \in Upload /\ upload[h].version \in Versions
    BY <1>1, <1>4 DEF OpenTarball, WriteTarball, Shape, Upload
  <2>4. tarball'[upload[h].version] # "none"
    <3>1. CASE OpenTarball(h)
      BY <1>1, <2>3, <3>1 DEF OpenTarball, Shape
    <3>2. CASE WriteTarball(h)
      <4>1. upload[h].sha # "none"
        BY <2>3, RegistryAssumption DEF Upload, NoBytes
      <4> QED BY <1>1, <2>3, <3>2, <4>1 DEF WriteTarball, Shape
    <3> QED BY <1>4, <3>1, <3>2
  <2>5. TarballsExist'
    <3> SUFFICES ASSUME NEW g \in Handlers, hpc'[g] \in Saved \cup {"write tarball"}
                 PROVE  tarball'[upload[g].version] # "none"
      BY <2>1 DEF TarballsExist
    <3>1. CASE g = h
      BY <2>4, <3>1
    <3>2. CASE g # h
      <4>1. hpc[g] = hpc'[g]
        BY <1>1, <2>2, <3>2 DEF Shape
      <4>2. upload[g].version \in Versions /\ tarball[upload[g].version] # "none"
        BY <1>1, <4>1 DEF TarballsExist, Shape, Saved, Upload
      <4> QED BY <1>1, <4>2, TarballsStay
    <3> QED BY <3>1, <3>2
  <2>6. EntryHasTarball'
    BY <1>1, <2>1, TarballsStay DEF EntryHasTarball, Shape, Upload
  <2>7. UploadsPosted'
    BY <1>1, <2>1, <2>2, <2>3 DEF UploadsPosted, Shape
  <2> QED BY <2>5, <2>6, <2>7
<1>5. ASSUME NEW h \in Handlers, OpenIndex(h)
      PROVE  TarballsExist' /\ UploadsPosted' /\ EntryHasTarball'
  <2>1. /\ hpc' = [hpc EXCEPT ![h] = "write index"]
        /\ hpc[h] = "open index"
        /\ UNCHANGED <<tarball, upload, listed, posted>>
    BY <1>5 DEF OpenIndex, records
  <2> QED BY <1>1, <2>1 DEF TarballsExist, UploadsPosted, EntryHasTarball, Saved,
                            Shape
<1>6. ASSUME NEW h \in Handlers, WriteIndex(h)
      PROVE  TarballsExist' /\ UploadsPosted' /\ EntryHasTarball'
  <2>1. /\ hpc' = [hpc EXCEPT ![h] = "answer"]
        /\ hpc[h] = "write index"
        /\ UNCHANGED <<tarball, upload, posted>>
    BY <1>6 DEF WriteIndex
  <2>2. tarball[upload[h].version] # "none" /\ upload[h] \in posted
    BY <1>1, <2>1 DEF TarballsExist, UploadsPosted, Saved
  <2>3. TarballsExist' /\ \A g \in Handlers : hpc'[g] # "idle" => upload'[g] \in posted'
    BY <1>1, <2>1 DEF TarballsExist, UploadsPosted, Saved, Shape
  <2>4. \A w \in listed' : w \in listed \/ w = upload[h]
    BY <1>1, <1>6, NewlyListed
  <2> QED BY <1>1, <2>1, <2>2, <2>3, <2>4 DEF EntryHasTarball, UploadsPosted
<1>7. ASSUME NEW h \in Handlers, Answer(h) \/ Die(h)
      PROVE  TarballsExist' /\ UploadsPosted' /\ EntryHasTarball'
  <2>1. /\ hpc' = [hpc EXCEPT ![h] = "idle"]
        /\ upload' = [upload EXCEPT ![h] = None]
        /\ UNCHANGED <<tarball, listed, posted>>
    BY <1>7 DEF Answer, Die, Ended
  <2> QED BY <1>1, <2>1 DEF TarballsExist, UploadsPosted, EntryHasTarball, Saved,
                            Shape
<1>8. ASSUME UNCHANGED <<tarball, hpc, upload, listed, posted>>
      PROVE  TarballsExist' /\ UploadsPosted' /\ EntryHasTarball'
  BY <1>1, <1>8 DEF TarballsExist, UploadsPosted, EntryHasTarball
<1>9. ASSUME NEW v \in Versions, Yank(v)
      PROVE  UNCHANGED <<tarball, hpc, upload, listed, posted>>
  BY <1>9 DEF Yank
<1>10. ASSUME UNCHANGED <<server, records>>
       PROVE  UNCHANGED <<tarball, hpc, upload, listed, posted>>
  BY <1>10 DEF server, records
<1>11. TarballsExist' /\ UploadsPosted' /\ EntryHasTarball'
  BY <1>3, <1>4, <1>5, <1>6, <1>7, <1>8, <1>9, <1>10, InstallKeepsServer
  DEF RegistryNext, Handle, registryVars
<1> QED BY <1>2, <1>11 DEF TarballInv

(* A listed version has a tarball, whatever overlaps or dies.              *)
THEOREM EntryHasTarballHolds == RegistrySpec => []EntryHasTarball
<1>1. TarballInv => EntryHasTarball
  BY DEF TarballInv
<1> QED BY <1>1, TarballInit, TarballStep, PTL DEF RegistrySpec
-----------------------------------------------------------------------------
(* The list a handler writes has one live entry for each version.          *)
LEMMA AppendedOneLive ==
  ASSUME NEW h \in Handlers, OneLive(loaded[h]),
         ~Taken(upload[h].version, loaded[h])
  PROVE  OneLive(Appended(h))
<1> DEFINE new == [version |-> upload[h].version, sha |-> upload[h].sha,
                   yanked |-> FALSE]
<1>1. new.version = upload[h].version
  OBVIOUS
<1> SUFFICES ASSUME NEW d \in Appended(h), NEW e \in Appended(h),
                    ~d.yanked, ~e.yanked, d.version = e.version
             PROVE  d = e
  BY DEF OneLive
<1> HIDE DEF new
<1>2. /\ d \in loaded[h] \/ d = new
      /\ e \in loaded[h] \/ e = new
  BY DEF Appended, new
<1>3. \A f \in loaded[h] : ~f.yanked => f.version # new.version
  BY <1>1, Zenon DEF Taken
<1> QED BY <1>2, <1>3, Zenon DEF OneLive

LEMMA LiveInit == RegistryInit => LiveInv
<1> SUFFICES ASSUME RegistryInit PROVE LiveInv
  OBVIOUS
<1>1. index = {} /\ \A h \in Handlers : hpc[h] = "idle" /\ loaded[h] = {}
  BY DEF RegistryInit
<1> QED BY <1>1, Zenon DEF LiveInv, OneLive

LEMMA LiveStep == Shape /\ LiveInv /\ [RegistryNext]_registryVars => LiveInv'
<1> SUFFICES ASSUME Shape, LiveInv, [RegistryNext]_registryVars PROVE LiveInv'
  OBVIOUS
<1>1. /\ OneLive(index)
      /\ \A h \in Handlers : OneLive(loaded[h])
      /\ \A h \in Handlers : hpc[h] # "idle" => ~Taken(upload[h].version, loaded[h])
  BY DEF LiveInv
<1>2. OneLive({}) /\ OneLive(LoadIndex)
  BY <1>1, Zenon DEF OneLive, LoadIndex
<1>3. ASSUME NEW h \in Handlers, NEW u \in Upload, Publish(h, u) PROVE LiveInv'
  <2>1. /\ hpc' = [hpc EXCEPT ![h] = "open tarball"]
        /\ upload' = [upload EXCEPT ![h] = u]
        /\ loaded' = [loaded EXCEPT ![h] = LoadIndex]
        /\ ~Taken(u.version, LoadIndex)
        /\ index' = index
    BY <1>3, Zenon DEF Publish
  <2>2. /\ upload'[h] = u /\ loaded'[h] = LoadIndex
        /\ \A g \in Handlers \ {h} : /\ hpc'[g] = hpc[g]
                                      /\ upload'[g] = upload[g]
                                      /\ loaded'[g] = loaded[g]
    BY <2>1 DEF Shape
  <2>3. OneLive(index')
    BY <1>1, <2>1
  <2>4. ASSUME NEW g \in Handlers
        PROVE  /\ OneLive(loaded'[g])
               /\ hpc'[g] # "idle" => ~Taken(upload'[g].version, loaded'[g])
    <3>1. CASE g = h
      BY <1>2, <2>1, <2>2, <3>1
    <3>2. CASE g # h
      <4>1. hpc'[g] = hpc[g] /\ upload'[g] = upload[g] /\ loaded'[g] = loaded[g]
        BY <2>2, <3>2
      <4> QED BY <1>1, <4>1
    <3> QED BY <3>1, <3>2
  <2> QED BY <2>3, <2>4, Zenon DEF LiveInv, OneLive, Taken
<1>4. ASSUME NEW h \in Handlers, NEW s, hpc[h] # "idle", hpc' = [hpc EXCEPT ![h] = s],
             UNCHANGED <<upload, loaded>>, OneLive(index')
      PROVE  LiveInv'
  <2>1. \A g \in Handlers : hpc'[g] # "idle" => hpc[g] # "idle"
    BY <1>4 DEF Shape
  <2> QED BY <1>1, <1>4, <2>1, Zenon DEF LiveInv, OneLive, Taken
<1>5. ASSUME NEW h \in Handlers, OpenTarball(h) PROVE LiveInv'
  <2>1. /\ hpc[h] # "idle" /\ hpc' = [hpc EXCEPT ![h] = "write tarball"]
        /\ UNCHANGED <<index, upload, loaded>>
    BY <1>5 DEF OpenTarball
  <2> QED BY <1>1, <1>4, <2>1
<1>6. ASSUME NEW h \in Handlers, WriteTarball(h) PROVE LiveInv'
  <2>1. /\ hpc[h] # "idle" /\ hpc' = [hpc EXCEPT ![h] = "open index"]
        /\ UNCHANGED <<index, upload, loaded>>
    BY <1>6 DEF WriteTarball
  <2> QED BY <1>1, <1>4, <2>1
<1>7. ASSUME NEW h \in Handlers, OpenIndex(h) PROVE LiveInv'
  <2>1. /\ hpc[h] # "idle" /\ hpc' = [hpc EXCEPT ![h] = "write index"]
        /\ index' = {}
        /\ UNCHANGED <<upload, loaded>>
    BY <1>7 DEF OpenIndex
  <2> QED BY <1>2, <1>4, <2>1
<1>8. ASSUME NEW h \in Handlers, WriteIndex(h) PROVE LiveInv'
  <2>1. /\ hpc[h] # "idle" /\ hpc' = [hpc EXCEPT ![h] = "answer"]
        /\ index' = {} \/ index' = Appended(h)
        /\ UNCHANGED <<upload, loaded>>
    BY <1>8 DEF WriteIndex
  <2>2. OneLive(Appended(h))
    BY <1>1, <2>1, AppendedOneLive, Zenon
  <2> QED BY <1>2, <1>4, <2>1, <2>2
<1>9. ASSUME NEW h \in Handlers, Answer(h) \/ Die(h) PROVE LiveInv'
  <2>1. /\ hpc' = [hpc EXCEPT ![h] = "idle"]
        /\ upload' = [upload EXCEPT ![h] = None]
        /\ loaded' = [loaded EXCEPT ![h] = {}]
        /\ index' = index
    BY <1>9 DEF Answer, Die, Ended
  <2>2. /\ hpc'[h] = "idle" /\ loaded'[h] = {}
        /\ \A g \in Handlers \ {h} : /\ hpc'[g] = hpc[g]
                                      /\ upload'[g] = upload[g]
                                      /\ loaded'[g] = loaded[g]
    BY <2>1 DEF Shape
  <2>3. OneLive(index')
    BY <1>1, <2>1
  <2>4. ASSUME NEW g \in Handlers
        PROVE  /\ OneLive(loaded'[g])
               /\ hpc'[g] # "idle" => ~Taken(upload'[g].version, loaded'[g])
    <3>1. CASE g = h
      BY <1>2, <2>2, <3>1
    <3>2. CASE g # h
      <4>1. hpc'[g] = hpc[g] /\ upload'[g] = upload[g] /\ loaded'[g] = loaded[g]
        BY <2>2, <3>2
      <4> QED BY <1>1, <4>1
    <3> QED BY <3>1, <3>2
  <2> QED BY <2>3, <2>4, Zenon DEF LiveInv, OneLive, Taken
<1>10. ASSUME NEW v \in Versions, Yank(v) PROVE LiveInv'
  <2>1. index' = {Flagged(e, v) : e \in index} /\ UNCHANGED <<hpc, upload, loaded>>
    BY <1>10, Zenon DEF Yank
  <2>2. \A d \in index' : ~d.yanked => d \in index
    <3> SUFFICES ASSUME NEW d \in index', ~d.yanked PROVE d \in index
      OBVIOUS
    <3>1. PICK e \in index : d = Flagged(e, v)
      BY <2>1, Zenon
    <3>2. e \in [version : Versions, sha : Contents, yanked : BOOLEAN]
      BY DEF Shape, Entry
    <3>3. [e EXCEPT !.yanked = TRUE].yanked = TRUE
      BY <3>2
    <3>4. e.version # v
      BY <3>1, <3>3, Zenon DEF Flagged
    <3> QED BY <3>1, <3>4 DEF Flagged
  <2> QED BY <1>1, <2>1, <2>2, Zenon DEF LiveInv, OneLive, Taken
<1>11. ASSUME UNCHANGED <<server, records>> PROVE LiveInv'
  <2>1. UNCHANGED <<hpc, upload, loaded, index>>
    BY <1>11 DEF server
  <2> QED BY <1>1, <2>1, Zenon DEF LiveInv, OneLive, Taken
<1> QED
  BY <1>3, <1>5, <1>6, <1>7, <1>8, <1>9, <1>10, <1>11, InstallKeepsServer
  DEF RegistryNext, Handle, registryVars

(* The entry an installer chooses for a version is the only live one.      *)
THEOREM OneLiveEntryHolds == RegistrySpec => []OneLiveEntry
<1>1. RegistryInit => LiveInv
  BY LiveInit
<1>2. TarballInv => Shape
  BY DEF TarballInv
<1>3. LiveInv => OneLiveEntry
  BY Zenon DEF LiveInv, OneLive, OneLiveEntry
<1> QED BY <1>1, <1>2, <1>3, LiveStep, TarballInit, TarballStep, PTL DEF RegistrySpec
-----------------------------------------------------------------------------
LEMMA ClientStep == TarballInv /\ ClientInv /\ [RegistryNext]_registryVars => ClientInv'
<1> SUFFICES ASSUME TarballInv, ClientInv, [RegistryNext]_registryVars PROVE ClientInv'
  OBVIOUS
<1>1. /\ cpc \in [Clients -> {"idle", "drop", "fetch", "open cache",
                             "fill cache", "return"}]
      /\ want \in [Clients -> Upload \cup {None}]
      /\ got \in [Clients -> {"none"} \cup Contents]
      /\ listed \subseteq posted
  BY DEF TarballInv, Shape, UploadsPosted
<1>2. posted \subseteq posted'
  BY InstallKeepsServer
  DEF RegistryNext, Handle, Publish, OpenTarball, WriteTarball, OpenIndex, WriteIndex,
      Answer, Die, Yank, registryVars, records
<1>3. ASSUME NEW k \in Clients, NEW u \in listed, Download(k, u) PROVE ClientInv'
  <2>1. /\ cpc[k] = "idle" /\ want' = [want EXCEPT ![k] = u]
        /\ \/ got' = got
           \/ /\ cpc' = [cpc EXCEPT ![k] = "return"]
              /\ got' = [got EXCEPT ![k] = cache[u.sha]]
              /\ cache[u.sha] = u.sha
    BY <1>3 DEF Download, Verified
  <2>2. PICK s \in {"drop", "fetch", "return"} : cpc' = [cpc EXCEPT ![k] = s]
    BY <1>3 DEF Download
  <2> QED BY <1>1, <1>2, <2>1, <2>2 DEF ClientInv
<1>4. ASSUME NEW k \in Clients, Fetch(k) PROVE ClientInv'
  <2>1. /\ cpc[k] = "fetch" /\ want' = want
        /\ got' = [got EXCEPT ![k] = want[k].sha]
        /\ cpc' = [cpc EXCEPT ![k] = "open cache"]
    BY <1>4 DEF Fetch, Verified
  <2> QED BY <1>1, <1>2, <2>1 DEF ClientInv
<1>5. ASSUME NEW k \in Clients,
             Drop(k) \/ OpenCache(k) \/ FillCache(k) \/ CacheFails(k)
      PROVE  ClientInv'
  <2>1. /\ cpc[k] # "idle" /\ UNCHANGED <<want, got>>
        /\ \/ cpc' = [cpc EXCEPT ![k] = "fetch"]
           \/ cpc' = [cpc EXCEPT ![k] = "fill cache"]
           \/ cpc' = [cpc EXCEPT ![k] = "return"]
    BY <1>1, <1>5 DEF Drop, OpenCache, FillCache, CacheFails
  <2> QED BY <1>1, <1>2, <2>1 DEF ClientInv
<1>6. ASSUME NEW k \in Clients, EndDownload(k) PROVE ClientInv'
  <2>1. /\ cpc' = [cpc EXCEPT ![k] = "idle"]
        /\ want' = [want EXCEPT ![k] = None]
        /\ got' = [got EXCEPT ![k] = "none"]
    BY <1>6 DEF EndDownload
  <2> QED BY <1>1, <1>2, <2>1 DEF ClientInv
<1>7. ASSUME UNCHANGED client PROVE ClientInv'
  <2>1. UNCHANGED <<cpc, want, got>>
    BY <1>7 DEF client
  <2> QED BY <1>2, <2>1 DEF ClientInv
<1>8. ASSUME NEW v \in Versions, Yank(v) PROVE UNCHANGED client
  BY <1>8 DEF Yank
<1> QED
  BY <1>3, <1>4, <1>5, <1>6, <1>7, <1>8, HandlersKeepClients DEF RegistryNext, Install, registryVars

(* No download gives bytes that were not published, whole, as the version  *)
(* it wants.                                                               *)
THEOREM InstallsWhatWasPublishedHolds == RegistrySpec => []InstallsWhatWasPublished
<1>1. RegistryInit => ClientInv
  BY DEF RegistryInit, ClientInv
<1>2. ClientInv => InstallsWhatWasPublished
  BY DEF ClientInv, InstallsWhatWasPublished
<1> QED BY <1>1, <1>2, ClientStep, TarballInit, TarballStep, PTL DEF RegistrySpec
-----------------------------------------------------------------------------
(* Rewriting the tarball of a version without a live entry spoils none.    *)
LEMMA KeptAside ==
  ASSUME NEW entries, NEW v \in Versions, NEW bytes, Kept(entries), Shape,
         entries \subseteq Entry, ~Taken(v, entries),
         tarball' = [tarball EXCEPT ![v] = bytes]
  PROVE  \A e \in entries : ~e.yanked => tarball'[e.version] = e.sha
<1>1. \A e \in entries : ~e.yanked => e.version # v
  BY Zenon DEF Taken
<1>2. \A e \in entries : e.version \in Versions
  BY DEF Entry
<1>3. \A w \in Versions : w # v => tarball'[w] = tarball[w]
  BY DEF Shape
<1> QED BY <1>1, <1>2, <1>3, Zenon DEF Kept

LEMMA CalmStep ==
  ASSUME Shape, LiveInv, Calm, [RegistryNext]_registryVars, ~disturbed'
  PROVE  Calm'
<1>1. ASSUME NEW h \in Handlers, hpc[h] # "idle", NEW g \in Handlers, g # h
      PROVE  hpc[g] = "idle"
  BY <1>1 DEF Calm
<1>2. ASSUME \A h \in Handlers : hpc[h] # "write index"
      PROVE  /\ indexFile \in {"none", "whole"}
             /\ indexFile = "none" => index = {}
             /\ Kept(index)
             /\ LoadIndex = index
  BY <1>2 DEF Calm, LoadIndex
<1>3. \A h \in Handlers : hpc[h] # "idle" => /\ ~Taken(upload[h].version, loaded[h])
                                             /\ upload[h].version \in Versions
                                             /\ upload[h] \in Upload
  <2>1. \A h \in Handlers : hpc[h] # "idle" => ~Taken(upload[h].version, loaded[h])
    BY DEF LiveInv
  <2> QED BY <2>1 DEF Shape, Upload
<1>4. ASSUME NEW h \in Handlers, NEW u \in Upload, Publish(h, u) PROVE Calm'
  <2>1. \A g \in Handlers : hpc[g] = "idle"
    BY <1>4, Zenon DEF Publish
  <2>2. /\ hpc' = [hpc EXCEPT ![h] = "open tarball"]
        /\ loaded' = [loaded EXCEPT ![h] = LoadIndex]
        /\ UNCHANGED <<indexFile, index, tarball, acked, pulled>>
    BY <1>4 DEF Publish
  <2>3. hpc'[h] = "open tarball" /\ loaded'[h] = index
    BY <1>2, <2>1, <2>2 DEF Shape
  <2>4. \A g \in Handlers : g # h => hpc'[g] = "idle"
    BY <2>1, <2>2 DEF Shape
  <2>5. Kept(index)'
    BY <1>2, <2>1, <2>2, Zenon DEF Kept
  <2>6. indexFile \in {"none", "whole"} /\ (indexFile = "none" => index = {})
    BY <1>2, <2>1
  <2> QED BY <2>2, <2>3, <2>4, <2>5, <2>6 DEF Calm, Reading, Saved
<1>5. ASSUME NEW h \in Handlers, OpenTarball(h) PROVE Calm'
  <2>1. /\ hpc[h] = "open tarball"
        /\ hpc' = [hpc EXCEPT ![h] = "write tarball"]
        /\ tarball' = [tarball EXCEPT ![upload[h].version] = "cut"]
        /\ UNCHANGED <<indexFile, index, upload, loaded, acked, pulled>>
    BY <1>5 DEF OpenTarball, records
  <2>2. \A g \in Handlers : g # h => hpc[g] = "idle" /\ hpc'[g] = "idle"
    BY <1>1, <2>1 DEF Shape
  <2>3. /\ hpc'[h] = "write tarball" /\ loaded[h] = index
        /\ tarball'[upload[h].version] = "cut"
    BY <1>3, <2>1 DEF Calm, Reading, Shape
  <2>4. \A g \in Handlers : hpc[g] # "write index"
    BY <2>1, <2>2
  <2>5. \A e \in index : ~e.yanked => tarball'[e.version] = e.sha
    <3>1. Kept(index) /\ index \subseteq Entry /\ ~Taken(upload[h].version, index)
      BY <1>2, <1>3, <2>1, <2>3, <2>4 DEF Shape
    <3> QED BY <1>3, <2>1, <3>1, KeptAside
  <2>6. Kept(index)'
    BY <1>2, <2>1, <2>4, <2>5, Zenon DEF Kept
  <2>7. indexFile \in {"none", "whole"} /\ (indexFile = "none" => index = {})
    BY <1>2, <2>4
  <2> QED BY <2>1, <2>2, <2>3, <2>6, <2>7 DEF Calm, Reading, Saved
<1>6. ASSUME NEW h \in Handlers, WriteTarball(h) PROVE Calm'
  <2>1. /\ hpc[h] = "write tarball"
        /\ hpc' = [hpc EXCEPT ![h] = "open index"]
        /\ UNCHANGED <<indexFile, index, upload, loaded, acked, pulled>>
    BY <1>6 DEF WriteTarball, records
  <2>2. \A g \in Handlers : g # h => hpc[g] = "idle" /\ hpc'[g] = "idle"
    BY <1>1, <2>1 DEF Shape
  <2>3. loaded[h] = index /\ tarball[upload[h].version] = "cut"
    BY <2>1 DEF Calm, Reading
  <2>4. tarball' = [tarball EXCEPT ![upload[h].version] = upload[h].sha]
    BY <1>6, <2>3 DEF WriteTarball
  <2>5. hpc'[h] = "open index" /\ tarball'[upload[h].version] = upload[h].sha
    BY <1>3, <2>1, <2>4 DEF Shape
  <2>6. \A g \in Handlers : hpc[g] # "write index"
    BY <2>1, <2>2
  <2>7. \A e \in index : ~e.yanked => tarball'[e.version] = e.sha
    <3>1. Kept(index) /\ index \subseteq Entry /\ ~Taken(upload[h].version, index)
      BY <1>2, <1>3, <2>1, <2>3, <2>6 DEF Shape
    <3> QED BY <1>3, <2>1, <2>4, <3>1, KeptAside
  <2>8. Kept(index)'
    BY <1>2, <2>1, <2>6, <2>7, Zenon DEF Kept
  <2>9. indexFile \in {"none", "whole"} /\ (indexFile = "none" => index = {})
    BY <1>2, <2>6
  <2> QED BY <2>1, <2>2, <2>3, <2>5, <2>8, <2>9 DEF Calm, Reading, Saved
<1>7. ASSUME NEW h \in Handlers, OpenIndex(h) PROVE Calm'
  <2>1. /\ hpc[h] = "open index"
        /\ hpc' = [hpc EXCEPT ![h] = "write index"]
        /\ indexFile' = "cut"
        /\ UNCHANGED <<tarball, upload, loaded, acked, pulled>>
    BY <1>7 DEF OpenIndex, records
  <2>2. \A g \in Handlers : g # h => hpc[g] = "idle" /\ hpc'[g] = "idle"
    BY <1>1, <2>1 DEF Shape
  <2>3. /\ loaded[h] = index /\ tarball[upload[h].version] = upload[h].sha
        /\ hpc'[h] = "write index"
    BY <2>1 DEF Calm, Reading, Saved, Shape
  <2>4. Kept(index)
    BY <1>2, <2>1, <2>2
  <2>5. Kept(loaded[h])'
    BY <2>1, <2>3, <2>4, Zenon DEF Kept
  <2> QED BY <2>1, <2>2, <2>3, <2>5 DEF Calm, Reading, Saved
<1>8. ASSUME NEW h \in Handlers, WriteIndex(h) PROVE Calm'
  <2>1. /\ hpc[h] = "write index"
        /\ hpc' = [hpc EXCEPT ![h] = "answer"]
        /\ UNCHANGED <<tarball, upload, loaded, acked, pulled>>
    BY <1>8 DEF WriteIndex
  <2>2. \A g \in Handlers : g # h => hpc[g] = "idle" /\ hpc'[g] = "idle"
    BY <1>1, <2>1 DEF Shape
  <2>3. /\ tarball[upload[h].version] = upload[h].sha
        /\ indexFile = "cut" /\ Kept(loaded[h])
        /\ hpc'[h] = "answer"
    BY <2>1 DEF Calm, Saved, Shape
  <2>4. indexFile' = "whole" /\ index' = Appended(h)
    BY <1>8, <2>3 DEF WriteIndex
  <2>5. Appended(h) = loaded[h] \cup {Live(upload[h])}
    BY Zenon DEF Appended, Live
  <2>6. Live(upload[h]).version = upload[h].version
        /\ Live(upload[h]).sha = upload[h].sha
    BY DEF Live
  <2>7. \A u \in acked' : u.version \notin pulled' => Live(u) \in index'
    BY <2>1, <2>3, <2>4, <2>5, Zenon DEF Kept
  <2>8. \A e \in index' : ~e.yanked => tarball'[e.version] = e.sha
    <3> SUFFICES ASSUME NEW e \in index', ~e.yanked PROVE tarball'[e.version] = e.sha
      OBVIOUS
    <3>1. CASE e \in loaded[h]
      BY <2>1, <2>3, <3>1, Zenon DEF Kept
    <3>2. CASE e = Live(upload[h])
      BY <2>1, <2>3, <2>6, <3>2
    <3> QED BY <2>4, <2>5, <3>1, <3>2
  <2>9. Kept(index)'
    BY <2>7, <2>8, Zenon DEF Kept, Live
  <2>10. Live(upload'[h]) \in index'
    BY <2>1, <2>4, <2>5, Zenon
  <2> QED BY <2>1, <2>2, <2>3, <2>4, <2>9, <2>10 DEF Calm, Reading, Saved, Live
<1>9. ASSUME NEW h \in Handlers, hpc[h] \notin {"idle", "write index"},
             hpc' = [hpc EXCEPT ![h] = "idle"],
             UNCHANGED <<indexFile, index, tarball, pulled>>,
             \A u \in acked' : u \in acked \/ Live(u) \in index
      PROVE  Calm'
  <2>1. \A g \in Handlers : hpc'[g] = "idle" /\ hpc[g] # "write index"
    BY <1>1, <1>9 DEF Shape
  <2>2. Kept(index)'
    BY <1>2, <1>9, <2>1, Zenon DEF Kept, Live
  <2>3. indexFile \in {"none", "whole"} /\ (indexFile = "none" => index = {})
    BY <1>2, <2>1
  <2> QED BY <1>9, <2>1, <2>2, <2>3 DEF Calm, Reading, Saved
<1>10. ASSUME NEW h \in Handlers, Answer(h) PROVE Calm'
  <2>1. /\ hpc[h] = "answer" /\ hpc' = [hpc EXCEPT ![h] = "idle"]
        /\ UNCHANGED <<indexFile, index, tarball, pulled>>
        /\ acked' = acked \cup {upload[h]}
    BY <1>10 DEF Answer, Ended
  <2>2. Live(upload[h]) \in index
    BY <2>1 DEF Calm
  <2> QED BY <1>9, <2>1, <2>2
<1>11. ASSUME NEW h \in Handlers, Die(h) PROVE Calm'
  <2>1. /\ hpc[h] # "idle" /\ hpc' = [hpc EXCEPT ![h] = "idle"]
        /\ UNCHANGED <<indexFile, index, tarball, pulled, acked>>
    BY <1>11 DEF Die, Ended
  <2>2. hpc[h] # "write index"
    BY <1>11, Zenon DEF Die
  <2> QED BY <1>9, <2>1, <2>2
<1>12. ASSUME NEW v \in Versions, Yank(v) PROVE Calm'
  <2>1. /\ \A h \in Handlers : hpc[h] = "idle"
        /\ index' = {Flagged(e, v) : e \in index}
        /\ pulled' = pulled \cup {v}
        /\ UNCHANGED <<indexFile, tarball, hpc, acked>>
    BY <1>12, Zenon DEF Yank
  <2>2. ASSUME NEW u \in acked', u.version \notin pulled' PROVE Live(u) \in index'
    <3>1. Live(u) \in index /\ u.version # v
      BY <1>2, <2>1, <2>2, Zenon DEF Kept
    <3>2. Live(u).version # v
      BY <3>1 DEF Live
    <3>3. Flagged(Live(u), v) = Live(u)
      BY <3>2, Zenon DEF Flagged
    <3> QED BY <2>1, <3>1, <3>3, Zenon
  <2>3. ASSUME NEW d \in index', ~d.yanked PROVE tarball'[d.version] = d.sha
    <3>1. PICK e \in index : d = Flagged(e, v)
      BY <2>1, Zenon
    <3>2. [e EXCEPT !.yanked = TRUE].yanked = TRUE
      BY DEF Shape, Entry
    <3>3. e.version # v
      BY <2>3, <3>1, <3>2, Zenon DEF Flagged
    <3>4. d = e
      BY <3>1, <3>3 DEF Flagged
    <3> QED BY <1>2, <2>1, <2>3, <3>4, Zenon DEF Kept
  <2>4. Kept(index)'
    BY <2>2, <2>3, Zenon DEF Kept, Live
  <2>5. /\ indexFile \in {"none", "whole"}
        /\ indexFile = "none" => index = {}
        /\ index = {} => index' = {}
    BY <1>2, <2>1
  <2> QED BY <2>1, <2>4, <2>5 DEF Calm, Reading, Saved
<1>13. ASSUME UNCHANGED <<server, records>> PROVE Calm'
  <2>1. UNCHANGED <<indexFile, index, tarball, hpc, upload, loaded, acked, pulled>>
    BY <1>13 DEF server, records
  <2> QED BY <2>1 DEF Calm, Kept, Live
<1> QED
  BY <1>4, <1>5, <1>6, <1>7, <1>8, <1>10, <1>11, <1>12, <1>13, InstallKeepsServer
  DEF RegistryNext, Handle, registryVars

(* What was disturbed stays so.                                            *)
LEMMA StaysDisturbed ==
  ASSUME [RegistryNext]_registryVars, disturbed
  PROVE  disturbed'
<1>1. ASSUME NEW h \in Handlers, NEW u \in Upload, Publish(h, u) PROVE disturbed'
  BY <1>1, Zenon DEF Publish
<1>2. ASSUME NEW h \in Handlers, Die(h) PROVE disturbed'
  BY <1>2, Zenon DEF Die
<1>3. CASE UNCHANGED disturbed
  BY <1>3, Zenon
<1>4. ASSUME UNCHANGED records PROVE UNCHANGED disturbed
  BY <1>4 DEF records
<1>5. ASSUME NEW h \in Handlers, WriteIndex(h) \/ Answer(h) PROVE UNCHANGED disturbed
  BY <1>5 DEF WriteIndex, Answer
<1>6. ASSUME NEW h \in Handlers, OpenTarball(h) \/ WriteTarball(h) \/ OpenIndex(h)
      PROVE  UNCHANGED records
  BY <1>6 DEF OpenTarball, WriteTarball, OpenIndex
<1>7. ASSUME NEW v \in Versions, Yank(v) PROVE UNCHANGED disturbed
  BY <1>7 DEF Yank
<1>8. ASSUME NEW k \in Clients, Install(k) PROVE UNCHANGED records
  BY <1>8, InstallKeepsServer
<1>9. ASSUME UNCHANGED registryVars PROVE UNCHANGED records
  BY <1>9 DEF registryVars
<1> QED
  BY <1>1, <1>2, <1>3, <1>4, <1>5, <1>6, <1>7, <1>8, <1>9, Zenon DEF RegistryNext, Handle

(* Unless handlers overlapped or one died with the index open, what was    *)
(* acknowledged is listed, and what is listed has its own tarball.         *)
THEOREM PublishedForGoodHolds == RegistrySpec => []PublishedForGood
<1>1. RegistryInit => GoodInv
  <2> SUFFICES ASSUME RegistryInit PROVE Calm
    BY Zenon DEF GoodInv
  <2>1. /\ indexFile = "none" /\ index = {} /\ acked = {}
        /\ \A h \in Handlers : hpc[h] = "idle"
    BY DEF RegistryInit
  <2> QED BY <2>1 DEF Calm, Kept, Reading, Saved
<1>2. Shape /\ LiveInv /\ GoodInv /\ [RegistryNext]_registryVars => GoodInv'
  BY CalmStep, StaysDisturbed, Zenon DEF GoodInv
<1>3. GoodInv => PublishedForGood
  BY Zenon DEF GoodInv, Calm, Kept, Live, PublishedForGood
<1>4. RegistryInit => LiveInv
  BY LiveInit
<1>5. TarballInv => Shape
  BY DEF TarballInv
<1> QED
  BY <1>1, <1>2, <1>3, <1>4, <1>5, LiveStep, TarballInit, TarballStep, PTL DEF RegistrySpec
=============================================================================
