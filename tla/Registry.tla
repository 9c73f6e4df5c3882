------------------------------ MODULE Registry ------------------------------
(***************************************************************************)
(* The package registry (tools/registry/server.py) for one package, and    *)
(* the downloads of its clients (class Registry of install_cli.py).        *)
(*                                                                         *)
(* The server keeps plain files: one index per package and one tarball per *)
(* version.  Each POST runs on a thread of its own and no lock is taken.   *)
(* A file is opened, which empties it, and then written: what a death      *)
(* between the two leaves is cut.  A handler that writes over what another *)
(* one wrote since it opened the file leaves its own bytes, or a mix if    *)
(* they are the shorter.  Clients share one cache, keyed by digest.        *)
(*                                                                         *)
(* A tarball is its content, and the digest of a content is that content.  *)
(* A client downloads any entry that was ever listed: the index named it   *)
(* just now, or a lock file has pinned it since.                           *)
(***************************************************************************)
EXTENDS Naturals

CONSTANTS Handlers,   \* the threads of the server
          Clients,    \* the installs that download
          Versions,   \* the versions of the package
          Contents,   \* what a tarball can hold
          MaxPosts,   \* bound on the uploads that are taken on
          None        \* no upload, no entry

Upload == [version : Versions, sha : Contents]
Entry == [version : Versions, sha : Contents, yanked : BOOLEAN]
NoBytes == {"none", "cut", "mixed"}

ASSUME RegistryAssumption == /\ MaxPosts \in Nat
                             /\ Contents \cap NoBytes = {}
                             /\ None \notin Upload

VARIABLES indexFile,  \* "none", "whole" or broken
          index,      \* its entries, none when it is not whole
          tarball,    \* the tarball of each version
          hpc,        \* of each handler: what it does next
          upload,     \* of each handler: what it publishes
          loaded,     \* of each handler: the entries it has read
          cache,      \* the clients' cache: a file for each digest
          cpc,        \* of each client: what it does next
          want,       \* the entry each client downloads
          got,        \* of each client: the bytes it has
          posts,      \* history: the uploads taken on
          posted, acked,  \* history: uploads received, and answered with 200
          listed,     \* history: the uploads the index ever named
          pulled,     \* history: the versions an operator has yanked
          disturbed   \* history: handlers overlapped, or one died with the
                      \* index open

server == <<indexFile, index, tarball, hpc, upload, loaded>>
client == <<cache, cpc, want, got>>
records == <<posts, posted, acked, listed, pulled, disturbed>>
registryVars == <<server, client, records>>

RegistryInit == /\ indexFile = "none"
                /\ index = {}
                /\ tarball = [v \in Versions |-> "none"]
                /\ hpc = [h \in Handlers |-> "idle"]
                /\ upload = [h \in Handlers |-> None]
                /\ loaded = [h \in Handlers |-> {}]
                /\ cache = [c \in Contents |-> "none"]
                /\ cpc = [k \in Clients |-> "idle"]
                /\ want = [k \in Clients |-> None]
                /\ got = [k \in Clients |-> "none"]
                /\ posts = 0
                /\ posted = {}
                /\ acked = {}
                /\ listed = {}
                /\ pulled = {}
                /\ disturbed = FALSE
-----------------------------------------------------------------------------
(* _load_index: a missing index and a broken one are an empty one. *)
LoadIndex == IF indexFile = "whole" THEN index ELSE {}

TakenYanked(v, entries) ==  \* mutation: only yanked versions are taken
  \E e \in entries : e.version = v /\ e.yanked

(* The check behind the answer 409. *)
Taken(v, entries) == \E e \in entries : e.version = v /\ ~e.yanked

PublishEntryFirst(h, u) ==  \* mutation: the entry is saved first
  /\ hpc[h] = "idle"
  /\ posts < MaxPosts
  /\ ~Taken(u.version, LoadIndex)
  /\ hpc' = [hpc EXCEPT ![h] = "open index"]
  /\ upload' = [upload EXCEPT ![h] = u]
  /\ loaded' = [loaded EXCEPT ![h] = LoadIndex]
  /\ posts' = posts + 1
  /\ posted' = posted \cup {u}
  /\ disturbed' = (disturbed \/ \E g \in Handlers : hpc[g] # "idle")
  /\ UNCHANGED <<indexFile, index, tarball, client, acked, listed, pulled>>

(* do_POST up to the check: the index is read here and not again.  A       *)
(* refused upload leaves no trace.  Tarball first, then entry: the order   *)
(* of the code, not that of the docstring.                                 *)
Publish(h, u) ==
  /\ hpc[h] = "idle"
  /\ posts < MaxPosts
  /\ ~Taken(u.version, LoadIndex)
  /\ hpc' = [hpc EXCEPT ![h] = "open tarball"]
  /\ upload' = [upload EXCEPT ![h] = u]
  /\ loaded' = [loaded EXCEPT ![h] = LoadIndex]
  /\ posts' = posts + 1
  /\ posted' = posted \cup {u}
  /\ disturbed' = (disturbed \/ \E g \in Handlers : hpc[g] # "idle")
  /\ UNCHANGED <<indexFile, index, tarball, client, acked, listed, pulled>>

OpenTarball(h) ==
  /\ hpc[h] = "open tarball"
  /\ hpc' = [hpc EXCEPT ![h] = "write tarball"]
  /\ tarball' = [tarball EXCEPT ![upload[h].version] = "cut"]
  /\ UNCHANGED <<indexFile, index, upload, loaded, client, records>>

WriteTarball(h) ==
  LET v == upload[h].version
      c == upload[h].sha IN
  /\ hpc[h] = "write tarball"
  /\ hpc' = [hpc EXCEPT ![h] = "open index"]
  /\ \E bytes \in IF tarball[v] \in {"cut", c} THEN {c} ELSE {c, "mixed"} :
       tarball' = [tarball EXCEPT ![v] = bytes]
  /\ UNCHANGED <<indexFile, index, upload, loaded, client, records>>

(* _save_index opens the file ... *)
OpenIndex(h) ==
  /\ hpc[h] = "open index"
  /\ hpc' = [hpc EXCEPT ![h] = "write index"]
  /\ indexFile' = "cut"
  /\ index' = {}
  /\ UNCHANGED <<tarball, upload, loaded, client, records>>

AppendedAlone(h) ==    \* mutation: the entries read before are dropped
  {[version |-> upload[h].version, sha |-> upload[h].sha, yanked |-> FALSE]}

Appended(h) ==
  loaded[h] \cup {[version |-> upload[h].version, sha |-> upload[h].sha,
                   yanked |-> FALSE]}

(* ... and writes what was read before with the new entry at its end.      *)
WriteIndex(h) ==
  /\ hpc[h] = "write index"
  /\ hpc' = [hpc EXCEPT ![h] = "answer"]
  /\ \/ /\ indexFile' = "whole"
        /\ index' = Appended(h)
        /\ listed' = listed \cup {[version |-> e.version, sha |-> e.sha] :
                                    e \in Appended(h)}
     \/ /\ indexFile # "cut"
        /\ indexFile' = "mixed"
        /\ index' = {}
        /\ UNCHANGED listed
  /\ UNCHANGED <<tarball, upload, loaded, client, posts, posted, acked, pulled,
                 disturbed>>

Ended(h) == /\ hpc' = [hpc EXCEPT ![h] = "idle"]
            /\ upload' = [upload EXCEPT ![h] = None]
            /\ loaded' = [loaded EXCEPT ![h] = {}]

Answer(h) == /\ hpc[h] = "answer"
             /\ Ended(h)
             /\ acked' = acked \cup {upload[h]}
             /\ UNCHANGED <<indexFile, index, tarball, client, posts, posted,
                            listed, pulled, disturbed>>

(* A write fails and ends the handler; all of them end when the process    *)
(* does, and another may serve the same files.                             *)
Die(h) == /\ hpc[h] # "idle"
          /\ Ended(h)
          /\ disturbed' = (disturbed \/ hpc[h] = "write index")
          /\ UNCHANGED <<indexFile, index, tarball, client, posts, posted, acked,
                         listed, pulled>>

(* An operator flags a version in the index, no handler being at work. *)
Flagged(e, v) == IF e.version = v THEN [e EXCEPT !.yanked = TRUE] ELSE e

Yank(v) ==
  /\ \A h \in Handlers : hpc[h] = "idle"
  /\ Taken(v, index)
  /\ index' = {Flagged(e, v) : e \in index}
  /\ pulled' = pulled \cup {v}
  /\ UNCHANGED <<indexFile, tarball, hpc, upload, loaded, client, posts, posted,
                 acked, listed, disturbed>>
-----------------------------------------------------------------------------
AnyBytes(bytes, sha) ==  \* mutation: an empty file is refused, nothing else
  bytes \notin {"none", "cut"}

Verified(bytes, sha) == bytes = sha

(* Registry.download looks into the cache first.  Offline it goes on from  *)
(* there by EndDownload, and fetches nothing.                              *)
Download(k, u) ==
  /\ cpc[k] = "idle"
  /\ want' = [want EXCEPT ![k] = u]
  /\ \/ /\ cache[u.sha] = "none"
        /\ cpc' = [cpc EXCEPT ![k] = "fetch"]
        /\ UNCHANGED got
     \/ /\ cache[u.sha] # "none"
        /\ ~Verified(cache[u.sha], u.sha)
        /\ cpc' = [cpc EXCEPT ![k] = "drop"]
        /\ UNCHANGED got
     \/ /\ cache[u.sha] # "none"
        /\ Verified(cache[u.sha], u.sha)
        /\ got' = [got EXCEPT ![k] = cache[u.sha]]
        /\ cpc' = [cpc EXCEPT ![k] = "return"]
  /\ UNCHANGED <<server, cache, records>>

(* A bad file is removed from the cache. *)
Drop(k) ==
  /\ cpc[k] = "drop"
  /\ cache' = [cache EXCEPT ![want[k].sha] = "none"]
  /\ cpc' = [cpc EXCEPT ![k] = "fetch"]
  /\ UNCHANGED <<server, want, got, records>>

(* The tarball arrives; a wrong digest fails the download. *)
Fetch(k) ==
  LET bytes == tarball[want[k].version] IN
  /\ cpc[k] = "fetch"
  /\ bytes # "none"
  /\ Verified(bytes, want[k].sha)
  /\ got' = [got EXCEPT ![k] = bytes]
  /\ cpc' = [cpc EXCEPT ![k] = "open cache"]
  /\ UNCHANGED <<server, cache, want, records>>

OpenCache(k) ==
  /\ cpc[k] = "open cache"
  /\ cache' = [cache EXCEPT ![want[k].sha] = "cut"]
  /\ cpc' = [cpc EXCEPT ![k] = "fill cache"]
  /\ UNCHANGED <<server, want, got, records>>

FillCache(k) ==
  /\ cpc[k] = "fill cache"
  /\ cache' = [cache EXCEPT ![want[k].sha] = got[k]]
  /\ cpc' = [cpc EXCEPT ![k] = "return"]
  /\ UNCHANGED <<server, want, got, records>>

(* A failure to clean or to fill the cache is ignored. *)
CacheFails(k) ==
  /\ cpc[k] \in {"drop", "open cache", "fill cache"}
  /\ cpc' = [cpc EXCEPT ![k] = IF @ = "drop" THEN "fetch" ELSE "return"]
  /\ UNCHANGED <<server, cache, want, got, records>>

(* The download returns, fails at any step, or its process dies. *)
EndDownload(k) ==
  /\ cpc[k] # "idle"
  /\ cpc' = [cpc EXCEPT ![k] = "idle"]
  /\ want' = [want EXCEPT ![k] = None]
  /\ got' = [got EXCEPT ![k] = "none"]
  /\ UNCHANGED <<server, cache, records>>
-----------------------------------------------------------------------------
Handle(h) == \/ \E u \in Upload : Publish(h, u)
             \/ OpenTarball(h)
             \/ WriteTarball(h)
             \/ OpenIndex(h)
             \/ WriteIndex(h)
             \/ Answer(h)
             \/ Die(h)

Install(k) == \/ \E u \in listed : Download(k, u)
              \/ Drop(k)
              \/ Fetch(k)
              \/ OpenCache(k)
              \/ FillCache(k)
              \/ CacheFails(k)
              \/ EndDownload(k)

RegistryNext == \/ \E h \in Handlers : Handle(h)
                \/ \E v \in Versions : Yank(v)
                \/ \E k \in Clients : Install(k)
        
RegistrySpec == RegistryInit /\ [][RegistryNext]_registryVars
-----------------------------------------------------------------------------
(* However handlers overlap and die, a version that is not yanked has one  *)
(* entry, so that the choice of an installer names one content.            *)
OneLiveEntry ==
  \A d, e \in index : ~d.yanked /\ ~e.yanked /\ d.version = e.version => d = e

(* A listed version never answers 404, whatever overlaps or dies.  This    *)
(* rests on do_POST saving the tarball (line 287) before the entry (299);  *)
(* the docstring of the server (lines 41-45) numbers the two the other way *)
(* round, and in that order a death in between would break it: that is     *)
(* PublishEntryFirst.                                                      *)
EntryHasTarball == \A u \in listed : tarball[u.version] # "none"

(* What a download gives is what a publisher of that version sent, whole:  *)
(* neither a tarball another handler is rewriting, nor a cache file cut    *)
(* short by another client gets through.                                   *)
InstallsWhatWasPublished ==
  \A k \in Clients :
    got[k] # "none" => /\ got[k] = want[k].sha
                       /\ want[k] \in posted

(* Versions are immutable, and stay published, as long as no two handlers  *)
(* overlapped and none died with the index open: between publishes, each   *)
(* acknowledged upload of a version that was never yanked is listed, and   *)
(* each live entry has its own tarball.  Deaths at any other step, and the *)
(* retries that follow them, are covered.                                  *)
PublishedForGood ==
  ~disturbed /\ (\A h \in Handlers : hpc[h] # "write index") =>
    /\ \A u \in acked :
         u.version \notin pulled =>
           [version |-> u.version, sha |-> u.sha, yanked |-> FALSE] \in index
    /\ \A e \in index : ~e.yanked => tarball[e.version] = e.sha

(* package_manager.md: versions are immutable.  No two contents are ever   *)
(* acknowledged for a version that was not yanked.                         *)
VersionsImmutable ==
  \A u, w \in acked : u.version = w.version /\ u.version \notin pulled => u = w
=============================================================================
