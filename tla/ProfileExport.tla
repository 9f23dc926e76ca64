--------------------------- MODULE ProfileExport ---------------------------
(***************************************************************************)
(* Exporting a profile through the ProfileCache (crates/app-http-server/   *)
(* src/state.rs): the loader behind the nine export endpoints (handlers/   *)
(* profiles/mod.rs load_profile_cache_entry), and the handlers that change *)
(* what it reads and invalidate the cache: refreshes, updates and          *)
(* deletions of sources and profiles.                                      *)
(*                                                                         *)
(* Handlers run on several threads.  Every SQL statement and every lock of *)
(* the cache is one step.  The nodes of a source are a version number.     *)
(***************************************************************************)
EXTENDS Naturals, FiniteSets

CONSTANTS
  Profile, Source,
  Reader,      \* concurrent export requests
  Writer,      \* concurrent management requests
  NoProfile, NoSource,
  NoEntry,     \* "not in the cache"
  Ttl,         \* PROFILE_CACHE_TTL_SECONDS
  MaxVersion   \* the model's bound on writes per source

ASSUME NoProfileAssumption == NoProfile \notin Profile
ASSUME NoSourceAssumption == NoSource \notin Source
ASSUME TtlAssumption == Ttl \in Nat
ASSUME MaxVersionAssumption == MaxVersion \in Nat
ASSUME NoEntryAssumption == NoEntry \notin
  [srcs : SUBSET Source, ver : [Source -> Nat], age : Nat, excused : BOOLEAN]

VARIABLES
  src,      \* source_instances: which rows exist
  ver,      \* node_cache: the version of a source's nodes, 0 for no row
  prof,     \* profiles: absent, live or deleted
  members,  \* profile_sources
  cache,    \* ProfileCache: entry of a profile, its age in seconds
  reader,   \* per export request: where it is and what it has read
  writer    \* per management request: where it is and what it still does

vars == <<src, ver, prof, members, cache, reader, writer>>
dbVars == <<src, ver, prof, members>>

NoNodes == [s \in Source |-> 0]
IdleReader == [at |-> "idle", prof |-> NoProfile, srcs |-> {}, todo |-> {},
               ver |-> NoNodes, excused |-> FALSE]
IdleWriter == [at |-> "idle", prof |-> NoProfile, src |-> NoSource,
               list |-> {}, todo |-> {}]

Init ==
  /\ src = Source
  /\ ver = NoNodes
  /\ prof = [p \in Profile |-> "absent"]
  /\ members = [p \in Profile |-> {}]
  /\ cache = [p \in Profile |-> NoEntry]
  /\ reader = [r \in Reader |-> IdleReader]
  /\ writer = [w \in Writer |-> IdleWriter]

----------------------------------------------------------------------------
(***************************************************************************)
(* list_profile_ids_by_source.                                             *)
(***************************************************************************)
ProfilesOf(s) == {p \in Profile : s \in members[p]}

(***************************************************************************)
(* get_fresh answers with the entry while its age is at most the TTL.      *)
(***************************************************************************)
Fresh(p) == cache[p] # NoEntry /\ cache[p].age <= Ttl

(***************************************************************************)
(* What the cache holds for p is what the database holds.                  *)
(***************************************************************************)
Current(p) ==
  /\ prof[p] = "live"
  /\ cache[p].srcs = members[p]
  /\ \A s \in members[p] : cache[p].ver[s] = ver[s]

(***************************************************************************)
(* An entry that may be stale for a reason the code accepts is marked (a   *)
(* history variable): see StaleIsExplained below for the reasons.          *)
(***************************************************************************)
ExcuseEntries(P) ==
  [p \in Profile |-> IF p \in P /\ cache[p] # NoEntry
                     THEN [cache[p] EXCEPT !.excused = TRUE] ELSE cache[p]]

ExcuseLoads(R) ==
  [r \in Reader |-> IF r \in R THEN [reader[r] EXCEPT !.excused = TRUE]
                    ELSE reader[r]]

Loading(r) == reader[r].at \in {"members", "sources"}

(***************************************************************************)
(* invalidate and invalidate_many: the entries go.  A load of one of these *)
(* profiles that has begun to read is not stopped.                         *)
(***************************************************************************)
Invalidate(P) ==
  /\ cache' = [p \in Profile |-> IF p \in P THEN NoEntry ELSE cache[p]]
  /\ reader' = ExcuseLoads({r \in Reader : Loading(r)
                                           /\ reader[r].prof \in P})

----------------------------------------------------------------------------
(* Export requests.                                                        *)

(***************************************************************************)
(* admin_auth_middleware lets a request through whose token is valid; the  *)
(* tokens of a deleted profile are gone.                                   *)
(***************************************************************************)
Authorize(r, p) ==
  /\ reader[r].at = "idle"
  /\ prof[p] = "live"
  /\ reader' = [reader EXCEPT ![r].at = "lookup", ![r].prof = p]
  /\ UNCHANGED <<cache, writer>> /\ UNCHANGED dbVars

\* Mutant of Lookup: the entry's time starts again before it is looked at.
LookupSliding(r) ==
  /\ reader[r].at = "lookup"
  /\ LET p == reader[r].prof
     IN IF cache[p] # NoEntry
        THEN /\ reader' = [reader EXCEPT ![r] = IdleReader]
             /\ cache' = [cache EXCEPT ![p].age = 0]
        ELSE /\ reader' = [reader EXCEPT ![r].at = "profile"]
             /\ cache' = [cache EXCEPT ![p] = NoEntry]
  /\ UNCHANGED writer /\ UNCHANGED dbVars

(***************************************************************************)
(* get_fresh: a hit is the response; an expired entry is removed.          *)
(***************************************************************************)
Lookup(r) ==
  /\ reader[r].at = "lookup"
  /\ LET p == reader[r].prof
     IN \/ /\ Fresh(p)
           /\ reader' = [reader EXCEPT ![r] = IdleReader]
           /\ UNCHANGED cache
        \/ /\ ~ Fresh(p)
           /\ reader' = [reader EXCEPT ![r].at = "profile"]
           /\ cache' = [cache EXCEPT ![p] = NoEntry]
  /\ UNCHANGED writer /\ UNCHANGED dbVars

(***************************************************************************)
(* The profile's row, or a 404 when it was deleted after the token check.  *)
(***************************************************************************)
ReadProfile(r) ==
  /\ reader[r].at = "profile"
  /\ \/ /\ prof[reader[r].prof] = "live"
        /\ reader' = [reader EXCEPT ![r].at = "members"]
     \/ /\ prof[reader[r].prof] # "live"
        /\ reader' = [reader EXCEPT ![r] = IdleReader]
  /\ UNCHANGED <<cache, writer>> /\ UNCHANGED dbVars

(***************************************************************************)
(* list_profile_source_ids.                                                *)
(***************************************************************************)
ReadMembers(r) ==
  /\ reader[r].at = "members"
  /\ LET S == members[reader[r].prof]
     IN reader' = [reader EXCEPT ![r].at = "sources", ![r].srcs = S,
                                 ![r].todo = S]
  /\ UNCHANGED <<cache, writer>> /\ UNCHANGED dbVars

(***************************************************************************)
(* get_by_source of one source after the other (their order is left open); *)
(* a source without a row has no nodes.                                    *)
(***************************************************************************)
ReadSource(r) ==
  /\ reader[r].at = "sources"
  /\ \E s \in reader[r].todo :
       reader' = [reader EXCEPT ![r].todo = @ \ {s}, ![r].ver[s] = ver[s]]
  /\ UNCHANGED <<cache, writer>> /\ UNCHANGED dbVars

(***************************************************************************)
(* The entry is built, put into the cache whatever is there, and sent.     *)
(***************************************************************************)
Insert(r) ==
  /\ reader[r].at = "sources"
  /\ reader[r].todo = {}
  /\ cache' = [cache EXCEPT ![reader[r].prof] =
                 [srcs |-> reader[r].srcs, ver |-> reader[r].ver, age |-> 0,
                  excused |-> reader[r].excused]]
  /\ reader' = [reader EXCEPT ![r] = IdleReader]
  /\ UNCHANGED writer /\ UNCHANGED dbVars

----------------------------------------------------------------------------
(* Management requests.                                                    *)

Finish(w) == writer' = [writer EXCEPT ![w] = IdleWriter]

CreateProfile(p, S) ==
  /\ prof[p] = "absent"
  /\ S \subseteq src
  /\ prof' = [prof EXCEPT ![p] = "live"]
  /\ members' = [members EXCEPT ![p] = S]
  /\ UNCHANGED <<src, ver, cache, reader, writer>>

(***************************************************************************)
(* update_profile_handler: the transaction; the invalidation follows.      *)
(***************************************************************************)
UpdateProfile(w, p, S) ==
  /\ writer[w].at = "idle"
  /\ prof[p] = "live"
  /\ S \subseteq src
  /\ members' = [members EXCEPT ![p] = S]
  /\ writer' = [writer EXCEPT ![w].at = "drop", ![w].list = {p}]
  /\ UNCHANGED <<src, ver, prof, cache, reader>>

DeleteProfile(w, p) ==
  /\ writer[w].at = "idle"
  /\ prof[p] = "live"
  /\ prof' = [prof EXCEPT ![p] = "deleted"]
  /\ members' = [members EXCEPT ![p] = {}]
  /\ writer' = [writer EXCEPT ![w].at = "drop", ![w].list = {p}]
  /\ UNCHANGED <<src, ver, cache, reader>>

(***************************************************************************)
(* The last write of a "manual" refresh to what an export reads (and the   *)
(* write of update_source, whose name is the nodes' alias).  The handler   *)
(* goes on to list the profiles.                                           *)
(***************************************************************************)
RefreshWrite(w, s) ==
  /\ writer[w].at = "idle"
  /\ s \in src /\ ver[s] < MaxVersion
  /\ ver' = [ver EXCEPT ![s] = @ + 1]
  /\ writer' = [writer EXCEPT ![w].at = "list", ![w].src = s]
  /\ UNCHANGED <<src, prof, members, cache, reader>>

\* Mutant of ListProfiles: only one of the source's profiles is listed.
ListOneProfile(w) ==
  /\ writer[w].at = "list"
  /\ writer' = [writer EXCEPT ![w].at = "drop",
                   ![w].list = IF ProfilesOf(writer[w].src) = {} THEN {}
                               ELSE {CHOOSE p \in ProfilesOf(writer[w].src) : TRUE}]
  /\ UNCHANGED <<cache, reader>> /\ UNCHANGED dbVars

ListProfiles(w) ==
  /\ writer[w].at = "list"
  /\ writer' = [writer EXCEPT ![w].at = "drop",
                              ![w].list = ProfilesOf(writer[w].src)]
  /\ UNCHANGED <<cache, reader>> /\ UNCHANGED dbVars

(***************************************************************************)
(* The listing fails, and the handler returns the error: the entries that  *)
(* hold what was overwritten stay, and so does what a load has read.       *)
(***************************************************************************)
ListFails(w) ==
  /\ writer[w].at = "list"
  /\ LET P == ProfilesOf(writer[w].src)
     IN /\ cache' = ExcuseEntries({p \in P : cache[p] # NoEntry
                                             /\ ~ Current(p)})
        /\ reader' = ExcuseLoads({r \in Reader : Loading(r)
                                                 /\ reader[r].prof \in P})
  /\ Finish(w)
  /\ UNCHANGED dbVars

DropEntries(w) ==
  /\ writer[w].at = "drop"
  /\ Invalidate(writer[w].list)
  /\ Finish(w)
  /\ UNCHANGED dbVars

(***************************************************************************)
(* delete_source_handler: the profiles are listed before the row goes.     *)
(***************************************************************************)
ListForDelete(w, s) ==
  /\ writer[w].at = "idle"
  /\ s \in src
  /\ writer' = [writer EXCEPT ![w].at = "delete", ![w].src = s,
                              ![w].list = ProfilesOf(s)]
  /\ UNCHANGED <<cache, reader>> /\ UNCHANGED dbVars

DeleteSource(w) ==
  /\ writer[w].at = "delete"
  /\ LET s == writer[w].src
     IN \/ /\ s \in src
           /\ src' = src \ {s}
           /\ ver' = [ver EXCEPT ![s] = 0]
           /\ members' = [p \in Profile |-> members[p] \ {s}]
           /\ writer' = [writer EXCEPT ![w].at = "drop"]
           /\ cache' = ExcuseEntries(ProfilesOf(s) \ writer[w].list)
           /\ reader' = ExcuseLoads({r \in Reader :
                          /\ Loading(r)
                          /\ reader[r].prof \in ProfilesOf(s) \ writer[w].list})
        \/ /\ s \notin src
           /\ Finish(w)
           /\ UNCHANGED <<src, ver, members, cache, reader>>
  /\ UNCHANGED prof

(***************************************************************************)
(* A write that no invalidation follows.                                   *)
(***************************************************************************)
QuietWrite(s) ==
  /\ s \in src /\ ver[s] < MaxVersion
  /\ ver' = [ver EXCEPT ![s] = @ + 1]
  /\ cache' = ExcuseEntries({p \in Profile : cache[p] # NoEntry
                                             /\ s \in cache[p].srcs})
  /\ reader' = ExcuseLoads({r \in Reader : s \in reader[r].srcs
                                           /\ s \notin reader[r].todo})
  /\ UNCHANGED <<src, prof, members>>

(***************************************************************************)
(* A "manual" refresh whose client has gone: the spawned task writes, the  *)
(* handler that would invalidate was dropped.  A refresh that fails after  *)
(* its write ends the same way: the handler invalidates only on success.   *)
(***************************************************************************)
AbandonedRefresh(s) == QuietWrite(s) /\ UNCHANGED writer

(***************************************************************************)
(* refresh_profile_handler: sources listed, own entry invalidated, then    *)
(* every source refreshed; the first error ends it, and so does its client *)
(* going away.                                                             *)
(***************************************************************************)
StartProfileRefresh(w, p) ==
  /\ writer[w].at = "idle"
  /\ prof[p] = "live"
  /\ writer' = [writer EXCEPT ![w].at = "open", ![w].prof = p,
                              ![w].todo = members[p]]
  /\ UNCHANGED <<cache, reader>> /\ UNCHANGED dbVars

OpenProfileRefresh(w) ==
  /\ writer[w].at = "open"
  /\ Invalidate({writer[w].prof})
  /\ writer' = [writer EXCEPT ![w].at = "walk"]
  /\ UNCHANGED dbVars

WalkProfileRefresh(w) ==
  /\ writer[w].at = "walk"
  /\ \/ \E s \in writer[w].todo :
          /\ QuietWrite(s)
          /\ writer' = [writer EXCEPT ![w].todo = @ \ {s}]
     \/ Finish(w) /\ UNCHANGED <<cache, reader>> /\ UNCHANGED dbVars

----------------------------------------------------------------------------
Tick ==
  /\ \E p \in Profile : Fresh(p)
  /\ cache' = [p \in Profile |-> IF Fresh(p)
                                 THEN [cache[p] EXCEPT !.age = @ + 1]
                                 ELSE cache[p]]
  /\ UNCHANGED <<reader, writer>> /\ UNCHANGED dbVars

ReaderStep(r) ==
  \/ Lookup(r) \/ ReadProfile(r) \/ ReadMembers(r) \/ ReadSource(r)
  \/ Insert(r)

WriterStep(w) ==
  \/ ListProfiles(w) \/ ListFails(w) \/ DropEntries(w) \/ DeleteSource(w)
  \/ OpenProfileRefresh(w) \/ WalkProfileRefresh(w)

Next ==
  \/ \E r \in Reader, p \in Profile : Authorize(r, p)
  \/ \E r \in Reader : ReaderStep(r)
  \/ \E p \in Profile, S \in SUBSET Source : CreateProfile(p, S)
  \/ \E w \in Writer, p \in Profile, S \in SUBSET Source :
       UpdateProfile(w, p, S)
  \/ \E w \in Writer, p \in Profile :
       DeleteProfile(w, p) \/ StartProfileRefresh(w, p)
  \/ \E w \in Writer, s \in Source : RefreshWrite(w, s) \/ ListForDelete(w, s)
  \/ \E w \in Writer : WriterStep(w)
  \/ \E s \in Source : AbandonedRefresh(s)
  \/ Tick

Spec == Init /\ [][Next]_vars

(***************************************************************************)
(* Fairness: a handler that has started is run on, and time passes.        *)
(***************************************************************************)
FairSpec ==
  /\ Spec
  /\ \A r \in Reader : WF_vars(ReaderStep(r))
  /\ \A w \in Writer : WF_vars(WriterStep(w))
  /\ WF_vars(Tick)

----------------------------------------------------------------------------
ReaderAt == {"idle", "lookup", "profile", "members", "sources"}
WriterAt == {"idle", "list", "drop", "delete", "open", "walk"}
Entry == [srcs : SUBSET Source, ver : [Source -> Nat], age : Nat,
          excused : BOOLEAN]

Load == [at : ReaderAt, prof : Profile \cup {NoProfile}, srcs : SUBSET Source,
         todo : SUBSET Source, ver : [Source -> Nat], excused : BOOLEAN]
Change == [at : WriterAt, prof : Profile \cup {NoProfile},
           src : Source \cup {NoSource}, list : SUBSET Profile,
           todo : SUBSET Source]

TypeOK ==
  /\ src \subseteq Source
  /\ ver \in [Source -> Nat]
  /\ prof \in [Profile -> {"absent", "live", "deleted"}]
  /\ members \in [Profile -> SUBSET Source]
  /\ cache \in [Profile -> Entry \cup {NoEntry}]
  /\ reader \in [Reader -> Load]
  /\ writer \in [Writer -> Change]

(***************************************************************************)
(* A handler is between its write and the invalidation of p.               *)
(***************************************************************************)
Pending(p) ==
  \E w \in Writer :
    \/ writer[w].at = "drop" /\ p \in writer[w].list
    \/ writer[w].at = "list" /\ p \in ProfilesOf(writer[w].src)

(***************************************************************************)
(* Invalidation works (state.rs, handlers/sources.rs, handlers/profiles/   *)
(* write.rs): an entry that differs from the database is about to be       *)
(* invalidated, or one of four things happened, which mark it: its load    *)
(* overlapped an invalidation; a write came that nobody announces (a       *)
(* profile refresh, or a refresh that failed late or whose client left);   *)
(* its profile took up a source while the source's deletion was under way; *)
(* after a write the profiles to invalidate could not be listed.           *)
(***************************************************************************)
StaleIsExplained ==
  \A p \in Profile :
    cache[p] # NoEntry /\ ~ Current(p) => cache[p].excused \/ Pending(p)

(***************************************************************************)
(* Stale exports end (state.rs get_fresh): once no handler that writes is  *)
(* at work any more, every entry that can still be served is current, from *)
(* some time on.  Only the TTL can achieve it for the windows above.       *)
(***************************************************************************)
EventuallyFresh ==
  <>[](\A w \in Writer : writer[w].at = "idle") =>
    <>[](\A p \in Profile : Fresh(p) /\ prof[p] = "live" => Current(p))
============================================================================
