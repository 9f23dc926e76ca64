------------------------ MODULE ProfileExportProofs ------------------------
(***************************************************************************)
(* Theorems about ProfileExport, for any sets of profiles, sources,        *)
(* readers and writers, any TTL and any number of writes.                  *)
(***************************************************************************)
EXTENDS ProfileExport, TLAPS

(***************************************************************************)
(* Who a handler works for, which TypeOK leaves open; and a profile that   *)
(* does not exist has no sources.                                          *)
(***************************************************************************)
HandlerInv ==
  /\ \A r \in Reader : reader[r].at # "idle" => reader[r].prof \in Profile
  /\ \A w \in Writer :
       /\ writer[w].at \in {"list", "delete"} => writer[w].src \in Source
       /\ writer[w].at = "open" => writer[w].prof \in Profile
  /\ \A p \in Profile : prof[p] = "absent" => members[p] = {}

(***************************************************************************)
(* What the handlers do to their own records and to an entry keeps the     *)
(* types of these.                                                         *)
(***************************************************************************)
LEMMA LoadEdits ==
  /\ IdleReader \in Load
  /\ \A l \in Load :
       /\ \A a \in ReaderAt : [l EXCEPT !.at = a] \in Load
       /\ \A a \in ReaderAt, p \in Profile :
            [l EXCEPT !.at = a, !.prof = p] \in Load
       /\ \A a \in ReaderAt, S \in SUBSET Source :
            [l EXCEPT !.at = a, !.srcs = S, !.todo = S] \in Load
       /\ \A S \in SUBSET Source, s \in Source, n \in Nat :
            [l EXCEPT !.todo = S, !.ver[s] = n] \in Load
       /\ [l EXCEPT !.excused = TRUE] \in Load
<1>1. IdleReader \in Load
  BY DEF Load, IdleReader, NoNodes, ReaderAt
<1>2. ASSUME NEW l \in Load
      PROVE  /\ \A a \in ReaderAt : [l EXCEPT !.at = a] \in Load
             /\ \A a \in ReaderAt, p \in Profile :
                  [l EXCEPT !.at = a, !.prof = p] \in Load
             /\ \A a \in ReaderAt, S \in SUBSET Source :
                  [l EXCEPT !.at = a, !.srcs = S, !.todo = S] \in Load
             /\ \A S \in SUBSET Source, s \in Source, n \in Nat :
                  [l EXCEPT !.todo = S, !.ver[s] = n] \in Load
             /\ [l EXCEPT !.excused = TRUE] \in Load
  BY DEF Load
<1> QED
  BY <1>1, <1>2

(***************************************************************************)
(* The same for the handlers that change things.                           *)
(***************************************************************************)
LEMMA ChangeEdits ==
  /\ IdleWriter \in Change
  /\ \A c \in Change :
       /\ \A a \in WriterAt : [c EXCEPT !.at = a] \in Change
       /\ \A a \in WriterAt, P \in SUBSET Profile :
            [c EXCEPT !.at = a, !.list = P] \in Change
       /\ \A a \in WriterAt, s \in Source :
            [c EXCEPT !.at = a, !.src = s] \in Change
       /\ \A a \in WriterAt, s \in Source, P \in SUBSET Profile :
            [c EXCEPT !.at = a, !.src = s, !.list = P] \in Change
       /\ \A a \in WriterAt, p \in Profile, S \in SUBSET Source :
            [c EXCEPT !.at = a, !.prof = p, !.todo = S] \in Change
       /\ \A S \in SUBSET Source : [c EXCEPT !.todo = S] \in Change
<1>1. IdleWriter \in Change
  BY DEF Change, IdleWriter, WriterAt
<1>2. ASSUME NEW c \in Change
      PROVE  /\ \A a \in WriterAt : [c EXCEPT !.at = a] \in Change
             /\ \A a \in WriterAt, P \in SUBSET Profile :
                  [c EXCEPT !.at = a, !.list = P] \in Change
             /\ \A a \in WriterAt, s \in Source :
                  [c EXCEPT !.at = a, !.src = s] \in Change
             /\ \A a \in WriterAt, s \in Source, P \in SUBSET Profile :
                  [c EXCEPT !.at = a, !.src = s, !.list = P] \in Change
             /\ \A a \in WriterAt, p \in Profile, S \in SUBSET Source :
                  [c EXCEPT !.at = a, !.prof = p, !.todo = S] \in Change
             /\ \A S \in SUBSET Source : [c EXCEPT !.todo = S] \in Change
  BY DEF Change
<1> QED
  BY <1>1, <1>2

(***************************************************************************)
(* The entry a load builds, a marked entry and an older one are entries.   *)
(***************************************************************************)
LEMMA EntryEdits ==
  /\ \A l \in Load : [srcs |-> l.srcs, ver |-> l.ver, age |-> 0,
                      excused |-> l.excused] \in Entry
  /\ \A e \in Entry : /\ [e EXCEPT !.excused = TRUE] \in Entry
                      /\ [e EXCEPT !.age = @ + 1] \in Entry
<1>1. \A l \in Load : [srcs |-> l.srcs, ver |-> l.ver, age |-> 0,
                      excused |-> l.excused] \in Entry
  BY DEF Load, Entry
<1>2. \A e \in Entry : [e EXCEPT !.excused = TRUE] \in Entry
  BY DEF Entry
<1>3. \A e \in Entry : [e EXCEPT !.age = @ + 1] \in Entry
  BY DEF Entry
<1> QED
  BY <1>1, <1>2, <1>3

(***************************************************************************)
(* Marking entries and loads keeps their types, and where the loads are.   *)
(***************************************************************************)
LEMMA ExcuseTypes ==
  ASSUME TypeOK
  PROVE  /\ \A P : ExcuseEntries(P) \in [Profile -> Entry \cup {NoEntry}]
         /\ \A R : ExcuseLoads(R) \in [Reader -> Load]
         /\ \A R : \A r \in Reader : /\ ExcuseLoads(R)[r].at = reader[r].at
                                     /\ ExcuseLoads(R)[r].prof = reader[r].prof
<1>1. cache \in [Profile -> Entry \cup {NoEntry}] /\ reader \in [Reader -> Load]
  BY DEF TypeOK
<1>2. \A P : ExcuseEntries(P) \in [Profile -> Entry \cup {NoEntry}]
  BY <1>1, EntryEdits DEF ExcuseEntries
<1>3. \A R : ExcuseLoads(R) \in [Reader -> Load]
  BY <1>1, LoadEdits DEF ExcuseLoads
<1>4. ASSUME NEW R, NEW r \in Reader
      PROVE  /\ ExcuseLoads(R)[r].at = reader[r].at
             /\ ExcuseLoads(R)[r].prof = reader[r].prof
  BY <1>1 DEF ExcuseLoads, Load
<1> QED
  BY <1>2, <1>3, <1>4

(***************************************************************************)
(* Every variable has its type at the start, and no handler is at work.    *)
(***************************************************************************)
LEMMA TypeInit == Init => TypeOK /\ HandlerInv
<1> SUFFICES ASSUME Init PROVE TypeOK /\ HandlerInv
  OBVIOUS
<1>1. /\ src \subseteq Source /\ ver \in [Source -> Nat]
      /\ prof \in [Profile -> {"absent", "live", "deleted"}]
      /\ members \in [Profile -> SUBSET Source]
      /\ cache \in [Profile -> Entry \cup {NoEntry}]
  BY DEF Init, NoNodes
<1>2. reader \in [Reader -> Load] /\ writer \in [Writer -> Change]
  BY LoadEdits, ChangeEdits DEF Init
<1>3. HandlerInv
  BY DEF Init, HandlerInv, IdleReader, IdleWriter
<1> QED
  BY <1>1, <1>2, <1>3 DEF TypeOK

(***************************************************************************)
(* Every step keeps the types of what it assigns ...                       *)
(***************************************************************************)
LEMMA TypeStep == TypeOK /\ HandlerInv /\ [Next]_vars => TypeOK'
<1> SUFFICES ASSUME TypeOK, HandlerInv, [Next]_vars PROVE TypeOK'
  OBVIOUS
<1>0. /\ src \subseteq Source /\ ver \in [Source -> Nat]
      /\ prof \in [Profile -> {"absent", "live", "deleted"}]
      /\ members \in [Profile -> SUBSET Source]
      /\ cache \in [Profile -> Entry \cup {NoEntry}]
      /\ reader \in [Reader -> Load] /\ writer \in [Writer -> Change]
  BY DEF TypeOK
<1>1. ASSUME NEW r \in Reader, NEW p \in Profile, Authorize(r, p)
      PROVE TypeOK'
  <2>1. reader' \in [Reader -> Load]
    BY <1>0, <1>1, LoadEdits DEF Authorize, ReaderAt
  <2> QED
    BY <1>1, <2>1 DEF TypeOK, Authorize, dbVars
<1>2. ASSUME NEW r \in Reader, Lookup(r) PROVE TypeOK'
  <2>1. CASE reader' = [reader EXCEPT ![r] = IdleReader] /\ UNCHANGED cache
    <3>1. reader' \in [Reader -> Load]
      BY <1>0, <2>1, LoadEdits
    <3> QED
      BY <1>2, <2>1, <3>1 DEF TypeOK, Lookup, dbVars
  <2>2. CASE /\ reader' = [reader EXCEPT ![r].at = "profile"]
             /\ cache' = [cache EXCEPT ![reader[r].prof] = NoEntry]
    <3>1. reader' \in [Reader -> Load]
      BY <1>0, <2>2, LoadEdits DEF ReaderAt
    <3>2. cache' \in [Profile -> Entry \cup {NoEntry}]
      BY <1>0, <2>2
    <3> QED
      BY <1>2, <3>1, <3>2 DEF TypeOK, Lookup, dbVars
  <2> QED
    BY <1>2, <2>1, <2>2 DEF Lookup
<1>3. ASSUME NEW r \in Reader, ReadProfile(r) PROVE TypeOK'
  <2>1. ASSUME reader' = [reader EXCEPT ![r].at = "members"]
        PROVE  reader' \in [Reader -> Load]
    BY <1>0, <2>1, LoadEdits DEF ReaderAt
  <2>2. reader' = [reader EXCEPT ![r] = IdleReader] =>
          reader' \in [Reader -> Load]
    BY <1>0, LoadEdits
  <2>3. reader' \in {[reader EXCEPT ![r].at = "members"],
                     [reader EXCEPT ![r] = IdleReader]}
    BY <1>3 DEF ReadProfile
  <2>4. reader' \in [Reader -> Load]
    BY <2>1, <2>2, <2>3
  <2> QED
    BY <1>3, <2>4 DEF TypeOK, ReadProfile, dbVars
<1>4. ASSUME NEW r \in Reader, ReadMembers(r) PROVE TypeOK'
  <2>1. members[reader[r].prof] \in SUBSET Source
    BY <1>0, <1>4 DEF ReadMembers, HandlerInv
  <2>2. reader' \in [Reader -> Load]
    BY <1>0, <1>4, <2>1, LoadEdits DEF ReadMembers, ReaderAt
  <2> QED
    BY <1>4, <2>2 DEF TypeOK, ReadMembers, dbVars
<1>5. ASSUME NEW r \in Reader, ReadSource(r) PROVE TypeOK'
  <2>1. PICK s \in reader[r].todo :
          reader' = [reader EXCEPT ![r].todo = @ \ {s}, ![r].ver[s] = ver[s]]
    BY <1>5 DEF ReadSource
  <2>2. reader[r] \in Load
    BY <1>0
  <2>3. s \in Source /\ (reader[r].todo \ {s}) \in SUBSET Source
    BY <2>1, <2>2 DEF Load
  <2>4. reader' \in [Reader -> Load]
    BY <1>0, <2>1, <2>3, LoadEdits
  <2> QED
    BY <1>5, <2>4 DEF TypeOK, ReadSource, dbVars
<1>6. ASSUME NEW r \in Reader, Insert(r) PROVE TypeOK'
  <2>1. reader' \in [Reader -> Load]
    BY <1>0, <1>6, LoadEdits DEF Insert
  <2>2. cache' \in [Profile -> Entry \cup {NoEntry}]
    BY <1>0, <1>6, EntryEdits DEF Insert
  <2> QED
    BY <1>6, <2>1, <2>2 DEF TypeOK, Insert, dbVars
<1>7. ASSUME NEW p \in Profile, NEW S \in SUBSET Source, CreateProfile(p, S)
      PROVE TypeOK'
  BY <1>7 DEF CreateProfile, TypeOK
<1>8. ASSUME NEW w \in Writer, NEW p \in Profile, NEW S \in SUBSET Source,
             UpdateProfile(w, p, S)
      PROVE TypeOK'
  <2>1. {p} \in SUBSET Profile /\ "drop" \in WriterAt
    BY DEF WriterAt
  <2>2. writer' \in [Writer -> Change]
    BY <1>0, <1>8, <2>1, ChangeEdits DEF UpdateProfile
  <2> QED
    BY <1>8, <2>2 DEF TypeOK, UpdateProfile
<1>9. ASSUME NEW w \in Writer, NEW p \in Profile, DeleteProfile(w, p)
      PROVE TypeOK'
  <2>1. {p} \in SUBSET Profile /\ "drop" \in WriterAt
    BY DEF WriterAt
  <2>2. writer' \in [Writer -> Change]
    BY <1>0, <1>9, <2>1, ChangeEdits DEF DeleteProfile
  <2> QED
    BY <1>9, <2>2 DEF TypeOK, DeleteProfile
<1>10. ASSUME NEW w \in Writer, NEW p \in Profile, StartProfileRefresh(w, p)
       PROVE TypeOK'
  <2>1. writer' \in [Writer -> Change]
    BY ZenonT(60), <1>0, <1>10, ChangeEdits DEF StartProfileRefresh, WriterAt
  <2> QED
    BY <1>10, <2>1 DEF TypeOK, StartProfileRefresh, dbVars
<1>11. ASSUME NEW w \in Writer, NEW s \in Source, RefreshWrite(w, s)
       PROVE TypeOK'
  <2>1. writer' \in [Writer -> Change]
    BY <1>0, <1>11, ChangeEdits DEF RefreshWrite, WriterAt
  <2> QED
    BY <1>11, <2>1 DEF TypeOK, RefreshWrite
<1>12. ASSUME NEW w \in Writer, NEW s \in Source, ListForDelete(w, s)
       PROVE TypeOK'
  <2>1. ProfilesOf(s) \in SUBSET Profile /\ "delete" \in WriterAt
    BY DEF ProfilesOf, WriterAt
  <2>2. writer' \in [Writer -> Change]
    BY <1>0, <1>12, <2>1, ChangeEdits DEF ListForDelete
  <2> QED
    BY <1>12, <2>2 DEF TypeOK, ListForDelete, dbVars
<1>13. ASSUME NEW w \in Writer, ListProfiles(w) PROVE TypeOK'
  <2>1. ProfilesOf(writer[w].src) \in SUBSET Profile /\ "drop" \in WriterAt
    BY DEF ProfilesOf, WriterAt
  <2>2. writer' \in [Writer -> Change]
    BY <1>0, <1>13, <2>1, ChangeEdits DEF ListProfiles
  <2> QED
    BY <1>13, <2>2 DEF TypeOK, ListProfiles, dbVars
<1>14. ASSUME NEW w \in Writer, DropEntries(w) PROVE TypeOK'
  <2>1. reader' \in [Reader -> Load]
    BY <1>14, ExcuseTypes DEF DropEntries, Invalidate
  <2>2. cache' \in [Profile -> Entry \cup {NoEntry}]
    BY <1>0, <1>14 DEF DropEntries, Invalidate
  <2>3. writer' \in [Writer -> Change]
    BY <1>0, <1>14, ChangeEdits DEF DropEntries, Finish
  <2> QED
    BY <1>14, <2>1, <2>2, <2>3 DEF TypeOK, DropEntries, dbVars
<1>15. ASSUME NEW w \in Writer, DeleteSource(w) PROVE TypeOK'
  <2>1. CASE writer[w].src \in src
    <3>1. reader' \in [Reader -> Load]
      BY <1>15, <2>1, ExcuseTypes DEF DeleteSource
    <3>2. cache' \in [Profile -> Entry \cup {NoEntry}]
      BY <1>15, <2>1, ExcuseTypes DEF DeleteSource
    <3>3. writer' = [writer EXCEPT ![w].at = "drop"]
      BY <1>15, <2>1 DEF DeleteSource
    <3>4. writer' \in [Writer -> Change]
      BY <1>0, <3>3, ChangeEdits DEF WriterAt
    <3>5. /\ src' \subseteq Source /\ ver' \in [Source -> Nat]
          /\ members' \in [Profile -> SUBSET Source] /\ prof' = prof
      BY <1>0, <1>15, <2>1 DEF DeleteSource
    <3> QED
      BY <1>0, <3>1, <3>2, <3>4, <3>5 DEF TypeOK
  <2>2. CASE writer[w].src \notin src
    <3>1. writer' \in [Writer -> Change]
      BY <1>0, <1>15, <2>2, ChangeEdits DEF DeleteSource, Finish
    <3> QED
      BY <1>0, <1>15, <2>2, <3>1 DEF TypeOK, DeleteSource
  <2> QED
    BY <2>1, <2>2
<1>16. ASSUME NEW w \in Writer, OpenProfileRefresh(w) PROVE TypeOK'
  <2>1. reader' \in [Reader -> Load]
    BY <1>16, ExcuseTypes DEF OpenProfileRefresh, Invalidate
  <2>2. cache' \in [Profile -> Entry \cup {NoEntry}]
    BY <1>0, <1>16 DEF OpenProfileRefresh, Invalidate
  <2>3. writer' \in [Writer -> Change]
    BY <1>0, <1>16, ChangeEdits DEF OpenProfileRefresh, WriterAt
  <2> QED
    BY <1>16, <2>1, <2>2, <2>3 DEF TypeOK, OpenProfileRefresh, dbVars
<1>17. ASSUME NEW s \in Source, QuietWrite(s)
       PROVE  /\ src' \subseteq Source /\ ver' \in [Source -> Nat]
              /\ prof' \in [Profile -> {"absent", "live", "deleted"}]
              /\ members' \in [Profile -> SUBSET Source]
              /\ cache' \in [Profile -> Entry \cup {NoEntry}]
              /\ reader' \in [Reader -> Load]
  <2>1. reader' \in [Reader -> Load]
    BY <1>17, ExcuseTypes DEF QuietWrite
  <2>2. cache' \in [Profile -> Entry \cup {NoEntry}]
    BY <1>17, ExcuseTypes DEF QuietWrite
  <2> QED
    BY <1>0, <1>17, <2>1, <2>2 DEF QuietWrite
<1>18. ASSUME NEW w \in Writer, WalkProfileRefresh(w) PROVE TypeOK'
  <2>1. ASSUME NEW s \in writer[w].todo, QuietWrite(s),
               writer' = [writer EXCEPT ![w].todo = @ \ {s}]
        PROVE  TypeOK'
    <3>1. writer[w] \in Change
      BY <1>0
    <3>2. s \in Source /\ (writer[w].todo \ {s}) \in SUBSET Source
      BY <3>1 DEF Change
    <3>3. writer' \in [Writer -> Change]
      BY <1>0, <2>1, <3>2, ChangeEdits
    <3> QED
      BY <1>17, <2>1, <3>2, <3>3 DEF TypeOK
  <2>2. CASE Finish(w) /\ UNCHANGED <<cache, reader>> /\ UNCHANGED dbVars
    <3>1. writer' \in [Writer -> Change]
      BY <1>0, <2>2, ChangeEdits DEF Finish
    <3> QED
      BY <1>0, <2>2, <3>1 DEF TypeOK, dbVars
  <2> QED
    BY <1>18, <2>1, <2>2 DEF WalkProfileRefresh
<1>19. ASSUME NEW s \in Source, AbandonedRefresh(s) PROVE TypeOK'
  BY <1>0, <1>17, <1>19 DEF TypeOK, AbandonedRefresh
<1>20. CASE Tick
  <2>1. cache' \in [Profile -> Entry \cup {NoEntry}]
    BY <1>0, <1>20, EntryEdits DEF Tick, Fresh
  <2> QED
    BY <1>20, <2>1 DEF TypeOK, Tick, dbVars
<1>21. CASE UNCHANGED vars
  BY <1>21 DEF vars, TypeOK
<1>22. ASSUME NEW w \in Writer, ListFails(w) PROVE TypeOK'
  <2>1. reader' \in [Reader -> Load]
    BY <1>22, ExcuseTypes DEF ListFails
  <2>2. cache' \in [Profile -> Entry \cup {NoEntry}]
    BY <1>22, ExcuseTypes DEF ListFails
  <2>3. writer' \in [Writer -> Change]
    BY <1>0, <1>22, ChangeEdits DEF ListFails, Finish
  <2> QED
    BY <1>22, <2>1, <2>2, <2>3 DEF TypeOK, ListFails, dbVars
<1> QED
  BY <1>1, <1>2, <1>3, <1>4, <1>5, <1>6, <1>7, <1>8, <1>9, <1>10, <1>11,
     <1>12, <1>13, <1>14, <1>15, <1>16, <1>18, <1>19, <1>20, <1>21, <1>22
  DEF Next, ReaderStep, WriterStep

(***************************************************************************)
(* ... and gives the handlers profiles and sources to work for.            *)
(***************************************************************************)
LEMMA HandlerStep == TypeOK /\ HandlerInv /\ [Next]_vars => HandlerInv'
<1> SUFFICES ASSUME TypeOK, HandlerInv, [Next]_vars PROVE HandlerInv'
  OBVIOUS
<1>0. /\ src \subseteq Source /\ ver \in [Source -> Nat]
      /\ prof \in [Profile -> {"absent", "live", "deleted"}]
      /\ members \in [Profile -> SUBSET Source]
      /\ cache \in [Profile -> Entry \cup {NoEntry}]
      /\ reader \in [Reader -> Load] /\ writer \in [Writer -> Change]
  BY DEF TypeOK
<1> USE DEF HandlerInv, dbVars, ProfilesOf, IdleReader, IdleWriter
<1>1. ASSUME NEW r \in Reader, NEW p \in Profile, Authorize(r, p)
      PROVE HandlerInv'
  BY <1>0, <1>1 DEF Authorize, Load, ReaderAt, WriterAt
<1>2. ASSUME NEW r \in Reader, Lookup(r) PROVE HandlerInv'
  <2>1. reader' \in {[reader EXCEPT ![r] = IdleReader],
                     [reader EXCEPT ![r].at = "profile"]}
    BY <1>2 DEF Lookup
  <2>2. \A q \in Reader : reader'[q].at # "idle" =>
          reader'[q].prof = reader[q].prof /\ reader[q].at # "idle"
    BY <1>0, <1>2, <2>1 DEF Load, Lookup
  <2> QED
    BY <1>2, <2>2 DEF Lookup
<1>3. ASSUME NEW r \in Reader, ReadProfile(r)
      PROVE HandlerInv'
  BY SMTT(30), <1>0, <1>3 DEF ReadProfile, Load, ReaderAt, WriterAt
<1>4. ASSUME NEW r \in Reader, ReadMembers(r)
      PROVE HandlerInv'
  BY <1>0, <1>4 DEF ReadMembers, Load, ReaderAt, WriterAt
<1>5. ASSUME NEW r \in Reader, ReadSource(r)
      PROVE HandlerInv'
  BY <1>0, <1>5 DEF ReadSource, Load, ReaderAt, WriterAt
<1>6. ASSUME NEW r \in Reader, Insert(r)
      PROVE HandlerInv'
  BY <1>0, <1>6 DEF Insert, Load, ReaderAt, WriterAt
<1>7. ASSUME NEW p \in Profile, NEW S \in SUBSET Source,
             CreateProfile(p, S)
      PROVE HandlerInv'
  BY <1>0, <1>7 DEF CreateProfile, ReaderAt, WriterAt
<1>8. ASSUME NEW w \in Writer, NEW p \in Profile,
             NEW S \in SUBSET Source,
             UpdateProfile(w, p, S)
      PROVE HandlerInv'
  BY <1>0, <1>8 DEF UpdateProfile, Change, ReaderAt, WriterAt
<1>9. ASSUME NEW w \in Writer, NEW p \in Profile,
             DeleteProfile(w, p)
      PROVE HandlerInv'
  BY <1>0, <1>9 DEF DeleteProfile, Change, ReaderAt, WriterAt
<1>10. ASSUME NEW w \in Writer, NEW p \in Profile,
             StartProfileRefresh(w, p)
      PROVE HandlerInv'
  BY <1>0, <1>10 DEF StartProfileRefresh, Change, ReaderAt, WriterAt
<1>11. ASSUME NEW w \in Writer, NEW s \in Source, RefreshWrite(w, s)
      PROVE HandlerInv'
  BY <1>0, <1>11 DEF RefreshWrite, Change, ReaderAt, WriterAt
<1>12. ASSUME NEW w \in Writer, NEW s \in Source, ListForDelete(w, s)
      PROVE HandlerInv'
  BY <1>0, <1>12 DEF ListForDelete, Change, ReaderAt, WriterAt
<1>13. ASSUME NEW w \in Writer, ListProfiles(w)
      PROVE HandlerInv'
  BY <1>0, <1>13 DEF ListProfiles, Change, ReaderAt, WriterAt
<1>14. ASSUME NEW w \in Writer, DropEntries(w)
      PROVE HandlerInv'
  BY <1>0, <1>14, ExcuseTypes DEF DropEntries, Invalidate, Finish, Change, ReaderAt, WriterAt
<1>15. ASSUME NEW w \in Writer, DeleteSource(w)
      PROVE HandlerInv'
  BY <1>0, <1>15, ExcuseTypes DEF DeleteSource, Finish, Change, ReaderAt, WriterAt
<1>16. ASSUME NEW w \in Writer, OpenProfileRefresh(w)
      PROVE HandlerInv'
  BY <1>0, <1>16, ExcuseTypes DEF OpenProfileRefresh, Invalidate, Change, ReaderAt, WriterAt
<1>17. ASSUME NEW w \in Writer, WalkProfileRefresh(w) PROVE HandlerInv'
  <2>1. CASE Finish(w) /\ UNCHANGED <<cache, reader>> /\ UNCHANGED dbVars
    BY <1>0, <2>1 DEF Finish
  <2>2. ASSUME NEW s \in writer[w].todo, QuietWrite(s),
               writer' = [writer EXCEPT ![w].todo = @ \ {s}]
        PROVE  HandlerInv'
    <3>1. \A r \in Reader : /\ reader'[r].at = reader[r].at
                             /\ reader'[r].prof = reader[r].prof
      BY <2>2, ExcuseTypes DEF QuietWrite
    <3>2. \A v \in Writer : /\ writer'[v].at = writer[v].at
                             /\ writer'[v].src = writer[v].src
                             /\ writer'[v].prof = writer[v].prof
      BY <1>0, <2>2 DEF Change
    <3> QED
      BY <2>2, <3>1, <3>2 DEF QuietWrite
  <2> QED
    BY <1>17, <2>1, <2>2 DEF WalkProfileRefresh
<1>18. ASSUME NEW s \in Source, AbandonedRefresh(s)
      PROVE HandlerInv'
  BY <1>0, <1>18, ExcuseTypes DEF AbandonedRefresh, QuietWrite, ReaderAt, WriterAt
<1>19. CASE Tick
  BY <1>19 DEF Tick
<1>20. CASE UNCHANGED vars
  BY <1>20 DEF vars
<1>21. ASSUME NEW w \in Writer, ListFails(w)
      PROVE HandlerInv'
  BY <1>0, <1>21, ExcuseTypes DEF ListFails, Finish, Change, ReaderAt, WriterAt
<1> HIDE DEF HandlerInv
<1> QED
  BY <1>1, <1>2, <1>3, <1>4, <1>5, <1>6, <1>7, <1>8, <1>9, <1>10, <1>11, <1>12, <1>13, <1>14, <1>15, <1>16, <1>17, <1>18, <1>19,
     <1>20, <1>21
  DEF Next, ReaderStep, WriterStep

(***************************************************************************)
(* Type correctness of every reachable state.                              *)
(***************************************************************************)
THEOREM TypeCorrect == Spec => []TypeOK
BY TypeInit, TypeStep, HandlerStep, PTL DEF Spec

----------------------------------------------------------------------------
(***************************************************************************)
(* A load that is under way has read what the database holds, or the entry *)
(* it will build is marked, or a handler is about to invalidate it.        *)
(***************************************************************************)
ReadsCurrent(r) ==
  LET p == reader[r].prof
  IN /\ prof[p] = "live"
     /\ reader[r].at = "sources" =>
          /\ reader[r].srcs = members[p]
          /\ \A s \in members[p] \ reader[r].todo : reader[r].ver[s] = ver[s]

LoadInv ==
  \A r \in Reader : Loading(r) =>
    ReadsCurrent(r) \/ reader[r].excused \/ Pending(reader[r].prof)

(***************************************************************************)
(* At the start nothing is cached and nothing is loading.                  *)
(***************************************************************************)
LEMMA StaleInit == Init => LoadInv /\ StaleIsExplained
BY DEF Init, LoadInv, Loading, IdleReader, StaleIsExplained

(***************************************************************************)
(* Marking a load or an entry changes nothing else about it.               *)
(***************************************************************************)
LEMMA ExcuseEffect ==
  ASSUME TypeOK
  PROVE  /\ \A R : \A r \in Reader :
              LET l == ExcuseLoads(R)[r]
              IN /\ l.at = reader[r].at /\ l.prof = reader[r].prof
                 /\ l.srcs = reader[r].srcs /\ l.todo = reader[r].todo
                 /\ l.ver = reader[r].ver
                 /\ l.excused = (reader[r].excused \/ r \in R)
         /\ \A P : \A p \in Profile :
              LET e == ExcuseEntries(P)[p]
              IN /\ e = NoEntry <=> cache[p] = NoEntry
                 /\ cache[p] # NoEntry =>
                      /\ e.srcs = cache[p].srcs /\ e.ver = cache[p].ver
                      /\ e.excused = (cache[p].excused \/ p \in P)
<1>1. cache \in [Profile -> Entry \cup {NoEntry}] /\ reader \in [Reader -> Load]
  BY DEF TypeOK
<1>2. ASSUME NEW R, NEW r \in Reader
      PROVE  LET l == ExcuseLoads(R)[r]
             IN /\ l.at = reader[r].at /\ l.prof = reader[r].prof
                /\ l.srcs = reader[r].srcs /\ l.todo = reader[r].todo
                /\ l.ver = reader[r].ver
                /\ l.excused = (reader[r].excused \/ r \in R)
  BY <1>1 DEF ExcuseLoads, Load
<1>3. ASSUME NEW P, NEW p \in Profile
      PROVE  LET e == ExcuseEntries(P)[p]
             IN /\ e = NoEntry <=> cache[p] = NoEntry
                /\ cache[p] # NoEntry =>
                     /\ e.srcs = cache[p].srcs /\ e.ver = cache[p].ver
                     /\ e.excused = (cache[p].excused \/ p \in P)
  <2>1. CASE cache[p] = NoEntry
    BY <2>1 DEF ExcuseEntries
  <2>2. CASE cache[p] # NoEntry
    <3>1. cache[p] \in Entry
      BY <1>1, <2>2
    <3>2. CASE p \in P
      <4>1. ExcuseEntries(P)[p] = [cache[p] EXCEPT !.excused = TRUE]
        BY <2>2, <3>2 DEF ExcuseEntries
      <4>2. [cache[p] EXCEPT !.excused = TRUE] \in Entry
        BY <3>1, EntryEdits
      <4>3. [cache[p] EXCEPT !.excused = TRUE] # NoEntry
        BY <4>2, NoEntryAssumption DEF Entry
      <4> QED
        BY <2>2, <3>1, <3>2, <4>1, <4>3 DEF Entry
    <3>3. CASE p \notin P
      BY <2>2, <3>1, <3>3 DEF ExcuseEntries, Entry
    <3> QED
      BY <3>2, <3>3
  <2> QED
    BY <2>1, <2>2
<1> QED
  BY <1>2, <1>3

(***************************************************************************)
(* What a step leaves as it was: the rows p is exported from, its cached   *)
(* entry, a load, the announcement of an invalidation.                     *)
(***************************************************************************)
RowKept(p) ==
  /\ prof'[p] = prof[p] /\ members'[p] = members[p]
  /\ \A s \in members[p] : ver'[s] = ver[s]

EntryKept(p) ==
  /\ cache[p] # NoEntry
  /\ cache'[p].srcs = cache[p].srcs /\ cache'[p].ver = cache[p].ver
  /\ cache[p].excused => cache'[p].excused

LoadKept(r) ==
  /\ reader'[r].at = reader[r].at /\ reader'[r].prof = reader[r].prof
  /\ reader'[r].srcs = reader[r].srcs /\ reader'[r].todo = reader[r].todo
  /\ reader'[r].ver = reader[r].ver
  /\ reader[r].excused => reader'[r].excused

PendingKept(p) == Pending(p) => Pending(p)'

(***************************************************************************)
(* The two ways a step can deal with an entry and with a load: give it a   *)
(* reason to be stale (or take it away), or leave all it depends on alone. *)
(***************************************************************************)
EntrySettled(p) ==
  \/ cache'[p] = NoEntry \/ cache'[p].excused \/ Pending(p)'
  \/ EntryKept(p) /\ RowKept(p) /\ PendingKept(p)

LoadSettled(r) ==
  \/ ~ Loading(r)' \/ reader'[r].excused
  \/ \E p \in Profile : reader'[r].prof = p /\ Pending(p)'
  \/ \E p \in Profile : /\ reader[r].prof = p
                         /\ LoadKept(r) /\ RowKept(p) /\ PendingKept(p)

(***************************************************************************)
(* A step that deals with every entry and every load keeps all explained.  *)
(***************************************************************************)
LEMMA Settled ==
  /\ LoadInv /\ (\A r \in Reader : LoadSettled(r)) => LoadInv'
  /\ StaleIsExplained /\ (\A p \in Profile : EntrySettled(p))
     => StaleIsExplained'
<1>1. ASSUME LoadInv, NEW r \in Reader, NEW p \in Profile, Loading(r)',
             reader[r].prof = p, LoadKept(r), RowKept(p), PendingKept(p)
      PROVE  (ReadsCurrent(r) \/ reader[r].excused \/ Pending(reader[r].prof))'
  <2>1. Loading(r)
    BY <1>1 DEF LoadKept, Loading
  <2>2. ReadsCurrent(r) \/ reader[r].excused \/ Pending(p)
    BY <1>1, <2>1 DEF LoadInv, Pending
  <2>3. ReadsCurrent(r) => ReadsCurrent(r)'
    BY <1>1 DEF ReadsCurrent, LoadKept, RowKept
  <2>4. Pending(p)' => Pending(reader[r].prof)'
    BY <1>1 DEF LoadKept, Pending
  <2> QED
    BY <1>1, <2>2, <2>3, <2>4 DEF LoadKept, PendingKept
<1>2. ASSUME NEW r \in Reader, NEW p \in Profile, reader'[r].prof = p,
             Pending(p)'
      PROVE  Pending(reader[r].prof)'
  BY <1>2 DEF Pending
<1>3. LoadInv /\ (\A r \in Reader : LoadSettled(r)) => LoadInv'
  BY <1>1, <1>2 DEF LoadInv, LoadSettled
<1>4. ASSUME StaleIsExplained, NEW p \in Profile, EntrySettled(p),
             cache'[p] # NoEntry, ~ Current(p)'
      PROVE  cache'[p].excused \/ Pending(p)'
  <2>1. CASE EntryKept(p) /\ RowKept(p) /\ PendingKept(p)
    <3>1. cache[p] # NoEntry /\ ~ Current(p)
      BY <1>4, <2>1 DEF EntryKept, RowKept, Current
    <3> QED
      BY <1>4, <2>1, <3>1 DEF StaleIsExplained, EntryKept, PendingKept
  <2> QED
    BY <1>4, <2>1 DEF EntrySettled
<1>5. StaleIsExplained /\ (\A p \in Profile : EntrySettled(p))
      => StaleIsExplained'
  BY <1>4 DEF StaleIsExplained
<1> QED
  BY <1>3, <1>5

(***************************************************************************)
(* A step that writes no row and announces nothing new deals with all it   *)
(* does not touch.                                                         *)
(***************************************************************************)
LEMMA Untouched ==
  /\ UNCHANGED <<prof, members, ver>> => \A p : RowKept(p)
  /\ UNCHANGED writer => \A p : members'[p] = members[p] => PendingKept(p)
  /\ \A p : cache'[p] = cache[p] => cache'[p] = NoEntry \/ EntryKept(p)
  /\ \A r : reader'[r] = reader[r] => LoadKept(r)
  /\ \A w \in Writer :
       /\ writer[w].at \notin {"list", "drop"}
       /\ \A v \in Writer \ {w} : writer'[v] = writer[v]
       => \A p : members'[p] = members[p] => PendingKept(p)
<1>1. UNCHANGED <<prof, members, ver>> => \A p : RowKept(p)
  BY DEF RowKept
<1>2. UNCHANGED writer => \A p : members'[p] = members[p] => PendingKept(p)
  BY DEF PendingKept, Pending, ProfilesOf
<1>3. \A p : cache'[p] = cache[p] => cache'[p] = NoEntry \/ EntryKept(p)
  BY DEF EntryKept
<1>4. \A r : reader'[r] = reader[r] => LoadKept(r)
  BY DEF LoadKept
<1>5. ASSUME NEW w \in Writer, writer[w].at \notin {"list", "drop"},
             \A v \in Writer \ {w} : writer'[v] = writer[v]
      PROVE  \A p : members'[p] = members[p] => PendingKept(p)
  BY <1>5 DEF PendingKept, Pending, ProfilesOf
<1> QED
  BY <1>1, <1>2, <1>3, <1>4, <1>5

(***************************************************************************)
(* A load that ends or has not begun to read needs no explanation, one     *)
(* that begins to read finds a live profile, and one that goes on reads    *)
(* what the database holds.                                                *)
(***************************************************************************)
LEMMA ReaderStepKeeps ==
  ASSUME TypeOK, HandlerInv, LoadInv, StaleIsExplained,
         NEW r \in Reader,
         \/ \E p \in Profile : Authorize(r, p)
         \/ ReaderStep(r)
  PROVE  LoadInv' /\ StaleIsExplained'
<1>0. /\ ver \in [Source -> Nat] /\ members \in [Profile -> SUBSET Source]
      /\ cache \in [Profile -> Entry \cup {NoEntry}]
      /\ reader \in [Reader -> Load]
  BY DEF TypeOK
<1>1. UNCHANGED writer /\ UNCHANGED dbVars
  BY DEF Authorize, ReaderStep, Lookup, ReadProfile, ReadMembers, ReadSource,
         Insert
<1>2. \A p : RowKept(p) /\ PendingKept(p)
  BY <1>1, Untouched DEF dbVars
<1>3. \A q \in Reader \ {r} : reader'[q] = reader[q]
  BY <1>0 DEF Authorize, ReaderStep, Lookup, ReadProfile, ReadMembers,
     ReadSource, Insert
<1>4. \A q \in Reader \ {r} : LoadSettled(q)
  <2>1. ASSUME NEW q \in Reader \ {r}, Loading(q)' PROVE LoadSettled(q)
    <3>1. reader[q].prof \in Profile
      BY <1>3, <2>1 DEF Loading, HandlerInv
    <3> QED
      BY <1>2, <1>3, <2>1, <3>1, Untouched DEF LoadSettled
  <2> QED
    BY <2>1 DEF LoadSettled
<1>5. ASSUME ~ Loading(r)', UNCHANGED cache
      PROVE  LoadInv' /\ StaleIsExplained'
  BY <1>2, <1>4, <1>5, Settled, Untouched DEF LoadSettled, EntrySettled
<1>6. ASSUME NEW p \in Profile, Authorize(r, p)
      PROVE  LoadInv' /\ StaleIsExplained'
  <2>1. reader'[r].at = "lookup" /\ UNCHANGED cache
    BY <1>0, <1>6 DEF Authorize, Load
  <2> QED
    BY <1>5, <2>1 DEF Loading
<1>7. CASE Lookup(r)
  <2>1. CASE reader' = [reader EXCEPT ![r] = IdleReader] /\ UNCHANGED cache
    <3>1. ~ Loading(r)'
      BY <1>0, <2>1 DEF Loading, IdleReader
    <3> QED
      BY <1>5, <2>1, <3>1
  <2>2. CASE /\ reader' = [reader EXCEPT ![r].at = "profile"]
             /\ cache' = [cache EXCEPT ![reader[r].prof] = NoEntry]
    <3>1. ~ Loading(r)'
      BY <1>0, <2>2 DEF Loading, Load
    <3>2. \A p \in Profile : cache'[p] = NoEntry \/ cache'[p] = cache[p]
      BY <1>0, <2>2
    <3> QED
      BY <1>2, <1>4, <3>1, <3>2, Settled, Untouched
      DEF LoadSettled, EntrySettled
  <2> QED
    BY <1>7, <2>1, <2>2 DEF Lookup
<1>8. ASSUME UNCHANGED cache, LoadInv' PROVE LoadInv' /\ StaleIsExplained'
  BY <1>2, <1>8, Settled, Untouched DEF EntrySettled
<1>9. ASSUME ReadsCurrent(r)' PROVE LoadInv'
  <2>1. ASSUME NEW q \in Reader \ {r}, Loading(q)'
        PROVE  (ReadsCurrent(q) \/ reader[q].excused \/ Pending(reader[q].prof))'
    <3>1. Loading(q)
      BY <1>3, <2>1 DEF Loading
    <3>2. ReadsCurrent(q) => ReadsCurrent(q)'
      BY <1>1, <1>3 DEF ReadsCurrent, dbVars
    <3> QED
      BY <1>2, <1>3, <3>1, <3>2 DEF LoadInv, PendingKept
  <2> QED
    BY <1>9, <2>1 DEF LoadInv
<1>10. CASE ReadProfile(r)
  <2>1. UNCHANGED cache
    BY <1>10 DEF ReadProfile
  <2>2. CASE reader' = [reader EXCEPT ![r] = IdleReader]
    <3>1. ~ Loading(r)'
      BY <1>0, <2>2 DEF Loading, IdleReader
    <3> QED
      BY <1>5, <2>1, <3>1
  <2>3. CASE /\ reader' = [reader EXCEPT ![r].at = "members"]
             /\ prof[reader[r].prof] = "live"
    <3>1. reader'[r].at = "members" /\ reader'[r].prof = reader[r].prof
      BY <1>0, <2>3 DEF Load
    <3>2. ReadsCurrent(r)'
      BY <1>1, <2>3, <3>1 DEF ReadsCurrent, dbVars
    <3> QED
      BY <1>8, <1>9, <2>1, <3>2
  <2> QED
    BY <1>10, <2>2, <2>3 DEF ReadProfile
<1>11. CASE ReadMembers(r)
  <2>1. UNCHANGED cache /\ Loading(r)
    BY <1>11 DEF ReadMembers, Loading
  <2>2. /\ reader'[r].prof = reader[r].prof
        /\ reader'[r].excused = reader[r].excused
        /\ reader'[r].srcs = members[reader[r].prof]
        /\ reader'[r].todo = members[reader[r].prof]
    BY <1>0, <1>11 DEF ReadMembers, Load
  <2>3. ReadsCurrent(r) => ReadsCurrent(r)'
    BY <1>1, <2>2 DEF ReadsCurrent, dbVars
  <2>4. ReadsCurrent(r) \/ reader[r].excused \/ Pending(reader[r].prof)
    BY <2>1 DEF LoadInv
  <2>5. LoadInv'
    <3>1. CASE reader[r].excused
      <4>1. LoadSettled(r)
        BY <2>2, <3>1 DEF LoadSettled
      <4> QED
        BY <1>4, <4>1, Settled
    <3>2. CASE Pending(reader[r].prof)
      <4>1. LoadSettled(r)
        BY <1>2, <2>1, <2>2, <3>2
        DEF LoadSettled, PendingKept, Pending, Loading, HandlerInv
      <4> QED
        BY <1>4, <4>1, Settled
    <3> QED
      BY <1>9, <2>3, <2>4, <3>1, <3>2
  <2> QED
    BY <1>8, <2>1, <2>5
<1>12. CASE ReadSource(r)
  <2>1. UNCHANGED cache /\ Loading(r)
    BY <1>12 DEF ReadSource, Loading
  <2>2. PICK s \in reader[r].todo :
          reader' = [reader EXCEPT ![r].todo = @ \ {s}, ![r].ver[s] = ver[s]]
    BY <1>12 DEF ReadSource
  <2>3. reader[r] \in Load
    BY <1>0
  <2>4. /\ reader'[r].at = reader[r].at /\ reader[r].at = "sources"
        /\ reader'[r].prof = reader[r].prof
        /\ reader'[r].excused = reader[r].excused
        /\ reader'[r].srcs = reader[r].srcs
        /\ reader'[r].todo = reader[r].todo \ {s}
        /\ reader'[r].ver = [reader[r].ver EXCEPT ![s] = ver[s]]
        /\ reader[r].ver \in [Source -> Nat] /\ s \in Source
    BY <1>0, <1>12, <2>2, <2>3 DEF ReadSource, Load
  <2>5. /\ \A x \in Source \ {s} : reader'[r].ver[x] = reader[r].ver[x]
        /\ reader'[r].ver[s] = ver[s]
    BY <2>4
  <2>6. reader[r].prof \in Profile
    BY <2>4 DEF HandlerInv
  <2>7. members[reader[r].prof] \subseteq Source
    BY <1>0, <2>6
  <2>8. ReadsCurrent(r) => ReadsCurrent(r)'
    BY <1>1, <2>4, <2>5, <2>7 DEF ReadsCurrent, dbVars
  <2>9. ReadsCurrent(r) \/ reader[r].excused \/ Pending(reader[r].prof)
    BY <2>1 DEF LoadInv
  <2>10. LoadInv'
    <3>1. CASE reader[r].excused
      <4>1. LoadSettled(r)
        BY <2>4, <3>1 DEF LoadSettled
      <4> QED
        BY <1>4, <4>1, Settled
    <3>2. CASE Pending(reader[r].prof)
      <4>1. LoadSettled(r)
        BY <1>2, <2>4, <2>6, <3>2 DEF LoadSettled, PendingKept, Pending
      <4> QED
        BY <1>4, <4>1, Settled
    <3> QED
      BY <1>9, <2>8, <2>9, <3>1, <3>2
  <2> QED
    BY <1>8, <2>1, <2>10
<1>13. CASE Insert(r)
  <2> DEFINE e == [srcs |-> reader[r].srcs, ver |-> reader[r].ver, age |-> 0,
                   excused |-> reader[r].excused]
  <2>1. reader[r].prof \in Profile /\ Loading(r)
    BY <1>13 DEF Insert, HandlerInv, Loading
  <2>p. PICK p \in Profile : reader[r].prof = p
    BY <2>1
  <2>2. cache' = [cache EXCEPT ![p] = e]
    BY <1>13, <2>p DEF Insert
  <2>3. cache'[p] = e /\ \A q \in Profile \ {p} : cache'[q] = cache[q]
    BY <1>0, <2>2
  <2>4. ReadsCurrent(r) => Current(p)'
    <3>1. reader[r].at = "sources" /\ reader[r].todo = {}
      BY <1>13 DEF Insert
    <3> QED
      BY <1>1, <2>p, <2>3, <3>1 DEF ReadsCurrent, Current, dbVars
  <2>5. ReadsCurrent(r) \/ reader[r].excused \/ Pending(p)
    BY <2>1, <2>p DEF LoadInv, Pending
  <2>6. Current(p)' \/ cache'[p].excused \/ Pending(p)'
    BY <1>2, <2>3, <2>4, <2>5 DEF PendingKept
  <2>7. \A q \in Profile \ {p} : EntrySettled(q)
    BY <1>2, <2>3, Untouched DEF EntrySettled
  <2>8. ASSUME NEW q \in Profile, q # p, cache'[q] # NoEntry, ~ Current(q)'
        PROVE  cache'[q].excused \/ Pending(q)'
    <3>1. cache[q] # NoEntry /\ ~ Current(q)
      BY <1>1, <2>3, <2>8 DEF Current, dbVars
    <3> QED
      BY <1>2, <2>3, <2>8, <3>1 DEF StaleIsExplained, PendingKept
  <2>9. StaleIsExplained'
    BY <2>6, <2>8 DEF StaleIsExplained
  <2>10. LoadSettled(r)
    BY <1>0, <1>13 DEF Insert, LoadSettled, Loading, IdleReader
  <2> QED
    BY <1>4, <2>9, <2>10, Settled
<1> QED
  BY <1>6, <1>7, <1>10, <1>11, <1>12, <1>13 DEF ReaderStep

(***************************************************************************)
(* Marking loads and entries keeps them, and marks the ones it is told to. *)
(***************************************************************************)
LEMMA Excused ==
  ASSUME TypeOK
  PROVE  /\ \A R : reader' = ExcuseLoads(R) =>
              \A r \in Reader : /\ LoadKept(r)
                                /\ r \in R => reader'[r].excused
         /\ \A P : cache' = ExcuseEntries(P) =>
              \A p \in Profile : \/ cache'[p] = NoEntry
                                 \/ /\ EntryKept(p)
                                    /\ p \in P => cache'[p].excused
<1>1. ASSUME NEW R, reader' = ExcuseLoads(R), NEW r \in Reader
      PROVE  LoadKept(r) /\ (r \in R => reader'[r].excused)
  <2>1. LET l == ExcuseLoads(R)[r]
        IN /\ l.at = reader[r].at /\ l.prof = reader[r].prof
           /\ l.srcs = reader[r].srcs /\ l.todo = reader[r].todo
           /\ l.ver = reader[r].ver
           /\ l.excused = (reader[r].excused \/ r \in R)
    BY ExcuseEffect
  <2> QED
    BY <1>1, <2>1, Zenon DEF LoadKept
<1>2. ASSUME NEW P, cache' = ExcuseEntries(P), NEW p \in Profile
      PROVE  \/ cache'[p] = NoEntry
             \/ EntryKept(p) /\ (p \in P => cache'[p].excused)
  <2>1. LET e == ExcuseEntries(P)[p]
        IN /\ e = NoEntry <=> cache[p] = NoEntry
           /\ cache[p] # NoEntry =>
                /\ e.srcs = cache[p].srcs /\ e.ver = cache[p].ver
                /\ e.excused = (cache[p].excused \/ p \in P)
    BY ExcuseEffect
  <2> QED
    BY <1>2, <2>1, Zenon DEF EntryKept
<1> QED
  BY <1>1, <1>2

(***************************************************************************)
(* An invalidation takes the entries away and marks the loads it does not  *)
(* stop; all that is announced for other profiles stays announced.         *)
(***************************************************************************)
LEMMA InvalidateKeeps ==
  ASSUME TypeOK, HandlerInv, LoadInv, StaleIsExplained, NEW P, Invalidate(P),
         UNCHANGED <<prof, members, ver>>,
         \A p \in Profile \ P : PendingKept(p)
  PROVE  LoadInv' /\ StaleIsExplained'
<1>1. \A p \in Profile : RowKept(p)
  BY Untouched
<1>2. \A p \in Profile : EntrySettled(p)
  <2>1. \A p \in Profile :
          cache'[p] = NoEntry \/ (p \notin P /\ cache'[p] = cache[p])
    BY DEF Invalidate
  <2> QED
    BY <1>1, <2>1, Untouched DEF EntrySettled
<1> DEFINE R == {r \in Reader : Loading(r) /\ reader[r].prof \in P}
<1>r. reader' = ExcuseLoads(R)
  BY DEF Invalidate
<1> HIDE DEF R
<1>3. \A r \in Reader : LoadKept(r) /\ (r \in R => reader'[r].excused)
  BY <1>r, Excused
<1>4. ASSUME NEW r \in Reader, Loading(r)' PROVE LoadSettled(r)
  <2>1. Loading(r)
    BY <1>3, <1>4 DEF LoadKept, Loading
  <2>2. reader[r].prof \in Profile
    BY <2>1 DEF Loading, HandlerInv
  <2>3. CASE reader[r].prof \in P
    BY <1>3, <2>1, <2>3 DEF LoadSettled, R
  <2>4. CASE reader[r].prof \notin P
    BY <1>1, <1>3, <2>2, <2>4 DEF LoadSettled
  <2> QED
    BY <2>3, <2>4
<1> QED
  BY <1>2, <1>4, Settled DEF LoadSettled

(***************************************************************************)
(* A write nobody announces marks every entry and every load that holds    *)
(* what it overwrites.                                                     *)
(***************************************************************************)
LEMMA QuietWriteKeeps ==
  ASSUME TypeOK, HandlerInv, LoadInv, StaleIsExplained,
         NEW s \in Source, QuietWrite(s),
         \A p \in Profile : PendingKept(p)
  PROVE  LoadInv' /\ StaleIsExplained'
<1>1. UNCHANGED <<prof, members>> /\ \A x \in Source \ {s} : ver'[x] = ver[x]
  BY DEF QuietWrite, TypeOK
<1>2. ASSUME NEW p \in Profile, s \notin members[p] PROVE RowKept(p)
  BY <1>1, <1>2 DEF RowKept, TypeOK
<1> DEFINE P == {p \in Profile : cache[p] # NoEntry /\ s \in cache[p].srcs}
           R == {r \in Reader : s \in reader[r].srcs /\ s \notin reader[r].todo}
<1>w. cache' = ExcuseEntries(P) /\ reader' = ExcuseLoads(R)
  BY DEF QuietWrite
<1> HIDE DEF P, R
<1>c. \A p \in Profile : \/ cache'[p] = NoEntry
                         \/ EntryKept(p) /\ (p \in P => cache'[p].excused)
  BY <1>w, Excused
<1>3. ASSUME NEW p \in Profile, cache'[p] # NoEntry, ~ Current(p)'
      PROVE  cache'[p].excused \/ Pending(p)'
  <2>1. cache[p] # NoEntry /\ EntryKept(p)
    BY <1>3, <1>c DEF EntryKept
  <2>2. CASE s \in cache[p].srcs
    BY <1>3, <1>c, <2>1, <2>2 DEF P
  <2>3. CASE s \notin cache[p].srcs /\ s \notin members[p]
    <3>1. RowKept(p)
      BY <1>2, <2>3
    <3>2. ~ Current(p)
      BY <1>3, <2>1, <3>1 DEF Current, EntryKept, RowKept
    <3> QED
      BY <2>1, <3>2 DEF StaleIsExplained, EntryKept, PendingKept
  <2>4. CASE s \notin cache[p].srcs /\ s \in members[p]
    <3>1. ~ Current(p)
      BY <2>4 DEF Current
    <3> QED
      BY <2>1, <3>1 DEF StaleIsExplained, EntryKept, PendingKept
  <2> QED
    BY <2>2, <2>3, <2>4
<1>4. \A r \in Reader : LoadKept(r) /\ (r \in R => reader'[r].excused)
  BY <1>w, Excused
<1>5. ASSUME NEW r \in Reader, Loading(r)'
      PROVE  (ReadsCurrent(r) \/ reader[r].excused \/ Pending(reader[r].prof))'
  <2>1. Loading(r) /\ LoadKept(r)
    BY <1>4, <1>5 DEF LoadKept, Loading
  <2>2. PICK p \in Profile : reader[r].prof = p
    BY <2>1 DEF Loading, HandlerInv
  <2>3. CASE s \in reader[r].srcs /\ s \notin reader[r].todo
    BY <1>4, <2>3 DEF R
  <2>4. CASE ~ (s \in reader[r].srcs /\ s \notin reader[r].todo)
    <3>1. members[p] \subseteq Source
      BY DEF TypeOK
    <3>2. ReadsCurrent(r) => ReadsCurrent(r)'
      BY <1>1, <2>1, <2>2, <2>4, <3>1 DEF ReadsCurrent, LoadKept
    <3>3. Pending(p) => Pending(reader[r].prof)'
      BY <2>1, <2>2 DEF PendingKept, Pending, LoadKept
    <3>4. ReadsCurrent(r) \/ reader[r].excused \/ Pending(p)
      BY <2>1, <2>2 DEF LoadInv, Pending
    <3> QED
      BY <2>1, <3>2, <3>3, <3>4 DEF LoadKept
  <2> QED
    BY <2>3, <2>4
<1> QED
  BY <1>3, <1>5 DEF LoadInv, StaleIsExplained

(***************************************************************************)
(* Creating a profile: what is cached or loading under the identifier of a *)
(* profile that did not exist was explained by a mark or by an             *)
(* announcement, and keeps both.                                           *)
(***************************************************************************)
LEMMA CreateKeeps ==
  ASSUME TypeOK, HandlerInv, LoadInv, StaleIsExplained,
         NEW p \in Profile, NEW S \in SUBSET Source, CreateProfile(p, S)
  PROVE  LoadInv' /\ StaleIsExplained'
<1>1. \A q \in Profile \ {p} : RowKept(q) /\ PendingKept(q)
  <2>1. \A q \in Profile \ {p} : prof'[q] = prof[q] /\ members'[q] = members[q]
    BY DEF CreateProfile, TypeOK
  <2> QED
    BY <2>1, Untouched DEF CreateProfile, RowKept
<1>2. prof[p] = "absent" /\ members[p] = {}
  BY DEF CreateProfile, HandlerInv
<1>3. PendingKept(p)
  BY <1>2 DEF PendingKept, Pending, ProfilesOf, CreateProfile
<1>4. EntrySettled(p)
  BY <1>2, <1>3
  DEF StaleIsExplained, Current, EntrySettled, PendingKept, CreateProfile
<1>5. \A q \in Profile : EntrySettled(q)
  BY <1>1, <1>4, Untouched DEF EntrySettled, CreateProfile
<1>6. ASSUME NEW r \in Reader, Loading(r)' PROVE LoadSettled(r)
  <2>1. Loading(r) /\ LoadKept(r)
    BY <1>6, Untouched DEF CreateProfile, Loading
  <2>2. PICK q \in Profile : reader[r].prof = q
    BY <2>1 DEF Loading, HandlerInv
  <2>3. CASE q = p
    <3>1. reader[r].excused \/ Pending(p)
      BY <1>2, <2>1, <2>2, <2>3 DEF LoadInv, ReadsCurrent, Pending
    <3> QED
      BY <1>3, <2>1, <2>2, <2>3, <3>1 DEF LoadSettled, LoadKept, PendingKept
  <2>4. CASE q # p
    BY <1>1, <2>1, <2>2, <2>4 DEF LoadSettled
  <2> QED
    BY <2>3, <2>4
<1> QED
  BY <1>5, <1>6, Settled DEF LoadSettled

(***************************************************************************)
(* A write that touches only the rows of profiles whose invalidation it    *)
(* announces.                                                              *)
(***************************************************************************)
LEMMA AnnouncedKeeps ==
  ASSUME HandlerInv, LoadInv, StaleIsExplained, UNCHANGED <<cache, reader>>,
         \A p \in Profile : Pending(p)' \/ (RowKept(p) /\ PendingKept(p))
  PROVE  LoadInv' /\ StaleIsExplained'
<1>1. \A p \in Profile : EntrySettled(p)
  BY Untouched DEF EntrySettled
<1>2. ASSUME NEW r \in Reader, Loading(r)' PROVE LoadSettled(r)
  <2>1. Loading(r) /\ LoadKept(r)
    BY <1>2, Untouched DEF Loading
  <2>2. PICK p \in Profile : reader[r].prof = p
    BY <2>1 DEF Loading, HandlerInv
  <2> QED
    BY <2>1, <2>2 DEF LoadSettled, LoadKept
<1> QED
  BY <1>1, <1>2, Settled DEF LoadSettled

(***************************************************************************)
(* Deleting a source: the profiles listed before are about to be           *)
(* invalidated, those that took the source up since are marked, the others *)
(* do not have it.                                                         *)
(***************************************************************************)
LEMMA DeleteSourceKeeps ==
  ASSUME TypeOK, HandlerInv, LoadInv, StaleIsExplained,
         NEW w \in Writer, DeleteSource(w)
  PROVE  LoadInv' /\ StaleIsExplained'
<1>1. writer[w].at = "delete" /\ writer \in [Writer -> Change]
  BY DEF DeleteSource, TypeOK
<1>2. \A v \in Writer \ {w} : writer'[v] = writer[v]
  BY <1>1 DEF DeleteSource, Finish
<1>3. \A p : members'[p] = members[p] => PendingKept(p)
  BY <1>1, <1>2, Untouched
<1>4. CASE writer[w].src \notin src
  <2>1. UNCHANGED <<ver, members, prof, cache, reader>>
    BY <1>4 DEF DeleteSource
  <2> QED
    BY <1>3, <2>1, Untouched, AnnouncedKeeps
<1>5. CASE writer[w].src \in src
  <2> DEFINE s == writer[w].src
             P == ProfilesOf(s) \ writer[w].list
             R == {r \in Reader : Loading(r) /\ reader[r].prof \in P}
  <2>1. /\ ver' = [ver EXCEPT ![s] = 0]
        /\ members' = [p \in Profile |-> members[p] \ {s}]
        /\ writer' = [writer EXCEPT ![w].at = "drop"]
        /\ cache' = ExcuseEntries(P) /\ reader' = ExcuseLoads(R)
        /\ prof' = prof
    BY <1>5 DEF DeleteSource
  <2>2. /\ \A p \in Profile : \/ cache'[p] = NoEntry
                              \/ EntryKept(p) /\ (p \in P => cache'[p].excused)
        /\ \A r \in Reader : LoadKept(r) /\ (r \in R => reader'[r].excused)
    <3> HIDE DEF P, R
    <3> QED
      BY <2>1, Excused
  <2>3. writer'[w].at = "drop" /\ writer'[w].list = writer[w].list
    BY <1>1, <2>1 DEF Change
  <2>4. \A p \in writer[w].list : Pending(p)'
    BY <2>3 DEF Pending
  <2>5. ASSUME NEW p \in Profile, p \notin ProfilesOf(s)
        PROVE  RowKept(p) /\ PendingKept(p)
    <3>1. s \notin members[p] /\ members[p] \subseteq Source
      BY <2>5 DEF ProfilesOf, TypeOK
    <3>2. members'[p] = members[p] /\ \A x \in members[p] : ver'[x] = ver[x]
      BY <2>1, <3>1 DEF TypeOK
    <3> QED
      BY <1>3, <2>1, <3>2 DEF RowKept
  <2>6. \A p \in Profile : EntrySettled(p)
    BY <2>2, <2>4, <2>5 DEF EntrySettled
  <2>7. ASSUME NEW r \in Reader, Loading(r)' PROVE LoadSettled(r)
    <3>1. Loading(r) /\ LoadKept(r)
      BY <2>2, <2>7 DEF LoadKept, Loading
    <3>2. PICK p \in Profile : reader[r].prof = p
      BY <3>1 DEF Loading, HandlerInv
    <3>3. CASE p \in P
      BY <2>2, <3>1, <3>2, <3>3 DEF LoadSettled
    <3>4. CASE p \in writer[w].list
      BY <2>4, <3>1, <3>2, <3>4 DEF LoadSettled, LoadKept
    <3>5. CASE p \notin ProfilesOf(s)
      BY <2>5, <3>1, <3>2, <3>5 DEF LoadSettled
    <3> QED
      BY <3>3, <3>4, <3>5
  <2> QED
    BY <2>6, <2>7, Settled DEF LoadSettled
<1> QED
  BY <1>4, <1>5

(***************************************************************************)
(* A listing that fails marks the stale entries of the profiles that were  *)
(* to be invalidated, and the loads of these.                              *)
(***************************************************************************)
LEMMA ListFailsKeeps ==
  ASSUME TypeOK, HandlerInv, LoadInv, StaleIsExplained,
         NEW w \in Writer, ListFails(w)
  PROVE  LoadInv' /\ StaleIsExplained'
<1> DEFINE P == ProfilesOf(writer[w].src)
           E == {p \in P : cache[p] # NoEntry /\ ~ Current(p)}
           R == {r \in Reader : Loading(r) /\ reader[r].prof \in P}
<1>1. /\ writer[w].at = "list" /\ UNCHANGED dbVars
      /\ cache' = ExcuseEntries(E) /\ reader' = ExcuseLoads(R)
      /\ \A v \in Writer \ {w} : writer'[v] = writer[v]
  BY DEF ListFails, Finish, TypeOK
<1>2. \A p \in Profile : RowKept(p)
  BY <1>1, Untouched DEF dbVars
<1>3. \A p \in Profile \ P : PendingKept(p)
  BY <1>1 DEF PendingKept, Pending, ProfilesOf, dbVars
<1>f. \A p \in P : cache[p] # NoEntry /\ ~ Current(p) => p \in E
  OBVIOUS
<1>r. \A r \in Reader : Loading(r) /\ reader[r].prof \in P => r \in R
  OBVIOUS
<1> HIDE DEF P, E, R
<1>4. \A p \in Profile : \/ cache'[p] = NoEntry
                         \/ EntryKept(p) /\ (p \in E => cache'[p].excused)
  BY <1>1, Excused
<1>5. \A r \in Reader : LoadKept(r) /\ (r \in R => reader'[r].excused)
  BY <1>1, Excused
<1>6. ASSUME NEW p \in Profile, cache'[p] # NoEntry, ~ Current(p)'
      PROVE  cache'[p].excused \/ Pending(p)'
  <2>1. EntryKept(p) /\ (p \in E => cache'[p].excused)
    BY <1>4, <1>6
  <2>2. cache[p] # NoEntry /\ ~ Current(p)
    BY <1>2, <1>6, <2>1 DEF EntryKept, RowKept, Current
  <2>3. CASE p \in P
    BY <1>f, <2>1, <2>2, <2>3
  <2>4. CASE p \notin P
    BY <1>3, <2>1, <2>2, <2>4 DEF StaleIsExplained, EntryKept, PendingKept
  <2> QED
    BY <2>3, <2>4
<1>7. ASSUME NEW r \in Reader, Loading(r)' PROVE LoadSettled(r)
  <2>1. Loading(r) /\ LoadKept(r)
    BY <1>5, <1>7 DEF LoadKept, Loading
  <2>2. PICK p \in Profile : reader[r].prof = p
    BY <2>1 DEF Loading, HandlerInv
  <2>3. CASE p \in P
    BY <1>5, <1>r, <2>1, <2>2, <2>3 DEF LoadSettled
  <2>4. CASE p \notin P
    BY <1>2, <1>3, <2>1, <2>2, <2>4 DEF LoadSettled
  <2> QED
    BY <2>3, <2>4
<1> QED
  BY <1>6, <1>7, Settled DEF LoadSettled, StaleIsExplained

(***************************************************************************)
(* What a management request does after its writes, or before them.        *)
(***************************************************************************)
LEMMA WriterStepKeeps ==
  ASSUME TypeOK, HandlerInv, LoadInv, StaleIsExplained,
         NEW w \in Writer, WriterStep(w)
  PROVE  LoadInv' /\ StaleIsExplained'
<1>0. writer \in [Writer -> Change] /\ writer[w] \in Change
  BY DEF TypeOK
<1>1. CASE ListProfiles(w)
  <2>1. /\ writer[w].at = "list" /\ writer'[w].at = "drop"
        /\ writer'[w].list = ProfilesOf(writer[w].src)
        /\ \A v \in Writer \ {w} : writer'[v] = writer[v]
    BY <1>0, <1>1 DEF ListProfiles, Change
  <2>2. \A p : PendingKept(p)
    <3>1. UNCHANGED members
      BY <1>1 DEF ListProfiles, dbVars
    <3> QED
      BY <2>1, <3>1 DEF PendingKept, Pending, ProfilesOf
  <2> QED
    BY <1>1, <2>2, Untouched, AnnouncedKeeps DEF ListProfiles, dbVars
<1>2. CASE DropEntries(w)
  <2>1. /\ writer[w].at = "drop" /\ UNCHANGED dbVars
        /\ Invalidate(writer[w].list)
        /\ \A v \in Writer \ {w} : writer'[v] = writer[v]
    BY <1>0, <1>2 DEF DropEntries, Finish
  <2>2. \A p \in Profile \ writer[w].list : PendingKept(p)
    BY <2>1 DEF PendingKept, Pending, ProfilesOf, dbVars
  <2> QED
    BY <2>1, <2>2, InvalidateKeeps DEF dbVars
<1>3. CASE DeleteSource(w)
  BY <1>3, DeleteSourceKeeps
<1>4. CASE OpenProfileRefresh(w)
  <2>1. /\ writer[w].at = "open" /\ UNCHANGED dbVars
        /\ Invalidate({writer[w].prof})
        /\ \A v \in Writer \ {w} : writer'[v] = writer[v]
    BY <1>0, <1>4 DEF OpenProfileRefresh
  <2>2. \A p : PendingKept(p)
    BY <2>1, Untouched DEF dbVars
  <2> QED
    BY <2>1, <2>2, InvalidateKeeps DEF dbVars
<1>5. CASE WalkProfileRefresh(w)
  <2>1. /\ writer[w].at = "walk" /\ UNCHANGED members
        /\ \A v \in Writer \ {w} : writer'[v] = writer[v]
    BY <1>0, <1>5 DEF WalkProfileRefresh, QuietWrite, Finish, dbVars
  <2>2. \A p : PendingKept(p)
    BY <2>1, Untouched
  <2>3. ASSUME NEW s \in writer[w].todo, QuietWrite(s)
        PROVE  LoadInv' /\ StaleIsExplained'
    <3>1. s \in Source
      BY <1>0 DEF Change
    <3> QED
      BY <2>2, <2>3, <3>1, QuietWriteKeeps
  <2>4. CASE UNCHANGED <<cache, reader>> /\ UNCHANGED dbVars
    BY <2>2, <2>4, Untouched, AnnouncedKeeps DEF dbVars
  <2> QED
    BY <1>5, <2>3, <2>4 DEF WalkProfileRefresh
<1>6. CASE ListFails(w)
  BY <1>6, ListFailsKeeps
<1> QED
  BY <1>1, <1>2, <1>3, <1>4, <1>5, <1>6 DEF WriterStep

(***************************************************************************)
(* Every step keeps loads and entries explained.                           *)
(***************************************************************************)
LEMMA StaleStep ==
  /\ TypeOK /\ HandlerInv /\ LoadInv /\ StaleIsExplained
  /\ [Next]_vars
  => LoadInv' /\ StaleIsExplained'
<1> DEFINE Goal == LoadInv' /\ StaleIsExplained'
<1> SUFFICES ASSUME TypeOK, HandlerInv, LoadInv, StaleIsExplained, [Next]_vars
             PROVE  Goal
  OBVIOUS
<1>0. /\ ver \in [Source -> Nat] /\ members \in [Profile -> SUBSET Source]
      /\ prof \in [Profile -> {"absent", "live", "deleted"}]
      /\ cache \in [Profile -> Entry \cup {NoEntry}]
      /\ writer \in [Writer -> Change]
  BY DEF TypeOK
<1>1. ASSUME NEW r \in Reader, NEW p \in Profile, Authorize(r, p) PROVE Goal
  BY <1>1, ReaderStepKeeps
<1>2. ASSUME NEW r \in Reader, ReaderStep(r) PROVE Goal
  BY <1>2, ReaderStepKeeps
<1>3. ASSUME NEW p \in Profile, NEW S \in SUBSET Source, CreateProfile(p, S)
      PROVE  Goal
  BY <1>3, CreateKeeps
<1>4. ASSUME NEW w \in Writer, NEW p \in Profile, writer[w].at = "idle",
             UNCHANGED <<ver, cache, reader>>,
             \A q \in Profile \ {p} : prof'[q] = prof[q]
                                      /\ members'[q] = members[q],
             writer' = [writer EXCEPT ![w].at = "drop", ![w].list = {p}]
      PROVE  Goal
  <2>1. \A v \in Writer \ {w} : writer'[v] = writer[v]
    BY <1>0, <1>4
  <2>2. writer'[w].at = "drop" /\ writer'[w].list = {p}
    BY <1>0, <1>4 DEF Change
  <2>3. Pending(p)'
    BY <2>2 DEF Pending
  <2>4. ASSUME NEW q \in Profile \ {p} PROVE RowKept(q) /\ PendingKept(q)
    BY <1>4, <2>1, Untouched DEF RowKept
  <2> QED
    BY <1>4, <2>3, <2>4, AnnouncedKeeps
<1>5. ASSUME NEW w \in Writer, NEW p \in Profile, NEW S \in SUBSET Source,
             UpdateProfile(w, p, S)
      PROVE  Goal
  BY <1>0, <1>4, <1>5 DEF UpdateProfile
<1>6. ASSUME NEW w \in Writer, NEW p \in Profile, DeleteProfile(w, p)
      PROVE  Goal
  BY <1>0, <1>4, <1>6 DEF DeleteProfile
<1>7. ASSUME NEW w \in Writer, writer[w].at = "idle",
             UNCHANGED <<cache, reader>>, UNCHANGED dbVars,
             \A v \in Writer \ {w} : writer'[v] = writer[v]
      PROVE  Goal
  <2>1. \A p : RowKept(p) /\ PendingKept(p)
    BY <1>7, Untouched DEF dbVars
  <2> QED
    BY <1>7, <2>1, AnnouncedKeeps
<1>8. ASSUME NEW w \in Writer, NEW p \in Profile, StartProfileRefresh(w, p)
      PROVE  Goal
  BY <1>0, <1>7, <1>8 DEF StartProfileRefresh
<1>9. ASSUME NEW w \in Writer, NEW s \in Source, ListForDelete(w, s)
      PROVE  Goal
  BY <1>0, <1>7, <1>9 DEF ListForDelete
<1>10. ASSUME NEW w \in Writer, NEW s \in Source, RefreshWrite(w, s)
       PROVE  Goal
  <2>1. /\ writer[w].at = "idle" /\ UNCHANGED <<prof, members, cache, reader>>
        /\ \A v \in Writer \ {w} : writer'[v] = writer[v]
        /\ \A x \in Source \ {s} : ver'[x] = ver[x]
    BY <1>0, <1>10 DEF RefreshWrite
  <2>2. writer'[w].at = "list" /\ writer'[w].src = s
    BY <1>0, <1>10 DEF RefreshWrite, Change
  <2>3. ASSUME NEW p \in Profile, s \in members[p] PROVE Pending(p)'
    BY <2>1, <2>2, <2>3 DEF Pending, ProfilesOf
  <2>4. ASSUME NEW p \in Profile, s \notin members[p]
        PROVE  RowKept(p) /\ PendingKept(p)
    <3>1. members[p] \subseteq Source
      BY <1>0
    <3> QED
      BY <2>1, <2>4, <3>1, Untouched DEF RowKept
  <2> QED
    BY <2>1, <2>3, <2>4, AnnouncedKeeps
<1>11. ASSUME NEW w \in Writer, WriterStep(w) PROVE Goal
  BY <1>11, WriterStepKeeps
<1>12. ASSUME NEW s \in Source, AbandonedRefresh(s) PROVE Goal
  <2>1. \A p : PendingKept(p)
    BY <1>12, Untouched DEF AbandonedRefresh, QuietWrite
  <2> QED
    BY <1>12, <2>1, QuietWriteKeeps DEF AbandonedRefresh
<1>13. CASE Tick
  <2>1. UNCHANGED <<prof, members, ver, reader, writer>>
    BY <1>13 DEF Tick, dbVars
  <2>2. \A p : RowKept(p) /\ PendingKept(p)
    BY <2>1, Untouched
  <2>3. ASSUME NEW p \in Profile PROVE cache'[p] = NoEntry \/ EntryKept(p)
    <3>1. CASE Fresh(p)
      <4>1. cache[p] \in Entry /\ cache[p] # NoEntry
        BY <1>0, <3>1 DEF Fresh
      <4>2. cache'[p] = [cache[p] EXCEPT !.age = @ + 1]
        BY <1>13, <3>1 DEF Tick
      <4> QED
        BY <4>1, <4>2 DEF EntryKept, Entry
    <3>2. CASE ~ Fresh(p)
      BY <1>13, <3>2, Untouched DEF Tick
    <3> QED
      BY <3>1, <3>2
  <2>4. \A p \in Profile : EntrySettled(p)
    BY <2>2, <2>3 DEF EntrySettled
  <2>5. ASSUME NEW r \in Reader, Loading(r)' PROVE LoadSettled(r)
    <3>1. LoadKept(r) /\ reader[r].prof \in Profile
      BY <2>1, <2>5, Untouched DEF Loading, HandlerInv
    <3> QED
      BY <2>2, <3>1 DEF LoadSettled
  <2> QED
    BY <2>4, <2>5, Settled DEF LoadSettled
<1>14. CASE UNCHANGED vars
  <2>1. \A p : RowKept(p) /\ PendingKept(p)
    BY <1>14, Untouched DEF vars
  <2> QED
    BY <1>14, <2>1, AnnouncedKeeps DEF vars
<1> QED
  BY <1>1, <1>2, <1>3, <1>5, <1>6, <1>8, <1>9, <1>10, <1>11, <1>12, <1>13,
     <1>14
  DEF Next

(***************************************************************************)
(* Invalidation works, for any number of requests of either kind: an entry *)
(* that differs from the database is about to be invalidated, or one of    *)
(* the four things has happened that the code leaves to the TTL.           *)
(***************************************************************************)
THEOREM StaleIsExplainedHolds == Spec => []StaleIsExplained
BY TypeInit, TypeStep, HandlerStep, StaleInit, StaleStep, PTL DEF Spec
============================================================================
