---------------------------- MODULE ExportTokens ----------------------------
(***************************************************************************)
(* The read-only export tokens of profiles: creation with the profile      *)
(* (handlers/profiles/write.rs), rotation with a grace window through the  *)
(* API (engine.rs rotate_profile_export_token, handlers/profiles/          *)
(* tokens.rs), the token of a headless profile at start-up (apps/core/src/ *)
(* headless/token.rs), validation of a request (export_token_repo.rs       *)
(* is_valid_token), and the cascade when a profile is deleted.             *)
(*                                                                         *)
(* Time runs in half seconds.  Timestamps are stored and compared as       *)
(* RFC 3339 text, whose fraction is left out when it is zero.              *)
(***************************************************************************)
EXTENDS Integers, FiniteSets

CONSTANTS
  Profile,     \* profile ids
  Token,       \* token strings
  Request,     \* concurrent rotation requests
  NoProfile,   \* "no row" for a token, "no profile" for the headless name
  Configurations,  \* the headless configurations considered: the profile's
                   \* export_token, or NoToken when it is left out
  NoToken,
  Never,       \* expires_at IS NULL
  Grace,       \* grace window of an API rotation, in half seconds
  MaxTime      \* the model's bound on the clock

ASSUME NoProfileAssumption == NoProfile \notin Profile
ASSUME ConfigurationsAssumption == Configurations \subseteq Token \cup {NoToken}
ASSUME NoTokenAssumption == NoToken \notin Token
ASSUME GraceAssumption == Grace \in Nat /\ Grace > 0 /\ Grace % 2 = 0
ASSUME NeverAssumption == Never \notin Int
ASSUME MaxTimeAssumption == MaxTime \in Nat

Stages == {"down", "profile", "token", "up", "refused"}
ProfileStates == {"absent", "live", "deleted"}

VARIABLES
  configured, \* the configuration file, the same at every start
  now,       \* the clock
  stage,     \* the core: down, in one of two boot steps, serving, or a
             \* start that ended with an error
  prof,      \* profiles: absent, live or deleted; an id is not used twice
  named,     \* the profile that carries the headless profile's name
  owner,     \* export_tokens: the profile of a token (token is UNIQUE)
  expires,   \* export_tokens: expires_at
  issued,    \* random tokens drawn so far; none is drawn twice
  rot,       \* a rotation request between its reads and its transaction
  promised   \* the previous_token_expires_at a response gave for a token

vars == <<configured, now, stage, prof, named, owner, expires, issued, rot,
          promised>>

Idle == [profile |-> NoProfile, token |-> NoToken, at |-> 0]

Init ==
  /\ configured \in Configurations
  /\ now = 0
  /\ stage = "down"
  /\ prof = [p \in Profile |-> "absent"]
  /\ named = NoProfile
  /\ owner = [t \in Token |-> NoProfile]
  /\ expires = [t \in Token |-> Never]
  /\ issued = {}
  /\ rot = [r \in Request |-> Idle]
  /\ promised = [t \in Token |-> Never]

----------------------------------------------------------------------------
(* Timestamps as text.                                                     *)

Second(a) == a \div 2

(***************************************************************************)
(* "...:07Z" against "...:07.5Z": '.' sorts before 'Z', so within a second *)
(* the later moment is the smaller text.                                   *)
(***************************************************************************)
TextBefore(a, b) ==
  \/ Second(a) < Second(b)
  \/ Second(a) = Second(b) /\ a % 2 = 1 /\ b % 2 = 0

(***************************************************************************)
(* is_valid_token at time n.                                               *)
(***************************************************************************)
IsValid(p, t, n) ==
  /\ owner[t] = p
  /\ expires[t] = Never \/ TextBefore(n, expires[t])

(***************************************************************************)
(* get_active_token: the rows without an expiry.                           *)
(***************************************************************************)
Active(p) == {t \in Token : owner[t] = p /\ expires[t] = Never}

(***************************************************************************)
(* Mutants.  Each stands for a plausible bug of the definition after it    *)
(* and is used by no definition.  Here: tokens drawn from a small space,   *)
(* so that one that is not in use now may be drawn again.                  *)
(***************************************************************************)
FreshNow == {t \in Token : owner[t] = NoProfile} \ {configured}

(***************************************************************************)
(* generate_secure_token: 32 random bytes, so never a token in use.        *)
(***************************************************************************)
Fresh == Token \ (issued \cup {configured})

(***************************************************************************)
(* The model's bound: requests leave a profile id and a token to the start *)
(* that follows, so that running out of them is never why it fails.        *)
(***************************************************************************)
Unused == {p \in Profile : prof[p] = "absent"}
IdsLeft(n) == Cardinality(Unused) >= n
TokensLeft(n) == Cardinality(Fresh) >= n

(***************************************************************************)
(* INSERT of a token without expiry: the token is UNIQUE and the profile a *)
(* foreign key.                                                            *)
(***************************************************************************)
CanInsert(p, t) == owner[t] = NoProfile /\ prof[p] = "live"

InsertToken(p, t) ==
  /\ CanInsert(p, t)
  /\ owner' = [owner EXCEPT ![t] = p]
  /\ expires' = [expires EXCEPT ![t] = Never]

(***************************************************************************)
(* Mutant: the UPDATE loses its "expires_at IS NULL" and moves the         *)
(* deadline of every row.                                                  *)
(***************************************************************************)
RetiredAll(p, grace) ==
  [t \in Token |-> IF owner[t] = p THEN grace ELSE expires[t]]

(***************************************************************************)
(* rotate_primary_token_with_grace, one transaction: every row without an  *)
(* expiry gets one, the new row is inserted, and the rows that are expired *)
(* at the caller's time are deleted.                                       *)
(***************************************************************************)
Retired(p, grace) ==
  [t \in Token |-> IF t \in Active(p) THEN grace ELSE expires[t]]

Expired(p, grace, at) ==
  {t \in Token : /\ owner[t] = p
                 /\ Retired(p, grace)[t] # Never
                 /\ ~ TextBefore(at, Retired(p, grace)[t])}

RotatePrimary(p, new, grace, at) ==
  /\ CanInsert(p, new)
  /\ owner' = [t \in Token |-> IF t = new THEN p
                               ELSE IF t \in Expired(p, grace, at)
                                    THEN NoProfile ELSE owner[t]]
  /\ expires' = [t \in Token |->
                   IF t = new \/ t \in Expired(p, grace, at) THEN Never
                   ELSE Retired(p, grace)[t]]

----------------------------------------------------------------------------
(* The API.                                                                *)

(***************************************************************************)
(* create_profile: row and token in one transaction.  The name is one that *)
(* no profile has: a headless start refuses a database with two alike.     *)
(***************************************************************************)
CreateProfile(p, t) ==
  /\ stage = "up"
  /\ p \in Unused /\ t \in Fresh
  /\ IdsLeft(2) /\ TokensLeft(2)
  /\ prof' = [prof EXCEPT ![p] = "live"]
  /\ owner' = [owner EXCEPT ![t] = p]
  /\ expires' = [expires EXCEPT ![t] = Never]
  /\ issued' = issued \cup {t}
  /\ UNCHANGED <<configured, now, stage, named, rot, promised>>

(***************************************************************************)
(* The rotation handler: the profile is looked up, the clock read and the  *)
(* token drawn before the transaction starts.                              *)
(***************************************************************************)
StartRotation(r, p, t) ==
  /\ stage = "up"
  /\ rot[r] = Idle
  /\ prof[p] = "live" /\ t \in Fresh
  /\ TokensLeft(2)
  /\ rot' = [rot EXCEPT ![r] = [profile |-> p, token |-> t, at |-> now]]
  /\ issued' = issued \cup {t}
  /\ UNCHANGED <<configured, now, stage, prof, named, owner, expires, promised>>

(***************************************************************************)
(* The transaction, and the response that names the old token's deadline;  *)
(* a profile deleted meanwhile makes the insert fail.                      *)
(***************************************************************************)
CommitRotation(r) ==
  /\ rot[r] # Idle
  /\ LET p == rot[r].profile
         grace == rot[r].at + Grace
     IN \/ /\ RotatePrimary(p, rot[r].token, grace, rot[r].at)
           /\ promised' = [t \in Token |->
                             IF t = rot[r].token THEN Never
                             ELSE IF t \in Active(p) THEN grace
                             ELSE promised[t]]
        \/ ~ CanInsert(p, rot[r].token) /\ UNCHANGED <<owner, expires, promised>>
  /\ rot' = [rot EXCEPT ![r] = Idle]
  /\ UNCHANGED <<configured, now, stage, prof, named, issued>>

(***************************************************************************)
(* Mutant: a soft delete, a state the readers of the table do not know.    *)
(***************************************************************************)
ArchiveProfile(p) ==
  /\ stage = "up"
  /\ prof[p] = "live"
  /\ prof' = [prof EXCEPT ![p] = "archived"]
  /\ UNCHANGED <<configured, now, stage, named, owner, expires, issued, rot, promised>>

(***************************************************************************)
(* delete_profile: ON DELETE CASCADE takes the profile's tokens.           *)
(***************************************************************************)
DeleteProfile(p) ==
  /\ stage = "up"
  /\ prof[p] = "live"
  /\ named = p => IdsLeft(1) /\ TokensLeft(1)
  /\ prof' = [prof EXCEPT ![p] = "deleted"]
  /\ named' = IF named = p THEN NoProfile ELSE named
  /\ owner' = [t \in Token |-> IF owner[t] = p THEN NoProfile ELSE owner[t]]
  /\ expires' = [t \in Token |-> IF owner[t] = p THEN Never ELSE expires[t]]
  /\ promised' = [t \in Token |-> IF owner[t] = p THEN Never ELSE promised[t]]
  /\ UNCHANGED <<configured, now, stage, issued, rot>>

----------------------------------------------------------------------------
(* The process: a headless start applies its profile, then its token.      *)

Crash ==
  /\ stage \notin {"down", "refused"}
  /\ stage' = "down"
  /\ rot' = [r \in Request |-> Idle]
  /\ UNCHANGED <<configured, now, prof, named, owner, expires, issued, promised>>

Restart ==
  /\ stage \in {"down", "refused"}
  /\ stage' = "profile"
  /\ UNCHANGED <<configured, now, prof, named, owner, expires, issued, rot, promised>>

(***************************************************************************)
(* apply_profiles: the profile of that name is updated, or inserted; its   *)
(* token comes in a statement of its own.                                  *)
(***************************************************************************)
BootProfile ==
  /\ stage = "profile"
  /\ stage' = "token"
  /\ \/ named # NoProfile /\ UNCHANGED <<prof, named>>
     \/ /\ named = NoProfile
        /\ \E p \in Unused :
             named' = p /\ prof' = [prof EXCEPT ![p] = "live"]
  /\ UNCHANGED <<configured, now, owner, expires, issued, rot, promised>>

(***************************************************************************)
(* Mutants: the configured token is inserted beside the active one; a      *)
(* profile that has lost its token is an error.                            *)
(***************************************************************************)
BootTokenBeside ==
  /\ stage = "token"
  /\ stage' = "up"
  /\ configured # NoToken /\ InsertToken(named, configured)
  /\ UNCHANGED <<configured, now, prof, named, issued, rot, promised>>

BootTokenStrict ==
  /\ stage = "token"
  /\ stage' = IF Active(named) # {} THEN "up" ELSE "refused"
  /\ UNCHANGED <<configured, now, prof, named, owner, expires, issued, rot, promised>>

(***************************************************************************)
(* ensure_export_token.  A configured token that is the active one stays;  *)
(* another active token is rotated out with an immediate deadline; with no *)
(* active token the configured or a random one is inserted.  An error      *)
(* (here: the UNIQUE constraint) ends the process.                         *)
(***************************************************************************)
BootToken ==
  /\ stage = "token"
  /\ \/ /\ configured = NoToken
        /\ \/ Active(named) # {} /\ UNCHANGED <<owner, expires, issued>>
           \/ /\ Active(named) = {}
              /\ \E t \in Fresh : InsertToken(named, t)
                                  /\ issued' = issued \cup {t}
        /\ stage' = "up"
     \/ /\ configured # NoToken
        /\ \/ /\ configured \in Active(named)
              /\ UNCHANGED <<owner, expires>>
              /\ stage' = "up"
           \/ /\ Active(named) \notin {{}, {configured}}
              /\ RotatePrimary(named, configured, now, now)
              /\ stage' = "up"
           \/ /\ Active(named) = {}
              /\ InsertToken(named, configured)
              /\ stage' = "up"
           \/ /\ configured \notin Active(named)
              /\ ~ CanInsert(named, configured)
              /\ UNCHANGED <<owner, expires>>
              /\ stage' = "refused"
        /\ UNCHANGED issued
  /\ UNCHANGED <<configured, now, prof, named, rot, promised>>

Tick ==
  /\ now < MaxTime
  /\ now' = now + 1
  /\ UNCHANGED <<configured, stage, prof, named, owner, expires, issued, rot, promised>>

----------------------------------------------------------------------------
Next ==
  \/ \E p \in Profile, t \in Token : CreateProfile(p, t)
  \/ \E r \in Request, p \in Profile, t \in Token : StartRotation(r, p, t)
  \/ \E r \in Request : CommitRotation(r)
  \/ \E p \in Profile : DeleteProfile(p)
  \/ Crash \/ Restart \/ BootProfile \/ BootToken \/ Tick

Spec == Init /\ [][Next]_vars

(***************************************************************************)
(* Fairness: a request that was received is served, and a service manager  *)
(* starts the core again.                                                  *)
(***************************************************************************)
FairSpec ==
  /\ Spec
  /\ \A r \in Request : WF_vars(CommitRotation(r))
  /\ WF_vars(Restart) /\ WF_vars(BootProfile) /\ WF_vars(BootToken)

----------------------------------------------------------------------------
TypeOK ==
  /\ configured \in Configurations
  /\ now \in Nat
  /\ stage \in Stages
  /\ prof \in [Profile -> ProfileStates]
  /\ named \in Profile \cup {NoProfile}
  /\ owner \in [Token -> Profile \cup {NoProfile}]
  /\ expires \in [Token -> Int \cup {Never}]
  /\ issued \subseteq Token
  /\ rot \in [Request -> [profile : Profile \cup {NoProfile},
                          token : Token \cup {NoToken}, at : Nat]]
  /\ promised \in [Token -> Int \cup {Never}]

(***************************************************************************)
(* While the core serves, every profile has exactly one primary token:     *)
(* get_active_token's ORDER BY never has to choose, and no profile is left *)
(* without a link, although rotations race and a headless start inserts    *)
(* the profile and its token in two statements.                            *)
(***************************************************************************)
OnePrimary ==
  /\ \A p \in Profile : \A t, u \in Active(p) : t = u
  /\ stage = "up" => \A p \in Profile : prof[p] = "live" => Active(p) # {}

(***************************************************************************)
(* The grace window is kept (engine.rs, rotate_profile_export_token), to   *)
(* within the second that text comparison may cost.  A token that a        *)
(* rotation replaced is accepted until the deadline the response gave,     *)
(* whatever rotations and restarts follow, unless its profile is deleted;  *)
(* and it ends: a replaced random token never gets a later deadline and is *)
(* refused a second after the first at the latest.  (A start may make the  *)
(* configured token primary again.)                                        *)
(***************************************************************************)
GraceExact ==
  \A t \in Token : promised[t] # Never =>
    /\ now + 2 <= promised[t] =>
         owner[t] # NoProfile /\ IsValid(owner[t], t, now)
    /\ t # configured =>
         /\ expires[t] \in {Never, promised[t]}
         /\ now >= promised[t] + 2 => \A p \in Profile : ~ IsValid(p, t, now)

(***************************************************************************)
(* A random token belongs to one profile for life: no rotation, restart or *)
(* deletion ever moves a link to another profile, and a token that was     *)
(* removed does not come back.                                             *)
(***************************************************************************)
TokenNeverMoves ==
  [][\A t \in Token \ {configured} :
       owner'[t] # owner[t] => owner'[t] = NoProfile \/ t \notin issued
                               \/ \E r \in Request : rot[r].token = t]_vars

(***************************************************************************)
(* The core comes up again after every crash, once the crashes stop, when  *)
(* the configuration leaves the token to the system (headless/token.rs)    *)
(* and no two profiles have one name.                                      *)
(***************************************************************************)
StartsAgain ==
  configured = NoToken /\ <>[][~ Crash]_vars =>
    (stage = "down" ~> stage = "up")

(***************************************************************************)
(* apps/core/src/tests/headless_runtime.rs asserts that a headless start   *)
(* leaves the configured export_token as the profile's active token: the   *)
(* step that ends the start always does.                                   *)
(***************************************************************************)
ConfiguredTokenActive ==
  [][configured # NoToken
       /\ stage = "token" /\ stage' \in {"up", "refused"} =>
       stage' = "up" /\ Active(named)' = {configured}]_vars
=============================================================================
