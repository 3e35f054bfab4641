------------------------------ MODULE Session ------------------------------
(***************************************************************************)
(* One phone's session: AuthProvider in memory, SharedPreferences on disk, *)
(* and the account handlers of the backend.  Dart runs one callback at a   *)
(* time, up to its next await; a write to disk goes through the plugin's   *)
(* channel, first come first served, and its callback issues the next one. *)
(* The process may be killed at any moment: memory, requests and writes    *)
(* still in the channel are gone, the disk stays.                          *)
(***************************************************************************)
EXTENDS Naturals, Sequences, TLC

CONSTANTS
  Null,
  Users,        \* people who use this phone, one account each
  TokenLife,    \* how long a token is valid
  MaxTime,      \* bound: the clock stops there
  MaxVersion,   \* bound: the versions of one profile
  MaxKills      \* bound: how often the app is killed

ASSUME BoundAssumption ==
  TokenLife \in Nat /\ MaxTime \in Nat /\ MaxVersion \in Nat /\ MaxKills \in Nat

VARIABLES
  accounts,   \* rows of the users table
  profile,    \* users.profile_image_url, phone_number, address: a version
  now,        \* the server's clock
  app,        \* off, booting (the spinner of AuthWrapper) or on
  token,      \* _token
  user,       \* _currentUser
  disk,       \* jwt_token and user_data in SharedPreferences
  channel,    \* writes on their way to the disk
  form,       \* the login or register request; isLoading while there is one
  screen,     \* a form is up, with the request's answer still due to it or not
  sync,       \* _syncUserSilently
  update,     \* updateProfile
  kills,      \* how often the app was killed
  signedOut,  \* a logout has removed the token, and nobody logged in since
  replacing,  \* on disk a login's token took another's place, its user not yet
  crossed     \* a request or a write has outlived the session it belongs to

server == <<accounts, profile, now>>
memory == <<token, user>>
forms  == <<form, screen>>
past   == <<kills, signedOut, replacing, crossed>>
vars   == <<server, app, memory, disk, channel, forms, sync, update, past>>

Versions == 0..MaxVersion
Token    == [owner: Users, at: 0..MaxTime]
Data     == [id: Users, version: Versions]

ASSUME NullAssumption == Null \notin Token /\ Null \notin Data

Writers  == {"boot", "login", "logout", "sync", "update"}
Write    == [by: Writers, key: {"token"}, value: Token \cup {Null}]
              \cup [by: Writers, key: {"user"}, value: Data \cup {Null}]

Idle == [step |-> "idle"]
Form ==
  {Idle}
    \cup [step: {"sent", "refused"}, kind: {"login", "register"}, who: Users]
    \cup [step: {"answered"}, kind: {"register"}, who: Users]
    \cup [step: {"answered", "saving"}, kind: {"login"}, token: Token, data: Data]
Sync ==
  {Idle}
    \cup [step: {"sent", "refused", "saving"}, token: Token]
    \cup [step: {"answered"}, token: Token, data: Data]
Update ==
  {Idle} \cup [step: {"sent", "answered", "refused", "saving"},
               token: Token, version: Versions]

Valid(t)  == now - t.at < TokenLife
Me(u)     == [id |-> u, version |-> profile[u]]
Put(w)    == channel' = Append(channel, w)

SetToken(by, v) == [by |-> by, key |-> "token", value |-> v]
SetUser(by, v)  == [by |-> by, key |-> "user", value |-> v]

-----------------------------------------------------------------------------
(* What the backend answers.                                               *)

(* Register inserts a row unless the email has one, and answers alike.     *)
HandleRegister ==
  /\ form.step = "sent" /\ form.kind = "register"
  /\ accounts' = accounts \cup {form.who}
  /\ form' = [form EXCEPT !.step = "answered"]
  /\ UNCHANGED <<profile, now, app, memory, disk, channel, screen, sync, update, past>>

(* Login: refused without an account or with a wrong password.             *)
HandleLogin ==
  /\ form.step = "sent" /\ form.kind = "login"
  /\ \/ form' = [form EXCEPT !.step = "refused"]
     \/ /\ form.who \in accounts
        /\ form' = [step |-> "answered", kind |-> "login", data |-> Me(form.who),
                    token |-> [owner |-> form.who, at |-> now]]
  /\ UNCHANGED <<server, app, memory, disk, channel, screen, sync, update, past>>

(* GetMe: the row of the token's owner, or 401.                            *)
HandleGetMe ==
  /\ sync.step = "sent"
  /\ sync' = IF Valid(sync.token)
             THEN [step |-> "answered", token |-> sync.token,
                   data |-> Me(sync.token.owner)]
             ELSE [sync EXCEPT !.step = "refused"]
  /\ UNCHANGED <<server, app, memory, disk, channel, forms, update, past>>

HandleUpdateProfile ==
  /\ update.step = "sent"
  /\ IF Valid(update.token)
     THEN /\ profile' = [profile EXCEPT ![update.token.owner] = update.version]
          /\ update' = [update EXCEPT !.step = "answered"]
     ELSE /\ update' = [update EXCEPT !.step = "refused"]
          /\ UNCHANGED profile
  /\ UNCHANGED <<accounts, now, app, memory, disk, channel, forms, sync, past>>

(* The profile is changed from another device.                             *)
ChangeElsewhere(u) ==
  /\ u \in accounts /\ profile[u] < MaxVersion
  /\ profile' = [profile EXCEPT ![u] = @ + 1]
  /\ UNCHANGED <<accounts, now, app, memory, disk, channel, forms, sync, update,
                 past>>

Tick ==
  /\ now < MaxTime
  /\ now' = now + 1
  /\ UNCHANGED <<accounts, profile, app, memory, disk, channel, forms, sync,
                 update, past>>

-----------------------------------------------------------------------------
(* The forms, login and register alike: over the screens, or not at all.   *)

(* Every screen offers the form to who is not fully signed in.             *)
OpenLogin ==
  /\ app = "on" /\ screen = "main" /\ (token = Null \/ user = Null)
  /\ screen' = "login"
  /\ UNCHANGED <<server, app, memory, disk, channel, form, sync, update, past>>

(* The back button: the request that the form has sent goes on without it. *)
Back ==
  /\ screen # "main"
  /\ screen' = "main"
  /\ UNCHANGED <<server, app, memory, disk, channel, form, sync, update, past>>

(* The button is off while isLoading, also for the request of an earlier   *)
(* form; who has been logged in by that request may submit another.        *)
Submit(u, kind) ==
  /\ screen = "login" /\ form = Idle
  /\ form' = [step |-> "sent", kind |-> kind, who |-> u]
  /\ screen' = "waiting"
  /\ UNCHANGED <<server, app, memory, disk, channel, sync, update, past>>

(* Mutant: login returns without awaiting its writes.                      *)
ApplyLogin_Unawaited ==
  /\ form.step = "answered" /\ form.kind = "login"
  /\ token' = form.token
  /\ user' = form.data
  /\ Put(SetToken("login", form.token))
  /\ form' = Idle /\ screen' = "main"
  /\ signedOut' = FALSE
  /\ crossed' = (crossed \/ channel # <<>> \/ sync # Idle \/ update # Idle)
  /\ UNCHANGED <<server, app, disk, sync, update, kills, replacing>>

(* 200: the token and the user, in memory at once, on disk one by one.     *)
ApplyLogin ==
  /\ form.step = "answered" /\ form.kind = "login"
  /\ token' = form.token
  /\ user' = form.data
  /\ Put(SetToken("login", form.token))
  /\ form' = [form EXCEPT !.step = "saving"]
  /\ signedOut' = FALSE
  /\ crossed' = (crossed \/ channel # <<>> \/ sync # Idle \/ update # Idle)
  /\ UNCHANGED <<server, app, disk, screen, sync, update, kills, replacing>>

(* The form that waits gets the answer, if it is still there.              *)
FormAnswered == screen' = IF screen = "waiting" THEN "login" ELSE screen

(* Registered, refused, or the connection fails.                           *)
FormEnds ==
  /\ form.step \in {"sent", "refused", "answered"}
  /\ form' = Idle
  /\ FormAnswered
  /\ UNCHANGED <<server, app, memory, disk, channel, sync, update, past>>

-----------------------------------------------------------------------------
(* Logout, from the profile screen, at start or on a 401.                  *)
Forget(by) ==
  /\ token' = Null
  /\ user' = Null
  /\ Put(SetToken(by, Null))

(* The profile screen is on and shows somebody, whose login may still be   *)
(* on its way to the disk.                                                 *)
SignedIn == app = "on" /\ screen = "main" /\ token # Null /\ user # Null

PressLogout ==
  /\ SignedIn
  /\ Forget("logout")
  /\ UNCHANGED <<server, app, disk, forms, sync, update, past>>

-----------------------------------------------------------------------------
(* The silent sync.                                                        *)

(* Mutant: the body of a 401 is taken for the user.                        *)
ApplySync_AnyStatus ==
  /\ sync.step \in {"answered", "refused"}
  /\ user' = IF sync.step = "answered" THEN sync.data
             ELSE [id |-> Null, version |-> 0]
  /\ Put(SetUser("sync", user'))
  /\ sync' = [step |-> "saving", token |-> sync.token]
  /\ crossed' = (crossed \/ sync.token # token)
  /\ UNCHANGED <<server, app, token, disk, forms, update, kills, signedOut, replacing>>

(* Mutant: the fresh data is shown and not saved.                          *)
ApplySync_Unsaved ==
  /\ sync.step = "answered"
  /\ user' = sync.data
  /\ sync' = Idle
  /\ crossed' = (crossed \/ sync.token # token)
  /\ UNCHANGED <<server, app, token, disk, channel, forms, update, kills,
                 signedOut, replacing>>

(* Mutant: the token, found valid, is saved again with the data.           *)
ApplySync_SavesToken ==
  /\ sync.step = "answered"
  /\ user' = sync.data
  /\ channel' = channel \o <<SetToken("update", sync.token),
                             SetUser("sync", sync.data)>>
  /\ sync' = [step |-> "saving", token |-> sync.token]
  /\ crossed' = (crossed \/ sync.token # token)
  /\ UNCHANGED <<server, app, token, disk, forms, update, kills, signedOut, replacing>>

(* 200: show and save the data, whoever is logged in by now.               *)
ApplySync ==
  /\ sync.step = "answered"
  /\ user' = sync.data
  /\ Put(SetUser("sync", sync.data))
  /\ sync' = [step |-> "saving", token |-> sync.token]
  /\ crossed' = (crossed \/ sync.token # token)
  /\ UNCHANGED <<server, app, token, disk, forms, update, kills, signedOut, replacing>>

(* 401: log out, whoever is logged in by now.                              *)
SyncLogsOut ==
  /\ sync.step = "refused"
  /\ Forget("sync")
  /\ sync' = [sync EXCEPT !.step = "saving"]
  /\ UNCHANGED <<server, app, disk, forms, update, past>>

SyncFails ==
  /\ sync.step \in {"sent", "answered", "refused"}
  /\ sync' = Idle
  /\ UNCHANGED <<server, app, memory, disk, channel, forms, update, past>>

-----------------------------------------------------------------------------
(* The profile dialog: all its fields, some as they were when it opened.   *)
SaveProfile(v) ==
  /\ SignedIn /\ update = Idle
  /\ update' = [step |-> "sent", token |-> token, version |-> v]
  /\ UNCHANGED <<server, app, memory, disk, channel, forms, sync, past>>

(* 200: the fields go into whoever is the current user by now, if any.  A  *)
(* login that is being saved writes its own data after that.               *)
ApplyUpdate ==
  /\ update.step = "answered"
  /\ IF user = Null
     THEN update' = Idle /\ UNCHANGED <<user, channel, crossed>>
     ELSE /\ user' = [user EXCEPT !.version = update.version]
          /\ Put(SetUser("update", user'))
          /\ update' = [update EXCEPT !.step = "saving"]
          /\ crossed' = (crossed \/ update.token # token \/ form.step = "saving")
  /\ UNCHANGED <<server, app, token, disk, forms, sync, kills, signedOut, replacing>>

UpdateFails ==
  /\ update.step \in {"sent", "answered", "refused"}
  /\ update' = Idle
  /\ UNCHANGED <<server, app, memory, disk, channel, forms, sync, past>>

-----------------------------------------------------------------------------
(* The disk.                                                               *)

(* Mutant: a logout removes the token and leaves user_data.                *)
Follow_LeavesUser(w) ==
  IF w.key = "token" /\ w.by = "login" THEN <<SetUser("login", form.data)>>
  ELSE <<>>

(* The write that a finished one's callback issues: after the token, the   *)
(* user, whether they are saved or removed.                                *)
Follow(w) ==
  IF w.key = "user" THEN <<>>
  ELSE <<SetUser(w.by, IF w.by = "login" THEN form.data ELSE Null)>>

(* Some write among these will put a token on the disk.                    *)
BringsToken(ws) ==
  \E i \in 1..Len(ws) : ws[i].key = "token" /\ ws[i].value # Null

(* From a login's token that takes another's place on disk until anything  *)
(* but a profile's change is written: the user of that login or of a sync, *)
(* or a removal.                                                           *)
Replaces(w) ==
  IF w.by = "login" /\ w.key = "token" THEN disk.token # Null
  ELSE replacing /\ w.by = "update"

(* The write at the head reaches the disk and its callback runs.  When it  *)
(* was the last of its function, that function returns, and the form of a  *)
(* login gives way to the screens.                                         *)
WriteDisk ==
  /\ channel # <<>>
  /\ LET w    == Head(channel)
         more == Follow(w)
         Done(by, slot) == IF w.by = by /\ more = <<>> THEN Idle ELSE slot IN
     /\ disk' = [disk EXCEPT ![w.key] = w.value]
     /\ channel' = Tail(channel) \o more
     /\ form' = Done("login", form)
     /\ screen' = IF w.by = "login" /\ more = <<>> /\ screen = "waiting"
                  THEN "main" ELSE screen
     /\ sync' = Done("sync", sync)
     /\ update' = Done("update", update)
     /\ app' = IF w.by = "boot" /\ more = <<>> THEN "on" ELSE app
     /\ signedOut' = (signedOut \/ (/\ w = SetToken(w.by, Null) /\ token = Null
                                   /\ ~BringsToken(Tail(channel))))
     /\ replacing' = Replaces(w)
  /\ UNCHANGED <<server, memory, kills, crossed>>

-----------------------------------------------------------------------------
(* tryAutoLogin: with both values on disk, they are the session and are    *)
(* synced behind the screens; otherwise log out first.                     *)
Start ==
  /\ app = "off"
  /\ IF disk.token # Null /\ disk.user # Null
     THEN /\ app' = "on"
          /\ token' = disk.token /\ user' = disk.user
          /\ sync' = [step |-> "sent", token |-> disk.token]
          /\ UNCHANGED channel
     ELSE /\ app' = "boot"
          /\ Forget("boot")
          /\ UNCHANGED sync
  /\ UNCHANGED <<server, disk, forms, update, past>>

Kill ==
  /\ app # "off" /\ kills < MaxKills
  /\ app' = "off"
  /\ token' = Null /\ user' = Null /\ channel' = <<>>
  /\ form' = Idle /\ screen' = "main" /\ sync' = Idle /\ update' = Idle
  /\ kills' = kills + 1
  /\ UNCHANGED <<server, disk, signedOut, replacing, crossed>>

Init ==
  /\ accounts = {}
  /\ profile = [u \in Users |-> 0]
  /\ now = 0
  /\ app = "off"
  /\ token = Null /\ user = Null
  /\ disk = [token |-> Null, user |-> Null]
  /\ channel = <<>>
  /\ form = Idle /\ screen = "main" /\ sync = Idle /\ update = Idle
  /\ kills = 0 /\ signedOut = FALSE /\ replacing = FALSE /\ crossed = FALSE

Next ==
  \/ HandleRegister \/ HandleLogin \/ HandleGetMe \/ HandleUpdateProfile
  \/ \E u \in Users :
       \/ ChangeElsewhere(u)
       \/ \E kind \in {"login", "register"} : Submit(u, kind)
  \/ OpenLogin \/ Back \/ ApplyLogin \/ FormEnds \/ PressLogout
  \/ ApplySync \/ SyncLogsOut \/ SyncFails
  \/ \E v \in Versions : SaveProfile(v)
  \/ ApplyUpdate \/ UpdateFails
  \/ WriteDisk \/ Start \/ Kill \/ Tick

Spec == Init /\ [][Next]_vars

-----------------------------------------------------------------------------
(* Every variable holds a value of its kind.                               *)
TypeOK ==
  /\ accounts \in SUBSET Users
  /\ profile \in [Users -> Versions]
  /\ now \in 0..MaxTime
  /\ app \in {"off", "boot", "on"}
  /\ token \in Token \cup {Null}
  /\ user \in Data \cup {Null}
  /\ disk \in [token: Token \cup {Null}, user: Data \cup {Null}]
  /\ channel \in Seq(Write)
  /\ form \in Form /\ screen \in {"main", "login", "waiting"}
  /\ sync \in Sync /\ update \in Update
  /\ kills \in 0..MaxKills
  /\ {signedOut, replacing, crossed} \subseteq BOOLEAN

(* Once a logout has removed the token, nothing but a login brings one     *)
(* back, in memory or on disk, across kills and restarts: not an answer to *)
(* a request of the ended session, though such an answer does bring the    *)
(* user back.                                                              *)
LogoutSticks == signedOut => token = Null /\ disk.token = Null

Matches(t, d) == t # Null /\ d # Null => t.owner = d.id

(* Nobody's token is ever paired with the data of somebody else, on screen *)
(* or on disk, wherever the app is killed, as long as no answer of one     *)
(* session is applied in the next.  A login over another session pairs     *)
(* them on disk between its two writes, and a kill there leaves them so;   *)
(* nothing else does, and a later login or sync sets that right.           *)
NoMixedSession ==
  ~crossed /\ ~replacing =>
    Matches(token, user) /\ Matches(disk.token, disk.user)

(* With no write on its way, the disk holds the session that is on screen: *)
(* a restart shows what was shown before it.                               *)
SavedIsShown ==
  ~crossed /\ app = "on" /\ channel = <<>> =>
    disk = [token |-> token, user |-> user]

(* Who waits for a write: the first screen for the removals of a logout at *)
(* start, login with isLoading, the silent sync, the profile dialog.       *)
Awaits(by) ==
  \/ by = "boot" /\ app = "boot"
  \/ by = "login" /\ form.step = "saving"
  \/ by = "sync" /\ sync.step = "saving"
  \/ by = "update" /\ update.step = "saving"

Writing(by) == \E i \in 1..Len(channel) : channel[i].by = by

(* No spinner waits for nothing: whoever waits for a write has it on its   *)
(* way to the disk, and a form that waits for an answer has a request      *)
(* under way.  And nobody goes on before his writes are done: the login    *)
(* button is off and the first screen hidden until then.                   *)
WaitsAreServed ==
  /\ \A by \in Writers \ {"logout"} : Awaits(by) <=> Writing(by)
  /\ screen = "waiting" => form # Idle
=============================================================================
