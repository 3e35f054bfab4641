--------------------------- MODULE Session_proofs ---------------------------
(***************************************************************************)
(* What Session guarantees, for any users, lifetimes of tokens and kills.  *)
(* The invariant follows the writes on their way to the disk: at most one  *)
(* belongs to a login, only that one carries a token, and the last of them *)
(* carries what is on screen.                                              *)
(***************************************************************************)
EXTENDS Session, SequenceTheorems, TLAPS

Writes == 1..Len(channel)

TokenWrite(i) == channel[i].key = "token"
LoginWrite(i) == channel[i].by = "login"

(* Before the screens are up there is no session and no request.           *)
OffIsIdle ==
  /\ app # "on" => /\ token = Null /\ user = Null /\ screen = "main"
                   /\ form = Idle /\ sync = Idle /\ update = Idle
  /\ app = "off" => channel = <<>>

(* An answer carries the data of the token's owner.                        *)
AnswersAreOwn ==
  /\ form.step \in {"answered", "saving"} /\ form.kind = "login" =>
       form.token.owner = form.data.id
  /\ sync.step = "answered" => sync.token.owner = sync.data.id

(* Only a login writes a token, and only while it is saving, once.         *)
LoginWrites ==
  \A i \in Writes :
    /\ LoginWrite(i) => /\ form.step = "saving"
                        /\ \A j \in Writes : LoginWrite(j) => i = j
    /\ TokenWrite(i) /\ channel[i].value # Null => LoginWrite(i)

(* What has been removed stays removed.                                    *)
Removed ==
  signedOut =>
    /\ token = Null /\ disk.token = Null
    /\ \A i \in Writes : TokenWrite(i) => channel[i].value = Null

Basics == OffIsIdle /\ AnswersAreOwn /\ LoginWrites /\ Removed

-----------------------------------------------------------------------------
(* The session as long as no request or write outlived another one.        *)

Pairs ==
  /\ token = Null <=> user = Null
  /\ ~replacing => Matches(token, user) /\ Matches(disk.token, disk.user)

(* A login is being saved: first its token, then its user; a logout may    *)
(* run beside it.  No sync does.                                           *)
SavedToken  == SetToken("login", form.token)
SavedUser   == SetUser("login", form.data)
NoToken     == SetToken("logout", Null)
NoUser      == SetUser("logout", Null)

OneLeft(w)    == Len(channel) = 1 /\ channel[1] = w
TwoLeft(w, v) == Len(channel) = 2 /\ channel[1] = w /\ channel[2] = v

Saving ==
  /\ sync = Idle
  /\ \/ /\ token = form.token /\ user = form.data
        /\ OneLeft(SavedToken) \/ OneLeft(SavedUser)
     \/ /\ token = Null
        /\ \/ TwoLeft(SavedToken, NoToken)
           \/ TwoLeft(NoToken, SavedUser)
           \/ TwoLeft(SavedUser, NoToken)
           \/ TwoLeft(SavedUser, NoUser) /\ disk.token = Null
  /\ channel[1] = SavedToken => (disk.token = Null => disk.user = Null)
  /\ channel[1] # SavedToken => disk.token = form.token
                                \/ TwoLeft(SavedUser, NoUser)

NoTokenWrite == \A i \in Writes : ~TokenWrite(i)

Fits(i) == ~TokenWrite(i) => Matches(disk.token, channel[i].value)

(* From the first write on that saves or removes anything but a profile's  *)
(* change, the pairs are whole again.                                      *)
Healing ==
  \A i \in Writes : ~TokenWrite(i) /\ channel[i].by # "update" =>
    Matches(token, user) /\ \A j \in Writes : j >= i => Fits(j)

(* Otherwise the writes end in what is on screen: a token is on disk until *)
(* its removal is issued, and the last write is that of the user shown.    *)
Settling ==
  /\ token # Null => NoTokenWrite /\ disk.token = token
  /\ token = Null /\ NoTokenWrite => disk.token = Null
  /\ NoTokenWrite => user = IF channel = <<>> THEN disk.user
                            ELSE channel[Len(channel)].value
  /\ ~replacing => \A i \in Writes : Fits(i)
  /\ Healing

OneSession ==
  /\ Pairs
  /\ form.step = "saving" => Saving
  /\ app # "off" /\ form.step # "saving" => Settling

IInv == TypeOK /\ Basics /\ (~crossed => OneSession)

-----------------------------------------------------------------------------
(* The requests by how far they are.                                       *)

LEMMA FormSteps ==
  ASSUME NEW f \in Form
  PROVE  /\ f.step \in {"idle", "sent", "refused", "answered", "saving"}
         /\ f = Idle <=> f.step = "idle"
         /\ f.step \in {"sent", "refused"} =>
              f \in [step: {"sent", "refused"}, kind: {"login", "register"},
                     who: Users]
         /\ f.step = "answered" =>
              f \in [step: {"answered"}, kind: {"register"}, who: Users]
                \cup [step: {"answered", "saving"}, kind: {"login"},
                      token: Token, data: Data]
         /\ f.step = "saving" =>
              f \in [step: {"answered", "saving"}, kind: {"login"},
                     token: Token, data: Data]
BY DEF Form, Idle

LEMMA SyncSteps ==
  ASSUME NEW s \in Sync
  PROVE  /\ s.step \in {"idle", "sent", "refused", "answered", "saving"}
         /\ s = Idle <=> s.step = "idle"
         /\ s.step \in {"sent", "refused", "saving"} =>
              s \in [step: {"sent", "refused", "saving"}, token: Token]
         /\ s.step = "answered" =>
              s \in [step: {"answered"}, token: Token, data: Data]
BY DEF Sync, Idle

LEMMA UpdateSteps ==
  ASSUME NEW p \in Update
  PROVE  /\ p.step \in {"idle", "sent", "refused", "answered", "saving"}
         /\ p = Idle <=> p.step = "idle"
         /\ p.step # "idle" =>
              p \in [step: {"sent", "answered", "refused", "saving"},
                     token: Token, version: Versions]
BY DEF Update, Idle

LEMMA Kinds ==
  /\ Null \notin Token /\ Null \notin Data
  /\ \A t \in Token : t.owner \in Users
  /\ \A d \in Data : d.id \in Users /\ d.version \in Versions
BY NullAssumption DEF Token, Data

(* A write is issued: it is the last one.                                  *)
LEMMA PutWrite ==
  ASSUME channel \in Seq(Write), NEW w \in Write, Put(w)
  PROVE  /\ channel' \in Seq(Write)
         /\ Len(channel) \in Nat
         /\ Len(channel') = Len(channel) + 1
         /\ channel' # <<>>
         /\ \A i \in Writes : channel'[i] = channel[i]
         /\ channel'[Len(channel')] = w
BY AppendProperties, LenProperties DEF Put, Writes

(* The first write is done: the others move up, and another may follow.    *)
LEMMA TakeWrite ==
  ASSUME channel \in Seq(Write), channel # <<>>
  PROVE  /\ Len(channel) \in Nat \ {0}
         /\ Head(channel) = channel[1] /\ channel[1] \in Write
         /\ Tail(channel) \in Seq(Write)
         /\ Len(Tail(channel)) = Len(channel) - 1
         /\ \A i \in 1..Len(channel) - 1 : Tail(channel)[i] = channel[i + 1]
<1>1. Len(channel) \in Nat \ {0} /\ channel[1] \in Write
  BY EmptySeq, LenProperties, ElementOfSeq
<1>2. Head(channel) = channel[1]
  OBVIOUS
<1> QED BY <1>1, <1>2, HeadTailProperties

(* The value of a write, by its key.                                       *)
LEMMA WriteKinds ==
  /\ \A w \in Write :
       /\ w.by \in Writers /\ w.key \in {"token", "user"}
       /\ w.key = "token" => w.value \in Token \cup {Null}
       /\ w.key = "user" => w.value \in Data \cup {Null}
       /\ w.key = "token" => w = SetToken(w.by, w.value)
       /\ w.key = "user" => w = SetUser(w.by, w.value)
  /\ \A by \in Writers, v \in Token \cup {Null} : SetToken(by, v) \in Write
  /\ \A by \in Writers, v \in Data \cup {Null} : SetUser(by, v) \in Write
BY DEF Write, SetToken, SetUser

(* A user reached the disk: the function that wrote it returns.            *)
UserSaved(w) ==
  /\ w.key = "user"
  /\ channel' = Tail(channel)
  /\ Len(channel') = Len(channel) - 1
  /\ disk' = [disk EXCEPT !.user = w.value]
  /\ form' = (IF w.by = "login" THEN Idle ELSE form)
  /\ sync' = (IF w.by = "sync" THEN Idle ELSE sync)
  /\ update' = (IF w.by = "update" THEN Idle ELSE update)
  /\ app' = (IF w.by = "boot" THEN "on" ELSE app)
  /\ screen' \in {screen, "main"}
  /\ w.by = "login" => screen' # "waiting"
  /\ signedOut' = signedOut
  /\ replacing' = (replacing /\ w.by = "update")

(* A token reached the disk: its user follows, behind what is there.       *)
TokenSaved(w) ==
  /\ w.key = "token"
  /\ Len(channel') = Len(channel)
  /\ channel'[Len(channel)] =
       SetUser(w.by, IF w.by = "login" THEN form.data ELSE Null)
  /\ disk' = [disk EXCEPT !.token = w.value]
  /\ UNCHANGED <<form, screen, sync, update, app>>
  /\ signedOut' \in BOOLEAN
  /\ signedOut' /\ ~signedOut =>
       /\ w.value = Null /\ token = Null
       /\ \A i \in Writes : TokenWrite(i) => channel[i].value = Null
  /\ replacing' = (IF w.by = "login" THEN disk.token # Null
                   ELSE replacing /\ w.by = "update")

LEMMA WriteDiskCases ==
  ASSUME TypeOK, Basics, WriteDisk
  PROVE  \E w \in Write :
           /\ w = channel[1]
           /\ channel' \in Seq(Write)
           /\ Len(channel) \in Nat \ {0}
           /\ \A i \in 1..Len(channel) - 1 : channel'[i] = channel[i + 1]
           /\ UserSaved(w) \/ TokenSaved(w)
           /\ UNCHANGED <<server, memory, kills, crossed>>
<1>1. channel \in Seq(Write) /\ channel # <<>>
  BY DEF TypeOK, WriteDisk
<1> DEFINE w == Head(channel)
           f == SetUser(w.by, IF w.by = "login" THEN form.data ELSE Null)
<1>2. /\ Len(channel) \in Nat \ {0} /\ w = channel[1] /\ w \in Write
      /\ Tail(channel) \in Seq(Write) /\ Len(Tail(channel)) = Len(channel) - 1
      /\ \A i \in 1..Len(channel) - 1 : Tail(channel)[i] = channel[i + 1]
  BY <1>1, TakeWrite
<1>3. UNCHANGED <<server, memory, kills, crossed>>
  BY DEF WriteDisk
<1>4. CASE w.key = "user"
  <2>1. Follow(w) = <<>>
    BY <1>4 DEF Follow
  <2>2. channel' = Tail(channel)
    BY <1>2, <2>1, ConcatEmptySeq DEF WriteDisk
  <2>3. UserSaved(w)
    <3>1. w # SetToken(w.by, Null)
      BY <1>4 DEF SetToken
    <3>2. /\ signedOut' = signedOut
          /\ replacing' = (replacing /\ w.by = "update")
          /\ screen' \in {screen, "main"}
          /\ w.by = "login" => screen' # "waiting"
      BY <1>4, <2>1, <3>1 DEF WriteDisk, Replaces, TypeOK
    <3>3. disk' = [disk EXCEPT !.user = w.value]
      BY <1>4 DEF WriteDisk
    <3> QED BY <1>2, <1>4, <2>1, <2>2, <3>2, <3>3 DEF WriteDisk, UserSaved
  <2> QED BY <1>2, <1>3, <2>2, <2>3
<1>5. CASE w.key # "user"
  <2>1. w.key = "token"
    BY <1>2, <1>5, WriteKinds
  <2>2. Follow(w) = <<f>>
    BY <1>5 DEF Follow
  <2>3. f \in Write
    <3>1. w.by = "login" => form.data \in Data
      <4>1. 1 \in Writes
        BY <1>2 DEF Writes
      <4>2. w.by = "login" => form.step = "saving"
        BY <1>2, <4>1 DEF Basics, LoginWrites, LoginWrite
      <4> QED BY <4>2, FormSteps DEF TypeOK
    <3> QED BY <1>2, <3>1, WriteKinds
  <2>4. channel' = Tail(channel) \o <<f>>
    BY <2>2 DEF WriteDisk
  <2>5. /\ channel' \in Seq(Write)
        /\ Len(channel') = Len(channel)
        /\ \A i \in 1..Len(channel) - 1 : channel'[i] = channel[i + 1]
        /\ channel'[Len(channel)] = f
    <3> HIDE DEF w, f
    <3>1. channel' = Append(Tail(channel), f)
      BY <1>2, <2>3, <2>4, AppendIsConcat
    <3>2. /\ Append(Tail(channel), f) \in Seq(Write)
          /\ Len(Append(Tail(channel), f)) = Len(channel)
          /\ \A i \in 1..Len(channel) - 1 :
               Append(Tail(channel), f)[i] = Tail(channel)[i]
          /\ Append(Tail(channel), f)[Len(channel)] = f
      BY <1>2, <2>3, AppendProperties
    <3> QED BY <1>2, <3>1, <3>2
  <2>6. TokenSaved(w)
    <3>1. w = SetToken(w.by, Null) <=> w.value = Null
      BY <1>2, <2>1, WriteKinds DEF SetToken
    <3>2. disk' = [disk EXCEPT !.token = w.value]
      BY <2>1 DEF WriteDisk
    <3>3. signedOut' = (signedOut \/ (w.value = Null /\ token = Null
                                      /\ ~BringsToken(Tail(channel))))
      BY <3>1 DEF WriteDisk
    <3>4. UNCHANGED <<form, screen, sync, update, app>>
      <4>1. Follow(w) # <<>>
        BY <2>2
      <4> QED BY <4>1 DEF WriteDisk
    <3>5. replacing' = (IF w.by = "login" THEN disk.token # Null
                        ELSE replacing /\ w.by = "update")
      BY <2>1 DEF WriteDisk, Replaces
    <3>6. ASSUME w.value = Null, ~BringsToken(Tail(channel)), NEW i \in Writes,
                 TokenWrite(i)
          PROVE  channel[i].value = Null
      <4>1. CASE i = 1
        BY <1>2, <3>6, <4>1
      <4>2. CASE i # 1
        <5>1. /\ i - 1 \in 1..Len(Tail(channel))
              /\ Tail(channel)[i - 1] = channel[i]
          BY <1>2, <4>2 DEF Writes
        <5> QED BY <3>6, <5>1 DEF BringsToken, TokenWrite
      <4> QED BY <4>1, <4>2
    <3>7. /\ signedOut' \in BOOLEAN
          /\ signedOut' /\ ~signedOut =>
               /\ w.value = Null /\ token = Null
               /\ \A i \in Writes : TokenWrite(i) => channel[i].value = Null
      BY <3>3, <3>6 DEF TypeOK
    <3> QED BY <2>1, <2>5, <3>2, <3>4, <3>5, <3>7 DEF TokenSaved
  <2> QED BY <1>2, <1>3, <2>5, <2>6
<1> QED BY <1>4, <1>5

-----------------------------------------------------------------------------
(* Types.                                                                  *)

LEMMA TypeOKInit == Init => TypeOK
<1>1. <<>> \in Seq(Write) /\ 0 \in Versions /\ 0 \in 0..MaxTime /\ 0 \in 0..MaxKills
  BY BoundAssumption DEF Versions
<1>2. Idle \in Form /\ Idle \in Sync /\ Idle \in Update
  BY DEF Form, Sync, Update
<1> SUFFICES ASSUME Init PROVE TypeOK
  OBVIOUS
<1>3. accounts \in SUBSET Users /\ profile \in [Users -> Versions]
  BY <1>1 DEF Init
<1>4. disk \in [token: Token \cup {Null}, user: Data \cup {Null}]
  BY DEF Init
<1>5. form \in Form /\ sync \in Sync /\ update \in Update /\ channel \in Seq(Write)
  BY <1>1, <1>2 DEF Init
<1>6. {signedOut, replacing, crossed} \subseteq BOOLEAN
  BY DEF Init
<1> QED BY <1>1, <1>3, <1>4, <1>5, <1>6 DEF Init, TypeOK

(* A step that issues a write of its own and lets app and server be.       *)
LEMMA TypeOKPut ==
  ASSUME TypeOK, NEW w \in Write, Put(w),
         UNCHANGED <<server, app, disk, kills>>,
         token' \in Token \cup {Null}, user' \in Data \cup {Null},
         form' \in Form, sync' \in Sync, update' \in Update,
         screen' = screen, replacing' = replacing,
         signedOut' \in BOOLEAN, crossed' \in BOOLEAN
  PROVE  TypeOK'
BY PutWrite DEF TypeOK, server

LEMMA TypeOKStep ==
  ASSUME TypeOK, Basics, [Next]_vars
  PROVE  TypeOK'
<1> USE DEF TypeOK, server, memory, forms, past
<1>1. CASE HandleRegister
  BY <1>1, FormSteps DEF HandleRegister, Form
<1>2. CASE HandleLogin
  <2>1. form.who \in Users
    BY <1>2, FormSteps DEF HandleLogin
  <2>2. form' \in Form
    <3>1. CASE form' = [form EXCEPT !.step = "refused"]
      BY <1>2, <3>1, FormSteps DEF HandleLogin, Form
    <3>2. CASE form' = [step |-> "answered", kind |-> "login",
                        data |-> Me(form.who),
                        token |-> [owner |-> form.who, at |-> now]]
      BY <2>1, <3>2 DEF Form, Me, Data, Token, Versions
    <3> QED BY <1>2, <3>1, <3>2 DEF HandleLogin
  <2> QED BY <1>2, <2>2 DEF HandleLogin
<1>3. CASE HandleGetMe
  <2>1. sync.token \in Token /\ sync.token.owner \in Users
    BY <1>3, SyncSteps, Kinds DEF HandleGetMe
  <2>2. sync' \in Sync
    <3>1. CASE Valid(sync.token)
      BY <1>3, <2>1, <3>1 DEF HandleGetMe, Sync, Me, Data, Versions
    <3>2. CASE ~Valid(sync.token)
      BY <1>3, <3>2, SyncSteps DEF HandleGetMe, Sync
    <3> QED BY <3>1, <3>2
  <2> QED BY <1>3, <2>2 DEF HandleGetMe
<1>4. CASE HandleUpdateProfile
  <2>1. /\ update.version \in Versions
        /\ \A x \in {"answered", "refused"} :
             [update EXCEPT !.step = x] \in Update
    BY <1>4, UpdateSteps DEF HandleUpdateProfile, Update
  <2> QED BY <1>4, <2>1 DEF HandleUpdateProfile
<1>5. ASSUME NEW u \in Users, ChangeElsewhere(u)
      PROVE  TypeOK'
  BY <1>5, BoundAssumption DEF ChangeElsewhere, Versions
<1>6. ASSUME NEW u \in Users, NEW kind \in {"login", "register"}, Submit(u, kind)
      PROVE  TypeOK'
  BY <1>6 DEF Submit, Form
<1>7. CASE ApplyLogin
  <2>1. form.token \in Token /\ form.data \in Data
        /\ [form EXCEPT !.step = "saving"] \in Form
    BY <1>7, FormSteps DEF ApplyLogin, Form
  <2>2. SetToken("login", form.token) \in Write
    BY <2>1, WriteKinds DEF Writers
  <2> QED BY <1>7, <2>1, <2>2, TypeOKPut DEF ApplyLogin
<1>8. CASE FormEnds
  BY <1>8 DEF FormEnds, FormAnswered, Form
<1>22. CASE OpenLogin \/ Back
  BY <1>22 DEF OpenLogin, Back
<1>9. ASSUME NEW by \in Writers, Forget(by), UNCHANGED <<server, app, disk, screen, past>>,
             form' \in Form, sync' \in Sync, update' \in Update
      PROVE  TypeOK'
  <2>1. SetToken(by, Null) \in Write
    BY WriteKinds
  <2> QED BY <1>9, <2>1, TypeOKPut DEF Forget
<1>10. CASE PressLogout
  BY <1>9, <1>10 DEF PressLogout, Writers
<1>11. CASE ApplySync
  <2>1. sync.data \in Data /\ [step |-> "saving", token |-> sync.token] \in Sync
    BY <1>11, SyncSteps DEF ApplySync, Sync
  <2>2. SetUser("sync", sync.data) \in Write
    BY <2>1, WriteKinds DEF Writers
  <2> QED BY <1>11, <2>1, <2>2, TypeOKPut DEF ApplySync
<1>12. CASE SyncLogsOut
  <2>1. [sync EXCEPT !.step = "saving"] \in Sync
    BY <1>12, SyncSteps DEF SyncLogsOut, Sync
  <2> QED BY <1>9, <1>12, <2>1 DEF SyncLogsOut, Writers
<1>13. CASE SyncFails
  BY <1>13 DEF SyncFails, Sync
<1>14. ASSUME NEW v \in Versions, SaveProfile(v)
       PROVE  TypeOK'
  BY <1>14 DEF SaveProfile, SignedIn, Update
<1>15. CASE ApplyUpdate
  <2>1. update.version \in Versions /\ [update EXCEPT !.step = "saving"] \in Update
    BY <1>15, UpdateSteps DEF ApplyUpdate, Update
  <2>2. CASE user = Null
    BY <1>15, <2>2 DEF ApplyUpdate, Update
  <2>3. CASE user # Null
    <3>1. user' \in Data
      BY <1>15, <2>1, <2>3 DEF ApplyUpdate, Data
    <3>2. SetUser("update", user') \in Write
      BY <3>1, WriteKinds DEF Writers
    <3> QED BY <1>15, <2>1, <2>3, <3>1, <3>2, TypeOKPut DEF ApplyUpdate
  <2> QED BY <2>2, <2>3
<1>16. CASE UpdateFails
  BY <1>16 DEF UpdateFails, Update
<1>17. CASE WriteDisk
  <2>1. PICK w \in Write :
          /\ channel' \in Seq(Write)
          /\ UserSaved(w) \/ TokenSaved(w)
          /\ UNCHANGED <<server, memory, kills, crossed>>
    BY <1>17, WriteDiskCases
  <2>2. CASE UserSaved(w)
    BY <2>1, <2>2, WriteKinds DEF UserSaved, Form, Sync, Update
  <2>3. CASE TokenSaved(w)
    BY <2>1, <2>3, WriteKinds DEF TokenSaved
  <2> QED BY <2>1, <2>2, <2>3
<1>18. CASE Start
  <2>1. CASE disk.token # Null /\ disk.user # Null
    BY <1>18, <2>1 DEF Start, Sync
  <2>2. CASE ~(disk.token # Null /\ disk.user # Null)
    <3>1. SetToken("boot", Null) \in Write
      BY WriteKinds DEF Writers
    <3> QED BY <1>18, <2>2, <3>1, PutWrite DEF Start, Forget
  <2> QED BY <2>1, <2>2
<1>19. CASE Kill
  BY <1>19, BoundAssumption, EmptySeq DEF Kill, Form, Sync, Update
<1>20. CASE Tick
  BY <1>20, BoundAssumption DEF Tick
<1>21. CASE UNCHANGED vars
  BY <1>21 DEF vars
<1> QED BY <1>1, <1>2, <1>3, <1>4, <1>5, <1>6, <1>7, <1>8, <1>10, <1>11, <1>12,
       <1>13, <1>14, <1>15, <1>16, <1>17, <1>18, <1>19, <1>20, <1>21, <1>22 DEF Next

-----------------------------------------------------------------------------
(* Who writes what.                                                        *)

LEMMA BasicsInit == Init => Basics
<1> SUFFICES ASSUME Init PROVE Basics
  OBVIOUS
<1>1. Len(channel) = 0 /\ Idle.step = "idle"
  BY DEF Init, Idle
<1> QED BY <1>1 DEF Init, Basics, OffIsIdle, AnswersAreOwn, LoginWrites,
       Writes, Removed

(* A write that is no login's and carries no token joins the others.       *)
LEMMA LoginWritesPut ==
  ASSUME TypeOK, LoginWrites, NEW w \in Write, Put(w),
         w.by # "login", w.key = "token" => w.value = Null,
         form'.step = "saving" <=> form.step = "saving"
  PROVE  LoginWrites'
<1>1. /\ Len(channel) \in Nat /\ Len(channel') = Len(channel) + 1
      /\ \A i \in Writes : channel'[i] = channel[i]
      /\ channel'[Len(channel')] = w
  BY PutWrite DEF TypeOK
<1>2. ASSUME NEW i \in Writes'
      PROVE  i \in Writes \/ (i = Len(channel') /\ channel'[i] = w)
  BY <1>1 DEF Writes
<1> QED BY <1>1, <1>2 DEF LoginWrites, LoginWrite, TokenWrite

LEMMA RemovedPut ==
  ASSUME TypeOK, Removed, NEW w \in Write, Put(w), w.key = "token" => w.value = Null,
         UNCHANGED <<disk, signedOut>>, token' \in {token, Null}
  PROVE  Removed'
<1>1. /\ Len(channel) \in Nat /\ Len(channel') = Len(channel) + 1
      /\ \A i \in Writes : channel'[i] = channel[i]
      /\ channel'[Len(channel')] = w
  BY PutWrite DEF TypeOK
<1>2. ASSUME NEW i \in Writes'
      PROVE  i \in Writes \/ (i = Len(channel') /\ channel'[i] = w)
  BY <1>1 DEF Writes
<1> QED BY <1>1, <1>2 DEF Removed, TokenWrite

LEMMA LoginWritesKept ==
  ASSUME LoginWrites, channel' = channel,
         form.step = "saving" => form'.step = "saving"
  PROVE  LoginWrites'
BY DEF LoginWrites, LoginWrite, TokenWrite, Writes

(* The writes move up by one, and a login that saved its user is over.     *)
LEMMA LoginWritesTaken ==
  ASSUME TypeOK, Basics, WriteDisk
  PROVE  LoginWrites'
<1>1. PICK w \in Write :
        /\ w = channel[1]
        /\ Len(channel) \in Nat \ {0}
        /\ \A i \in 1..Len(channel) - 1 : channel'[i] = channel[i + 1]
        /\ UserSaved(w) \/ TokenSaved(w)
  BY WriteDiskCases
<1>2. 1 \in Writes /\ \A i \in 1..Len(channel) - 1 : i + 1 \in Writes
  BY <1>1 DEF Writes
<1>3. LoginWrites
  BY DEF Basics
<1>4. CASE UserSaved(w)
  <2>1. \A i \in Writes' : i \in 1..Len(channel) - 1
    BY <1>1, <1>4 DEF UserSaved, Writes
  <2>2. ASSUME NEW i \in Writes', LoginWrite(i)'
        PROVE  form'.step = "saving"
    <3>1. i + 1 \in Writes /\ LoginWrite(i + 1) /\ i + 1 # 1
      BY <1>1, <1>2, <2>1, <2>2 DEF LoginWrite
    <3>2. w.by # "login" /\ form.step = "saving"
      BY <1>1, <1>2, <1>3, <3>1 DEF LoginWrites, LoginWrite
    <3> QED BY <1>4, <3>2 DEF UserSaved
  <2> QED BY <1>1, <1>2, <1>3, <2>1, <2>2 DEF LoginWrites, LoginWrite, TokenWrite
<1>5. CASE TokenSaved(w)
  <2> DEFINE n == Len(channel)
  <2>1. /\ \A i \in Writes' : i \in 1..n - 1 \/ i = n
        /\ form' = form
        /\ channel'[n].by = w.by /\ channel'[n].key = "user"
    BY <1>1, <1>5 DEF TokenSaved, Writes, SetUser
  <2>2. w.by = "login" => \A i \in 1..n - 1 : channel'[i].by # "login"
    BY <1>1, <1>2, <1>3 DEF LoginWrites, LoginWrite
  <2>3. w.by = "login" => form.step = "saving"
    BY <1>1, <1>2, <1>3 DEF LoginWrites, LoginWrite
  <2>4. ASSUME NEW i \in Writes'
        PROVE  /\ LoginWrite(i)' => form'.step = "saving"
               /\ TokenWrite(i)' /\ channel'[i].value # Null => LoginWrite(i)'
    BY <1>1, <1>2, <1>3, <2>1, <2>3, <2>4 DEF LoginWrites, LoginWrite, TokenWrite
  <2>5. ASSUME NEW i \in Writes', NEW j \in Writes',
               LoginWrite(i)', LoginWrite(j)'
        PROVE  i = j
    <3>1. CASE i \in 1..n - 1 /\ j \in 1..n - 1
      <4>1. i + 1 = j + 1
        BY <1>1, <1>2, <1>3, <2>5, <3>1 DEF LoginWrites, LoginWrite
      <4> QED BY <3>1, <4>1
    <3>2. CASE i = n \/ j = n
      BY <2>1, <2>2, <2>5, <3>2 DEF LoginWrite
    <3> QED BY <2>1, <3>1, <3>2
  <2> QED BY <2>4, <2>5 DEF LoginWrites
<1> QED BY <1>1, <1>4, <1>5

LEMMA StepOfForm ==
  /\ Idle.step = "idle"
  /\ \A f \in Form : f.step = "idle" => f = Idle
BY FormSteps DEF Idle

LEMMA BasicsStep ==
  ASSUME TypeOK, Basics, [Next]_vars
  PROVE  Basics'
<1> USE StepOfForm DEF server, memory, forms, past
<1> DEFINE Others == /\ OffIsIdle' /\ AnswersAreOwn' /\ Removed'
<1>1. OffIsIdle /\ AnswersAreOwn /\ LoginWrites /\ Removed
  BY DEF Basics
<1> USE <1>1
<1>2. CASE HandleRegister
  <2>1. form'.step = "answered" /\ form'.kind = "register"
    BY <1>2, FormSteps DEF HandleRegister, TypeOK
  <2>2. Others
    BY <1>2, <2>1 DEF HandleRegister, OffIsIdle, AnswersAreOwn, Removed, Writes, TokenWrite
  <2> QED BY <1>2, <2>2, LoginWritesKept DEF HandleRegister, Basics
<1>3. CASE HandleLogin
  <2>1. \/ form'.step = "refused"
        \/ /\ form'.step = "answered" /\ form'.token.owner = form'.data.id
    <3>1. CASE form' = [form EXCEPT !.step = "refused"]
      BY <1>3, <3>1, FormSteps DEF HandleLogin, TypeOK
    <3> QED BY <1>3, <3>1 DEF HandleLogin, Me
  <2>2. Others
    BY <1>3, <2>1 DEF HandleLogin, OffIsIdle, AnswersAreOwn, Removed, Writes, TokenWrite
  <2> QED BY <1>3, <2>2, LoginWritesKept DEF HandleLogin, Basics
<1>4. CASE HandleGetMe
  <2>1. sync'.step = "answered" => sync'.token.owner = sync'.data.id
    BY <1>4, SyncSteps DEF HandleGetMe, TypeOK, Me
  <2>2. Others
    BY <1>4, <2>1 DEF HandleGetMe, OffIsIdle, AnswersAreOwn, Removed, Writes, TokenWrite
  <2> QED BY <1>4, <2>2, LoginWritesKept DEF HandleGetMe, Basics
<1>5. ASSUME UNCHANGED <<memory, disk, channel, form, past>>,
             app' = app, screen' = screen \/ app = "on", app # "on" => sync' = sync /\ update' = update,
             sync' \in {sync, Idle}
      PROVE  Basics'
  <2>1. Others
    BY <1>5 DEF OffIsIdle, AnswersAreOwn, Removed, Writes, TokenWrite
  <2> QED BY <1>5, <2>1, LoginWritesKept DEF Basics
<1>24. CASE OpenLogin
  BY <1>5, <1>24 DEF OpenLogin
<1>25. CASE Back
  BY <1>5, <1>25 DEF Back, OffIsIdle
<1>6. CASE HandleUpdateProfile
  BY <1>5, <1>6 DEF HandleUpdateProfile, OffIsIdle
<1>7. ASSUME NEW u \in Users, ChangeElsewhere(u)
      PROVE  Basics'
  BY <1>5, <1>7 DEF ChangeElsewhere
<1>8. ASSUME NEW u \in Users, NEW kind \in {"login", "register"}, Submit(u, kind)
      PROVE  Basics'
  <2>1. form'.step = "sent" /\ form.step = "idle"
    BY <1>8 DEF Submit
  <2>2. Others
    BY <1>8, <2>1 DEF Submit, OffIsIdle, AnswersAreOwn, Removed, Writes, TokenWrite
  <2> QED BY <1>8, <2>1, <2>2, LoginWritesKept DEF Submit, Basics
<1>9. CASE ApplyLogin
  <2>1. /\ form'.step = "saving" /\ form'.token = form.token
        /\ form'.data = form.data /\ form.token \in Token /\ form # Idle
    BY <1>9, FormSteps DEF ApplyLogin, TypeOK
  <2>2. Others
    BY <1>9, <2>1 DEF ApplyLogin, OffIsIdle, AnswersAreOwn, Removed, Writes, TokenWrite
  <2>3. LoginWrites'
    <3>1. SetToken("login", form.token) \in Write
      BY <2>1, WriteKinds DEF Writers
    <3>2. /\ Len(channel) \in Nat /\ Len(channel') = Len(channel) + 1
          /\ \A i \in Writes : channel'[i] = channel[i]
          /\ channel'[Len(channel')] = SetToken("login", form.token)
      BY <1>9, <3>1, PutWrite DEF ApplyLogin, TypeOK
    <3>3. \A i \in Writes : ~LoginWrite(i)
      BY <1>9 DEF ApplyLogin, LoginWrites
    <3>4. \A i \in Writes' : i \in Writes \/ i = Len(channel')
      BY <3>2 DEF Writes
    <3> QED BY <2>1, <3>2, <3>3, <3>4
          DEF LoginWrites, LoginWrite, TokenWrite, SetToken
  <2> QED BY <2>2, <2>3 DEF Basics
<1>10. CASE FormEnds
  <2>1. form.step # "saving" /\ form'.step = "idle"
    BY <1>10 DEF FormEnds
  <2>2. Others
    BY <1>10, <2>1 DEF FormEnds, OffIsIdle, AnswersAreOwn, Removed, Writes, TokenWrite
  <2> QED BY <1>10, <2>1, <2>2, LoginWritesKept DEF FormEnds, Basics
<1>11. ASSUME NEW by \in Writers \ {"login"}, Forget(by), form' = form,
              UNCHANGED <<disk, screen, past>>, sync' = sync \/ sync'.step = "saving",
              \/ app' = "on"
              \/ app' = "boot" /\ screen = "main" /\ form = Idle /\ sync' = Idle /\ update' = Idle
       PROVE  Basics'
  <2>1. SetToken(by, Null) \in Write
    BY WriteKinds
  <2>2. LoginWrites'
    BY <1>11, <2>1, LoginWritesPut DEF Forget, SetToken
  <2>4. Removed'
    BY <1>11, <2>1, RemovedPut DEF Forget, SetToken
  <2>3. Others
    BY <1>11, <2>4 DEF Forget, OffIsIdle, AnswersAreOwn
  <2> QED BY <2>2, <2>3 DEF Basics
<1>12. CASE PressLogout
  BY <1>11, <1>12 DEF PressLogout, SignedIn, Writers
<1>13. CASE SyncLogsOut
  <2>1. app = "on"
    BY <1>13 DEF SyncLogsOut, OffIsIdle
  <2>2. sync'.step = "saving"
    BY <1>13, SyncSteps DEF SyncLogsOut, TypeOK
  <2> QED BY <1>11, <1>13, <2>1, <2>2 DEF SyncLogsOut, Writers
<1>14. CASE ApplySync
  <2>1. app = "on" /\ sync'.step = "saving" /\ sync.data \in Data
    BY <1>14, SyncSteps DEF ApplySync, OffIsIdle, TypeOK
  <2>2. SetUser("sync", sync.data) \in Write
    BY <2>1, WriteKinds DEF Writers
  <2>3. LoginWrites'
    BY <1>14, <2>2, LoginWritesPut DEF ApplySync, SetUser
  <2>5. Removed'
    BY <1>14, <2>2, RemovedPut DEF ApplySync, SetUser
  <2>4. Others
    BY <1>14, <2>1, <2>5 DEF ApplySync, OffIsIdle, AnswersAreOwn
  <2> QED BY <2>3, <2>4 DEF Basics
<1>15. CASE SyncFails
  <2>1. app = "on"
    BY <1>15 DEF SyncFails, OffIsIdle
  <2> QED BY <1>5, <1>15, <2>1 DEF SyncFails
<1>16. ASSUME NEW v \in Versions, SaveProfile(v)
       PROVE  Basics'
  <2>1. Others
    BY <1>16 DEF SaveProfile, SignedIn, OffIsIdle, AnswersAreOwn, Removed, Writes, TokenWrite
  <2> QED BY <1>16, <2>1, LoginWritesKept DEF SaveProfile, Basics
<1>17. CASE ApplyUpdate
  <2>1. app = "on"
    BY <1>17 DEF ApplyUpdate, OffIsIdle
  <2>2. OffIsIdle' /\ AnswersAreOwn'
    BY <1>17, <2>1 DEF ApplyUpdate, OffIsIdle, AnswersAreOwn
  <2>3. CASE user = Null
    <3>1. Removed'
      BY <1>17, <2>3 DEF ApplyUpdate, Removed, Writes, TokenWrite
    <3> QED BY <1>17, <2>2, <2>3, <3>1, LoginWritesKept DEF ApplyUpdate, Basics
  <2>4. CASE user # Null
    <3>1. user' \in Data
      BY <1>17, <2>4, UpdateSteps DEF ApplyUpdate, TypeOK, Data
    <3>2. SetUser("update", user') \in Write
      BY <3>1, WriteKinds DEF Writers
    <3>3. LoginWrites'
      BY <1>17, <2>4, <3>2, LoginWritesPut DEF ApplyUpdate, SetUser
    <3>4. Removed'
      BY <1>17, <2>4, <3>2, RemovedPut DEF ApplyUpdate, SetUser
    <3> QED BY <2>2, <3>3, <3>4 DEF Basics
  <2> QED BY <2>3, <2>4
<1>18. CASE UpdateFails
  <2>1. app = "on"
    BY <1>18 DEF UpdateFails, OffIsIdle
  <2> QED BY <1>5, <1>18, <2>1 DEF UpdateFails
<1>19. CASE WriteDisk
  <2>1. PICK w \in Write :
          /\ w = channel[1]
          /\ Len(channel) \in Nat \ {0}
          /\ \A i \in 1..Len(channel) - 1 : channel'[i] = channel[i + 1]
          /\ UserSaved(w) \/ TokenSaved(w)
          /\ UNCHANGED <<server, memory, kills, crossed>>
    BY <1>19, WriteDiskCases
  <2>2. app # "off"
    BY <1>19 DEF WriteDisk, OffIsIdle
  <2>3. 1 \in Writes
    BY <2>1 DEF Writes
  <2>4. OffIsIdle' /\ AnswersAreOwn'
    <3>1. CASE UserSaved(w)
      <4>1. /\ form' \in {form, Idle} /\ sync' \in {sync, Idle}
            /\ update' \in {update, Idle} /\ app' \in {app, "on"}
            /\ screen' \in {screen, "main"}
        BY <3>1 DEF UserSaved
      <4> QED BY <2>1, <2>2, <4>1 DEF OffIsIdle, AnswersAreOwn
    <3>2. CASE TokenSaved(w)
      BY <2>1, <2>2, <3>2 DEF TokenSaved, OffIsIdle, AnswersAreOwn
    <3> QED BY <2>1, <3>1, <3>2
  <2>5. Removed'
    <3>1. CASE UserSaved(w)
      <4>1. \A i \in Writes' : i + 1 \in Writes /\ channel'[i] = channel[i + 1]
        BY <2>1, <3>1 DEF UserSaved, Writes
      <4>2. disk'.token = disk.token /\ token' = token /\ signedOut' = signedOut
        BY <2>1, <3>1 DEF UserSaved, TypeOK
      <4> QED BY <4>1, <4>2 DEF Removed, TokenWrite
    <3>2. CASE TokenSaved(w)
      <4> SUFFICES ASSUME signedOut'
                   PROVE  /\ token' = Null /\ disk'.token = Null
                          /\ \A i \in Writes' : TokenWrite(i)' => channel'[i].value = Null
        BY DEF Removed
      <4>1. /\ token = Null
            /\ \A i \in Writes : TokenWrite(i) => channel[i].value = Null
        BY <3>2 DEF TokenSaved, Removed
      <4>2. w.value = Null
        BY <2>1, <2>3, <3>2, <4>1 DEF TokenSaved, TokenWrite
      <4>3. disk'.token = Null
        BY <3>2, <4>2 DEF TokenSaved, TypeOK
      <4>4. ASSUME NEW i \in Writes', TokenWrite(i)'
            PROVE  channel'[i].value = Null
        <5>1. i \in 1..Len(channel) - 1 \/ i = Len(channel)
          BY <2>1, <3>2 DEF TokenSaved, Writes
        <5>2. i # Len(channel)
          BY <3>2, <4>4 DEF TokenSaved, TokenWrite, SetUser
        <5>3. i + 1 \in Writes /\ channel'[i] = channel[i + 1]
          BY <2>1, <5>1, <5>2 DEF Writes
        <5> QED BY <4>1, <4>4, <5>3 DEF TokenWrite
      <4> QED BY <2>1, <4>1, <4>3, <4>4 DEF memory
    <3> QED BY <2>1, <3>1, <3>2
  <2> QED BY <1>19, <2>4, <2>5, LoginWritesTaken DEF Basics
<1>20. CASE Start
  <2>1. app = "off" /\ screen = "main"
        /\ form = Idle /\ sync = Idle /\ update = Idle
    BY <1>20 DEF Start, OffIsIdle
  <2>2. CASE disk.token # Null /\ disk.user # Null
    <3>1. Others
      BY <1>20, <2>1, <2>2
         DEF Start, OffIsIdle, AnswersAreOwn, Removed, Writes, TokenWrite
    <3> QED BY <1>20, <2>2, <3>1, LoginWritesKept DEF Start, Basics
  <2>3. CASE ~(disk.token # Null /\ disk.user # Null)
    BY <1>11, <1>20, <2>1, <2>3 DEF Start, Writers
  <2> QED BY <2>2, <2>3
<1>21. CASE Kill
  <2>1. Writes' = {}
    BY <1>21, EmptySeq DEF Kill, Writes
  <2>2. Others
    BY <1>21, <2>1 DEF Kill, OffIsIdle, AnswersAreOwn, Removed
  <2>3. LoginWrites'
    BY <2>1 DEF LoginWrites
  <2> QED BY <2>2, <2>3 DEF Basics
<1>22. CASE Tick
  BY <1>5, <1>22 DEF Tick
<1>23. CASE UNCHANGED vars
  BY <1>5, <1>23 DEF vars
<1> QED BY <1>2, <1>3, <1>4, <1>6, <1>7, <1>8, <1>9, <1>10, <1>12, <1>13, <1>14,
       <1>15, <1>16, <1>17, <1>18, <1>19, <1>20, <1>21, <1>22, <1>23, <1>24, <1>25
   DEF Next

-----------------------------------------------------------------------------
(* One session at a time.                                                  *)

LEMMA OneSessionInit == Init => OneSession
<1> SUFFICES ASSUME Init PROVE OneSession
  OBVIOUS
<1>1. form.step # "saving" /\ app = "off"
  BY DEF Init, Idle
<1> QED BY <1>1 DEF Init, OneSession, Pairs, Matches

LEMMA OneSessionKept ==
  ASSUME OneSession, UNCHANGED <<memory, disk, channel, app, replacing>>,
         form' = form \/ (form.step # "saving" /\ form'.step # "saving"),
         form.step = "saving" => sync' = sync
  PROVE  OneSession'
BY DEF memory, OneSession, Pairs, Matches, Saving, SavedToken, SavedUser, NoToken,
   NoUser, OneLeft, TwoLeft, Settling, Healing, Fits, NoTokenWrite, TokenWrite, Writes

(* A logout empties the memory, and its removal is the last write.         *)
LEMMA ForgetSettles ==
  ASSUME TypeOK, OneSession, NEW by \in Writers, Forget(by), disk' = disk,
         form' = form, replacing' = replacing, form.step # "saving",
         app # "off" \/ channel = <<>>
  PROVE  OneSession'
<1>1. SetToken(by, Null) \in Write
  BY WriteKinds
<1>2. /\ Len(channel) \in Nat /\ Len(channel') = Len(channel) + 1
      /\ \A i \in Writes : channel'[i] = channel[i]
      /\ channel'[Len(channel')] = SetToken(by, Null)
  BY <1>1, PutWrite DEF Forget, TypeOK
<1>3. /\ \E i \in Writes' : channel'[i].key = "token"
      /\ \A i \in Writes' : i \in Writes \/ channel'[i].key = "token"
  BY <1>2 DEF Writes, SetToken
<1>4. ~NoTokenWrite'
  BY <1>3 DEF NoTokenWrite, TokenWrite
<1>5. Healing /\ (~replacing => \A i \in Writes : Fits(i))
  <2>1. CASE channel = <<>>
    BY <2>1, EmptySeq DEF Healing, Writes
  <2> QED BY <2>1 DEF OneSession, Settling
<1>6. token' = Null /\ user' = Null
  BY DEF Forget
<1>7. /\ \A i \in Writes : Fits(i) => Fits(i)'
      /\ \A i \in Writes' : i \in Writes \/ Fits(i)'
      /\ \A i \in Writes' : TokenWrite(i)' \/ (i \in Writes /\ channel'[i] = channel[i])
  BY <1>2, <1>3 DEF Fits, TokenWrite
<1>8. Healing'
  BY <1>2, <1>5, <1>6, <1>7 DEF Healing, TokenWrite, Matches
<1>9. Settling'
  BY <1>4, <1>5, <1>6, <1>7, <1>8 DEF Settling
<1>10. Pairs'
  BY <1>6 DEF OneSession, Pairs, Matches
<1> QED BY <1>9, <1>10 DEF OneSession

(* What a login that is being saved has written and will write.            *)
LEMMA SavingKinds ==
  ASSUME TypeOK, Basics, form.step = "saving"
  PROVE  /\ form.token \in Token /\ form.token # Null
         /\ form.data \in Data /\ form.data # Null
         /\ form.token.owner = form.data.id
         /\ SavedToken.key = "token" /\ SavedToken.by = "login"
         /\ SavedToken.value = form.token
         /\ SavedUser.key = "user" /\ SavedUser.by = "login"
         /\ SavedUser.value = form.data
         /\ NoToken \in Write /\ NoToken.key = "token"
         /\ NoToken.by = "logout" /\ NoToken.value = Null
         /\ NoUser.key = "user" /\ NoUser.by = "logout" /\ NoUser.value = Null
<1>1. /\ form.token \in Token /\ form.data \in Data
      /\ form.token.owner = form.data.id
  BY FormSteps DEF TypeOK, Basics, AnswersAreOwn
<1>2. NoToken \in Write
  BY WriteKinds DEF NoToken, Writers
<1> QED BY <1>1, <1>2, Kinds DEF SavedToken, SavedUser, NoToken, NoUser, SetToken,
       SetUser

(* A logout beside a login that is being saved removes its token later.    *)
LEMMA ForgetSaving ==
  ASSUME TypeOK, Basics, OneSession, Forget("logout"), token # Null,
         UNCHANGED <<disk, form, sync, replacing>>, form.step = "saving"
  PROVE  OneSession'
<1>1. /\ Saving /\ Pairs
      /\ OneLeft(SavedToken) \/ OneLeft(SavedUser)
  BY DEF OneSession, Saving
<1>2. /\ NoToken \in Write /\ SavedToken.by = "login" /\ SavedUser.by = "login"
      /\ NoUser.key = "user" /\ NoToken.key = "token"
  BY SavingKinds
<1>3. /\ Len(channel') = Len(channel) + 1
      /\ \A i \in Writes : channel'[i] = channel[i]
      /\ channel'[Len(channel')] = NoToken
  BY <1>2, PutWrite DEF Forget, NoToken, TypeOK
<1>4. Len(channel') = 2 /\ channel'[1] = channel[1] /\ channel'[2] = NoToken
  BY <1>1, <1>3 DEF OneLeft, Writes
<1>5. token' = Null /\ user' = Null
  BY DEF Forget
<1>6. UNCHANGED <<SavedToken, SavedUser, NoToken, NoUser>>
  BY DEF SavedToken, SavedUser, NoToken, NoUser
<1>7. Saving'
  <2>1. TwoLeft(SavedToken, NoToken)' \/ TwoLeft(SavedUser, NoToken)'
    BY <1>1, <1>4, <1>6 DEF OneLeft, TwoLeft
  <2>2. ~TwoLeft(SavedUser, NoUser)
    BY <1>1 DEF OneLeft, TwoLeft
  <2> QED BY <1>1, <1>4, <1>5, <1>6, <2>1, <2>2 DEF Saving
<1>8. Pairs'
  BY <1>1, <1>5 DEF Pairs, Matches
<1> QED BY <1>7, <1>8 DEF OneSession

(* New data of the session's user is shown, and its write is the last one. *)
LEMMA ShowAndSave ==
  ASSUME TypeOK, OneSession, NEW by \in Writers, NEW d \in Data,
         Put(SetUser(by, d)), user' = d,
         UNCHANGED <<token, disk, form, app, replacing>>,
         token # Null, form.step # "saving", app # "off",
         by # "update" \/ Matches(token, user) => Matches(token, d)
  PROVE  OneSession'
<1>1. SetUser(by, d) \in Write
  BY WriteKinds
<1>2. /\ Len(channel) \in Nat /\ Len(channel') = Len(channel) + 1
      /\ channel' # <<>>
      /\ \A i \in Writes : channel'[i] = channel[i]
      /\ channel'[Len(channel')] = SetUser(by, d)
  BY <1>1, PutWrite DEF TypeOK
<1>3. \A i \in Writes' : i \in Writes \/ i = Len(channel')
  BY <1>2 DEF Writes
<1>4. Settling /\ disk.token = token
  BY DEF OneSession, Settling
<1>5. NoTokenWrite'
  BY <1>2, <1>3, <1>4 DEF Settling, NoTokenWrite, TokenWrite, SetUser
<1>6. /\ \A i \in Writes : Fits(i) => Fits(i)'
      /\ Matches(token, d) => \A i \in Writes' : i = Len(channel') => Fits(i)'
  BY <1>2, <1>4 DEF Fits, TokenWrite, SetUser, Matches
<1>7. ~replacing => \A i \in Writes' : Fits(i)'
  <2>1. ~replacing => Matches(token, d)
    BY DEF OneSession, Pairs
  <2> QED BY <1>3, <1>4, <1>6, <2>1 DEF Settling
<1>8. Healing'
  <2> SUFFICES ASSUME NEW i \in Writes', channel'[i].by # "update"
               PROVE  /\ Matches(token, d)
                      /\ \A j \in Writes' : j >= i => Fits(j)'
    BY DEF Healing
  <2>1. CASE i \in Writes
    <3>1. ~TokenWrite(i) /\ channel[i].by # "update"
      BY <1>2, <1>4, <2>1 DEF Settling, NoTokenWrite
    <3>2. Matches(token, user) /\ \A j \in Writes : j >= i => Fits(j)
      BY <1>4, <2>1, <3>1 DEF Settling, Healing
    <3> QED BY <1>3, <1>6, <3>2
  <2>2. CASE i = Len(channel')
    <3>1. Matches(token, d)
      BY <1>2, <2>2 DEF SetUser
    <3>2. \A j \in Writes' : j >= i => j = Len(channel')
      BY <1>2, <2>2 DEF Writes
    <3> QED BY <1>6, <3>1, <3>2
  <2> QED BY <1>3, <2>1, <2>2
<1>9. Settling'
  BY <1>2, <1>4, <1>5, <1>7, <1>8 DEF Settling, SetUser
<1>10. Pairs'
  BY Kinds DEF OneSession, Pairs, Matches
<1> QED BY <1>9, <1>10 DEF OneSession

(* A write of a login that is being saved, or of a logout beside it,       *)
(* reaches the disk.                                                       *)
LEMMA SavingTaken ==
  ASSUME TypeOK, Basics, OneSession, WriteDisk, form.step = "saving"
  PROVE  OneSession'
<1>1. PICK w \in Write :
        /\ w = channel[1]
        /\ channel' \in Seq(Write)
        /\ Len(channel) \in Nat \ {0}
        /\ \A i \in 1..Len(channel) - 1 : channel'[i] = channel[i + 1]
        /\ UserSaved(w) \/ TokenSaved(w)
        /\ UNCHANGED <<server, memory, kills, crossed>>
  BY WriteDiskCases
<1>2. Saving /\ Pairs
  BY DEF OneSession
<1>3. /\ form.token # Null /\ form.data # Null
      /\ form.token.owner = form.data.id
      /\ SavedToken.key = "token" /\ SavedToken.by = "login"
      /\ SavedToken.value = form.token
      /\ SavedUser.key = "user" /\ SavedUser.by = "login"
      /\ SavedUser.value = form.data
      /\ NoToken.key = "token" /\ NoToken.by = "logout" /\ NoToken.value = Null
      /\ NoUser.key = "user" /\ NoUser.by = "logout" /\ NoUser.value = Null
  BY SavingKinds
<1>4. SavedToken # SavedUser /\ SavedToken # NoToken /\ SavedUser # NoToken
  BY <1>3
<1>5. w \in {SavedToken, SavedUser, NoToken}
  BY <1>1, <1>2 DEF Saving, OneLeft, TwoLeft
<1>6. UNCHANGED <<token, user>>
  BY <1>1 DEF memory
<1>7. CASE w = SavedToken
  <2>1. TokenSaved(w)
    BY <1>1, <1>3, <1>7 DEF UserSaved
  <2>2. /\ disk'.token = form.token /\ disk'.user = disk.user
        /\ UNCHANGED <<form, sync>>
        /\ channel'[Len(channel)] = SavedUser /\ Len(channel') = Len(channel)
        /\ ~replacing' => disk.token = Null
    BY <1>3, <1>7, <2>1 DEF TokenSaved, TypeOK, SavedUser
  <2>3. UNCHANGED <<SavedToken, SavedUser, NoToken, NoUser>>
    BY <2>2 DEF SavedToken, SavedUser, NoToken, NoUser
  <2>4. \/ /\ token = form.token /\ user = form.data
           /\ OneLeft(SavedUser)'
        \/ /\ token = Null
           /\ TwoLeft(NoToken, SavedUser)'
    <3>1. CASE OneLeft(SavedToken)
      BY <1>2, <1>4, <2>2, <2>3, <3>1 DEF Saving, OneLeft, TwoLeft
    <3>2. CASE TwoLeft(SavedToken, NoToken)
      BY <1>1, <1>2, <1>4, <2>2, <2>3, <3>2 DEF Saving, OneLeft, TwoLeft
    <3> QED BY <1>1, <1>2, <1>4, <1>7, <3>1, <3>2 DEF Saving, OneLeft, TwoLeft
  <2>5. ~replacing' => disk.user = Null
    BY <1>1, <1>2, <1>7, <2>2 DEF Saving
  <2>6. Pairs'
    BY <1>2, <1>3, <1>6, <2>2, <2>4, <2>5 DEF Pairs, Matches
  <2>7. Saving'
    <3>1. channel'[1] # SavedToken
      BY <1>4, <2>3, <2>4 DEF OneLeft, TwoLeft
    <3>2. sync' = Idle
      BY <1>2, <2>2 DEF Saving
    <3> QED BY <1>6, <2>2, <2>3, <2>4, <3>1, <3>2 DEF Saving
  <2> QED BY <2>2, <2>6, <2>7 DEF OneSession
<1>8. CASE w = NoToken
  <2>1. TwoLeft(NoToken, SavedUser)
    BY <1>1, <1>2, <1>4, <1>8 DEF Saving, OneLeft, TwoLeft
  <2>2. /\ token = Null /\ user = Null /\ sync = Idle
    BY <1>2, <1>4, <2>1 DEF Saving, Pairs, OneLeft, TwoLeft
  <2>3. TokenSaved(w)
    BY <1>1, <1>3, <1>8 DEF UserSaved
  <2>4. /\ disk'.token = Null
        /\ UNCHANGED <<form, sync>>
        /\ channel'[2] = NoUser /\ Len(channel') = 2 /\ channel'[1] = SavedUser
    BY <1>1, <1>3, <1>8, <2>1, <2>3 DEF TokenSaved, TypeOK, NoUser, TwoLeft
  <2>5. UNCHANGED <<SavedToken, SavedUser, NoToken, NoUser>>
    BY <2>4 DEF SavedToken, SavedUser, NoToken, NoUser
  <2>6. Pairs'
    BY <1>6, <2>2, <2>4 DEF Pairs, Matches
  <2>7. Saving'
    <3>1. TwoLeft(SavedUser, NoUser)'
      BY <2>4, <2>5 DEF TwoLeft
    <3> QED BY <1>4, <1>6, <2>2, <2>4, <2>5, <3>1 DEF Saving
  <2> QED BY <2>4, <2>6, <2>7 DEF OneSession
<1>9. CASE w = SavedUser
  <2>1. OneLeft(SavedUser) \/ TwoLeft(SavedUser, NoToken) \/ TwoLeft(SavedUser, NoUser)
    BY <1>1, <1>2, <1>4, <1>9 DEF Saving, OneLeft, TwoLeft
  <2>2. UserSaved(w)
    BY <1>1, <1>3, <1>9 DEF TokenSaved
  <2>3. /\ form' = Idle /\ form'.step # "saving" /\ ~replacing'
        /\ disk'.token = disk.token /\ disk'.user = form.data
        /\ Len(channel') = Len(channel) - 1
    BY <1>3, <1>9, <2>2, StepOfForm DEF UserSaved, TypeOK
  <2>4. disk.token = form.token \/ disk.token = Null
    <3>1. channel[1] # SavedToken
      BY <1>1, <1>4, <1>9
    <3>2. NoToken # NoUser
      BY <1>3
    <3>3. TwoLeft(SavedUser, NoUser) => disk.token = Null
      BY <1>2, <1>4, <3>2 DEF Saving, OneLeft, TwoLeft
    <3> QED BY <1>2, <3>1, <3>3 DEF Saving
  <2>5. Pairs'
    BY <1>2, <1>3, <1>6, <2>3, <2>4 DEF Saving, Pairs, Matches
  <2>6. CASE OneLeft(SavedUser)
    <3>1. channel' = <<>> /\ Writes' = {}
      BY <1>1, <2>3, <2>6, EmptySeq DEF Writes, OneLeft
    <3>2. token = form.token /\ user = form.data /\ disk.token = form.token
      BY <1>1, <1>2, <1>4, <1>9, <2>6 DEF Saving, OneLeft, TwoLeft
    <3>3. Settling'
      BY <1>3, <1>6, <2>3, <3>1, <3>2 DEF Settling, Healing, NoTokenWrite
    <3> QED BY <2>3, <2>5, <3>3 DEF OneSession
  <2>7. CASE TwoLeft(SavedUser, NoToken) \/ TwoLeft(SavedUser, NoUser)
    <3>1. token = Null /\ user = Null
      BY <1>2, <2>7 DEF Saving, Pairs, OneLeft, TwoLeft
    <3>2. /\ Len(channel') = 1 /\ Writes' = {1} /\ channel'[1] = channel[2]
          /\ channel' # <<>>
      BY <1>1, <2>3, <2>7 DEF Writes, TwoLeft
    <3>3. channel[2].value = Null
      BY <1>3, <2>7 DEF TwoLeft
    <3>4. NoTokenWrite' => disk.token = Null
      BY <1>2, <1>3, <2>7, <3>2 DEF Saving, NoTokenWrite, TokenWrite, OneLeft, TwoLeft
    <3>5. \A i \in Writes' : Fits(i)'
      BY <3>2, <3>3 DEF Fits, Matches
    <3>6. Settling'
      BY <1>6, <2>3, <3>1, <3>2, <3>3, <3>4, <3>5 DEF Settling, Healing, Matches
    <3> QED BY <2>3, <2>5, <3>6 DEF OneSession
  <2> QED BY <2>1, <2>6, <2>7
<1> QED BY <1>5, <1>7, <1>8, <1>9

(* Any other write reaches the disk: a user's, or the removal of a token.  *)
LEMMA SettlingTaken ==
  ASSUME TypeOK, Basics, OneSession, WriteDisk, form.step # "saving"
  PROVE  OneSession'
<1>1. PICK w \in Write :
        /\ w = channel[1]
        /\ channel' \in Seq(Write)
        /\ Len(channel) \in Nat \ {0}
        /\ \A i \in 1..Len(channel) - 1 : channel'[i] = channel[i + 1]
        /\ UserSaved(w) \/ TokenSaved(w)
        /\ UNCHANGED <<server, memory, kills, crossed>>
  BY WriteDiskCases
<1>2. Settling /\ Pairs /\ channel # <<>>
  BY DEF OneSession, WriteDisk, Basics, OffIsIdle
<1>3. 1 \in Writes /\ w.by # "login"
  BY <1>1 DEF Writes, Basics, LoginWrites, LoginWrite
<1>4. UNCHANGED <<token, user>>
  BY <1>1 DEF memory
<1>5. CASE UserSaved(w)
  <2>1. /\ form' = form /\ disk'.token = disk.token /\ disk'.user = w.value
        /\ replacing' = (replacing /\ w.by = "update")
    BY <1>3, <1>5 DEF UserSaved, TypeOK
  <2>2. ~TokenWrite(1)
    BY <1>1, <1>5 DEF UserSaved, TokenWrite
  <2>13. ~replacing' => Matches(token, user) /\ \A i \in Writes : Fits(i)
    <3>1. CASE ~replacing
      BY <1>2, <3>1 DEF Pairs, Settling
    <3>2. CASE w.by # "update"
      <4>1. Matches(token, user) /\ \A j \in Writes : j >= 1 => Fits(j)
        BY <1>1, <1>2, <1>3, <2>2, <3>2 DEF Settling, Healing
      <4> QED BY <4>1 DEF Writes
    <3> QED BY <2>1, <3>1, <3>2
  <2>3. Pairs'
    <3>1. ~replacing' => Matches(disk.token, w.value)
      BY <1>1, <1>3, <2>2, <2>13 DEF Fits
    <3> QED BY <1>2, <1>4, <2>1, <2>13, <3>1 DEF Pairs, Matches
  <2>4. /\ Len(channel') = Len(channel) - 1
        /\ \A i \in Writes' : i + 1 \in Writes /\ channel'[i] = channel[i + 1]
    BY <1>1, <1>5 DEF UserSaved, Writes
  <2>5. NoTokenWrite' => NoTokenWrite
    <3> SUFFICES ASSUME NoTokenWrite', NEW i \in Writes
                 PROVE  ~TokenWrite(i)
      BY DEF NoTokenWrite
    <3>1. CASE i = 1
      BY <2>2, <3>1
    <3>2. CASE i # 1
      <4>1. i - 1 \in Writes' /\ channel'[i - 1] = channel[i]
        BY <1>1, <2>4, <3>2 DEF Writes
      <4> QED BY <4>1 DEF NoTokenWrite, TokenWrite
    <3> QED BY <3>1, <3>2
  <2>6. IF channel' = <<>> THEN disk'.user = channel[Len(channel)].value
        ELSE channel'[Len(channel')] = channel[Len(channel)]
    <3>1. CASE Len(channel) = 1
      <4>1. channel' = <<>>
        BY <1>1, <2>4, <3>1, EmptySeq
      <4> QED BY <1>1, <2>1, <3>1, <4>1
    <3>2. CASE Len(channel) # 1
      BY <1>1, <2>4, <3>2
    <3> QED BY <3>1, <3>2
  <2>7. NoTokenWrite /\ token # Null => disk.token = token
    BY <1>2 DEF Settling
  <2>8. NoTokenWrite => user = channel[Len(channel)].value
    BY <1>2 DEF Settling
  <2>9. /\ \A i \in Writes' : Fits(i + 1) => Fits(i)'
        /\ \A i \in Writes' : TokenWrite(i)' <=> TokenWrite(i + 1)
    BY <2>1, <2>4 DEF TokenWrite, Fits, Matches
  <2>14. ~replacing' => \A i \in Writes' : Fits(i)'
    BY <2>4, <2>9, <2>13
  <2>15. Healing'
    <3> SUFFICES ASSUME NEW i \in Writes', ~TokenWrite(i)', channel'[i].by # "update"
                 PROVE  /\ Matches(token, user)
                        /\ \A j \in Writes' : j >= i => Fits(j)'
      BY <1>4 DEF Healing, Matches
    <3>1. Matches(token, user) /\ \A j \in Writes : j >= i + 1 => Fits(j)
      BY <1>2, <2>4, <2>9 DEF Settling, Healing
    <3>2. \A j \in Writes' : j >= i => j + 1 >= i + 1 /\ j + 1 \in Writes
      BY <2>4 DEF Writes
    <3> QED BY <2>9, <3>1, <3>2
  <2>10. token # Null => NoTokenWrite'
    BY <1>2, <2>4 DEF Settling, NoTokenWrite, TokenWrite
  <2>11. token = Null /\ NoTokenWrite => disk.token = Null
    BY <1>2 DEF Settling
  <2>12. Settling'
    <3>1. NoTokenWrite' => user' = IF channel' = <<>> THEN disk'.user
                                   ELSE channel'[Len(channel')].value
      BY <1>4, <2>5, <2>6, <2>8
    <3> QED BY <1>2, <1>4, <2>1, <2>5, <2>10, <2>11, <2>14, <2>15, <3>1
          DEF Settling
  <2> QED BY <2>1, <2>3, <2>12 DEF OneSession
<1>6. CASE TokenSaved(w)
  <2>1. w.value = Null
    BY <1>1, <1>3, <1>6 DEF TokenSaved, Basics, LoginWrites, LoginWrite, TokenWrite
  <2>2. token = Null /\ user = Null
    BY <1>1, <1>2, <1>3, <1>6
       DEF TokenSaved, Settling, NoTokenWrite, TokenWrite, Pairs
  <2>3. /\ form' = form /\ disk'.token = Null
        /\ Len(channel') = Len(channel)
        /\ channel'[Len(channel')].value = Null
    BY <1>3, <1>6, <2>1 DEF TokenSaved, SetUser, TypeOK
  <2>4. channel' # <<>>
    BY <1>1, <2>3
  <2>5. Settling'
    <3>1. \A i \in Writes' : Fits(i)'
      BY <2>3 DEF Fits, Matches
    <3>2. Healing'
      BY <1>4, <2>2, <3>1 DEF Healing, Matches
    <3> QED BY <1>4, <2>2, <2>3, <2>4, <3>1, <3>2 DEF Settling
  <2>6. Pairs'
    BY <1>4, <2>2, <2>3 DEF Pairs, Matches
  <2> QED BY <2>3, <2>5, <2>6 DEF OneSession
<1> QED BY <1>1, <1>5, <1>6

LEMMA OneSessionStep ==
  ASSUME TypeOK, Basics, ~crossed => OneSession, [Next]_vars, ~crossed'
  PROVE  OneSession'
<1> USE StepOfForm DEF server, memory, forms, past
<1>1. ASSUME OneSession, UNCHANGED <<memory, disk, channel, app, form, replacing>>,
             form.step = "saving" => sync' = sync
      PROVE  OneSession'
  BY <1>1, OneSessionKept
<1>2. CASE HandleRegister
  <2>1. form'.step # "saving"
    BY <1>2, FormSteps DEF HandleRegister, TypeOK
  <2> QED BY <1>2, <2>1, OneSessionKept DEF HandleRegister
<1>3. CASE HandleLogin
  <2>1. form'.step # "saving"
    BY <1>3, FormSteps DEF HandleLogin, TypeOK
  <2> QED BY <1>3, <2>1, OneSessionKept DEF HandleLogin
<1>4. ASSUME OneSession, sync # Idle
      PROVE  app = "on" /\ form.step # "saving"
  BY <1>4 DEF Basics, OffIsIdle, OneSession, Saving
<1>5. CASE HandleGetMe
  BY <1>1, <1>4, <1>5 DEF HandleGetMe
<1>6. CASE HandleUpdateProfile
  BY <1>1, <1>4, <1>6 DEF HandleUpdateProfile
<1>7. ASSUME NEW u \in Users, ChangeElsewhere(u)
      PROVE  OneSession'
  BY <1>1, <1>7 DEF ChangeElsewhere
<1>23. CASE OpenLogin \/ Back
  BY <1>1, <1>23 DEF OpenLogin, Back
<1>8. ASSUME NEW u \in Users, NEW kind \in {"login", "register"}, Submit(u, kind)
      PROVE  OneSession'
  <2>1. form.step # "saving" /\ form'.step # "saving"
    BY <1>8 DEF Submit
  <2> QED BY <1>8, <2>1, OneSessionKept DEF Submit
<1>9. CASE ApplyLogin
  <2>1. OneSession /\ channel = <<>> /\ sync = Idle /\ update = Idle
    BY <1>9 DEF ApplyLogin, TypeOK
  <2>2. /\ form'.step = "saving" /\ form'.token = form.token
        /\ form'.data = form.data /\ form.token \in Token /\ form.data \in Data
        /\ form # Idle /\ form.step # "saving"
    BY <1>9, FormSteps DEF ApplyLogin, TypeOK
  <2>3. app = "on" /\ Settling
    BY <1>9, <2>1, <2>2 DEF Basics, OffIsIdle, OneSession
  <2>4. NoTokenWrite
    BY <2>1, EmptySeq DEF NoTokenWrite, Writes
  <2>5. disk.token = Null => disk.user = Null
    BY <2>1, <2>3, <2>4 DEF OneSession, Settling, Pairs
  <2>6. OneLeft(SavedToken)'
    <3>1. SavedToken' = SetToken("login", form.token) /\ SavedToken' \in Write
      BY <2>2, WriteKinds DEF SavedToken, Writers
    <3>2. Len(channel') = 1 /\ channel'[1] = SavedToken'
      BY <1>9, <2>1, <3>1, PutWrite, EmptySeq DEF ApplyLogin, TypeOK
    <3> QED BY <3>2 DEF OneLeft
  <2>7. Saving'
    <3>1. /\ token' = form'.token /\ user' = form'.data
          /\ disk' = disk /\ sync' = Idle
      BY <1>9, <2>1, <2>2 DEF ApplyLogin
    <3> QED BY <2>5, <2>6, <3>1 DEF Saving, OneLeft
  <2>8. form.token.owner = form.data.id
    BY <1>9 DEF ApplyLogin, Basics, AnswersAreOwn
  <2>9. Pairs'
    BY <1>9, <2>1, <2>2, <2>8, Kinds DEF ApplyLogin, OneSession, Pairs, Matches
  <2> QED BY <2>2, <2>7, <2>9 DEF OneSession
<1>10. CASE FormEnds
  <2>1. form.step # "saving" /\ form'.step # "saving"
    BY <1>10 DEF FormEnds
  <2> QED BY <1>10, <2>1, OneSessionKept DEF FormEnds
<1>11. CASE PressLogout
  <2>1. OneSession /\ token # Null /\ app # "off"
    BY <1>11 DEF PressLogout, SignedIn
  <2>2. CASE form.step = "saving"
    BY <1>11, <2>1, <2>2, ForgetSaving DEF PressLogout
  <2>3. CASE form.step # "saving"
    BY <1>11, <2>1, <2>3, ForgetSettles DEF PressLogout, Writers
  <2> QED BY <2>2, <2>3
<1>12. CASE SyncLogsOut
  <2>1. OneSession /\ sync # Idle
    BY <1>12 DEF SyncLogsOut
  <2>2. form.step # "saving" /\ app # "off"
    BY <1>4, <2>1
  <2> QED BY <1>12, <2>1, <2>2, ForgetSettles DEF SyncLogsOut, Writers
<1>13. CASE ApplySync
  <2>1. OneSession /\ sync # Idle /\ sync.token = token
    BY <1>13 DEF ApplySync, TypeOK
  <2>2. /\ app # "off" /\ form.step # "saving"
        /\ token \in Token /\ token # Null /\ sync.data \in Data
    BY <1>4, <1>13, <2>1, SyncSteps, Kinds DEF ApplySync, TypeOK
  <2>3. Matches(token, sync.data)
    BY <1>13, <2>1 DEF ApplySync, Basics, AnswersAreOwn, Matches
  <2> QED BY <1>13, <2>1, <2>2, <2>3, ShowAndSave DEF ApplySync, Writers
<1>14. CASE SyncFails
  BY <1>1, <1>4, <1>14 DEF SyncFails
<1>15. ASSUME NEW v \in Versions, SaveProfile(v)
       PROVE  OneSession'
  BY <1>1, <1>15 DEF SaveProfile, SignedIn
<1>16. CASE ApplyUpdate
  <2>1. OneSession /\ update # Idle
    BY <1>16 DEF ApplyUpdate, TypeOK
  <2>2. CASE user = Null
    BY <1>1, <1>16, <2>1, <2>2 DEF ApplyUpdate
  <2>3. CASE user # Null
    <3>1. update.token = token /\ form.step # "saving"
      BY <1>16, <2>3 DEF ApplyUpdate, TypeOK
    <3>2. /\ app # "off"
          /\ token \in Token /\ token # Null
      BY <1>16, <2>1, <3>1, UpdateSteps, Kinds DEF ApplyUpdate, TypeOK, Basics, OffIsIdle
    <3>3. user' \in Data /\ user'.id = user.id
      BY <1>16, <2>3, UpdateSteps DEF ApplyUpdate, TypeOK, Data
    <3>4. Matches(token, user) => Matches(token, user')
      BY <2>3, <3>3 DEF Matches
    <3> QED BY <1>16, <2>1, <2>3, <3>1, <3>2, <3>3, <3>4, ShowAndSave
          DEF ApplyUpdate, Writers
  <2> QED BY <2>2, <2>3
<1>17. CASE UpdateFails
  BY <1>1, <1>4, <1>17 DEF UpdateFails
<1>18. CASE WriteDisk
  BY <1>18, SavingTaken, SettlingTaken DEF WriteDisk
<1>19. CASE Start
  <2>1. OneSession /\ channel = <<>> /\ form.step # "saving"
    BY <1>19 DEF Start, Basics, OffIsIdle
  <2>2. Writes = {} /\ Pairs
    BY <2>1, EmptySeq DEF Writes, OneSession
  <2>3. CASE disk.token # Null /\ disk.user # Null
    <3>1. Settling' /\ Pairs' /\ form' = form
      BY <1>19, <2>1, <2>2, <2>3
         DEF Start, Settling, Healing, NoTokenWrite, Writes, Pairs, Matches
    <3> QED BY <2>1, <3>1 DEF OneSession
  <2>4. CASE ~(disk.token # Null /\ disk.user # Null)
    BY <1>19, <2>1, <2>4, ForgetSettles DEF Start, Writers
  <2> QED BY <2>3, <2>4
<1>20. CASE Kill
  BY <1>20 DEF Kill, OneSession, Pairs, Matches
<1>21. CASE Tick
  BY <1>1, <1>21 DEF Tick
<1>22. CASE UNCHANGED vars
  BY <1>1, <1>22 DEF vars
<1> QED BY <1>2, <1>3, <1>5, <1>6, <1>7, <1>8, <1>9, <1>10, <1>11, <1>12, <1>13,
       <1>14, <1>15, <1>16, <1>17, <1>18, <1>19, <1>20, <1>21, <1>22, <1>23
   DEF Next

-----------------------------------------------------------------------------
(* Who waits for a write has just one on its way.                          *)

Waiters == Writers \ {"logout"}

OneEach ==
  \A i \in Writes, j \in Writes :
    channel[i].by = channel[j].by /\ channel[i].by # "logout" => i = j

Served == WaitsAreServed /\ OneEach

LEMMA ServedKept ==
  ASSUME Served, channel' = channel,
         \A by \in Waiters : Awaits(by)' <=> Awaits(by),
         screen' = "waiting" => form' # Idle
  PROVE  Served'
BY DEF Served, WaitsAreServed, OneEach, Writing, Writes, Waiters

(* A write is issued, and its writer begins to wait for it.                *)
LEMMA ServedPut ==
  ASSUME TypeOK, Served, NEW w \in Write, Put(w),
         w.by # "logout" => ~Awaits(w.by),
         \A by \in Waiters : Awaits(by)' <=> Awaits(by) \/ by = w.by,
         screen' = "waiting" => form' # Idle
  PROVE  Served'
<1>1. /\ Len(channel) \in Nat /\ Len(channel') = Len(channel) + 1
      /\ \A i \in Writes : channel'[i] = channel[i]
      /\ channel'[Len(channel')] = w
  BY PutWrite DEF TypeOK
<1>2. /\ Writes' = Writes \cup {Len(channel')} /\ Len(channel') \notin Writes
  BY <1>1 DEF Writes
<1>3. \A by \in Waiters : Writing(by)' <=> Writing(by) \/ by = w.by
  BY <1>1, <1>2 DEF Writing, Writes
<1>4. w.by \in Waiters => \A i \in Writes : channel[i].by # w.by
  BY DEF Served, WaitsAreServed, Writing, Writes, Waiters
<1>5. w.by \in Writers
  BY WriteKinds
<1>6. OneEach'
  BY <1>1, <1>2, <1>4, <1>5 DEF Served, OneEach, Waiters
<1> QED BY <1>3, <1>6 DEF Served, WaitsAreServed, Waiters

(* A write is done: the next of the same function follows, or the function *)
(* returns.                                                                *)
LEMMA ServedTaken ==
  ASSUME TypeOK, Basics, Served, WriteDisk
  PROVE  Served'
<1>1. PICK w \in Write :
        /\ w = channel[1]
        /\ Len(channel) \in Nat \ {0}
        /\ \A i \in 1..Len(channel) - 1 : channel'[i] = channel[i + 1]
        /\ UserSaved(w) \/ TokenSaved(w)
  BY WriteDiskCases
<1> DEFINE n == Len(channel)
<1>2. /\ 1 \in Writes /\ \A i \in 1..n - 1 : i + 1 \in Writes
      /\ \A i \in Writes : i = 1 \/ (i - 1 \in 1..n - 1 /\ (i - 1) + 1 = i)
  BY <1>1 DEF Writes
<1>3. w.by # "logout" => \A i \in 1..n - 1 : channel'[i].by # w.by
  BY <1>1, <1>2 DEF Served, OneEach
<1>4. \A by \in Waiters \ {w.by} :
        Writing(by) <=> \E i \in 1..n - 1 : channel'[i].by = by
  <2> SUFFICES ASSUME NEW by \in Waiters \ {w.by}
               PROVE  Writing(by) <=> \E i \in 1..n - 1 : channel'[i].by = by
    OBVIOUS
  <2>1. ASSUME NEW i \in Writes, channel[i].by = by
        PROVE  \E k \in 1..n - 1 : channel'[k].by = by
    <3>1. i - 1 \in 1..n - 1 /\ channel'[i - 1] = channel[i]
      BY <1>1, <1>2, <2>1
    <3> QED BY <2>1, <3>1
  <2> QED BY <1>1, <1>2, <2>1 DEF Writing, Writes
<1>5. \A i, j \in 1..n - 1 :
        channel'[i].by = channel'[j].by /\ channel'[i].by # "logout" => i = j
  <2> SUFFICES ASSUME NEW i \in 1..n - 1, NEW j \in 1..n - 1,
                      channel'[i].by = channel'[j].by, channel'[i].by # "logout"
               PROVE  i = j
    OBVIOUS
  <2>1. /\ i + 1 \in Writes /\ channel[i + 1] = channel'[i]
        /\ j + 1 \in Writes /\ channel[j + 1] = channel'[j]
    BY <1>1, <1>2
  <2>2. i + 1 = j + 1
    BY <2>1 DEF Served, OneEach
  <2> QED BY <2>2
<1>6. w.by \in Waiters => Awaits(w.by)
  BY <1>1, <1>2 DEF Served, WaitsAreServed, Writing, Writes, Waiters
<1>7. CASE UserSaved(w)
  <2>1. Writes' = 1..n - 1
    BY <1>1, <1>7 DEF UserSaved, Writes
  <2>2. \A by \in Waiters : Awaits(by)' <=> Awaits(by) /\ by # w.by
    BY <1>6, <1>7, StepOfForm DEF UserSaved, Awaits, Waiters, Writers
  <2>3. \A by \in Waiters : Writing(by)' <=> Writing(by) /\ by # w.by
    BY <1>3, <1>4, <2>1 DEF Writing, Writes, Waiters
  <2>4. screen' = "waiting" => form' # Idle
    BY <1>7 DEF UserSaved, Served, WaitsAreServed
  <2>5. OneEach'
    BY <1>5, <2>1 DEF OneEach
  <2> QED BY <2>2, <2>3, <2>4, <2>5 DEF Served, WaitsAreServed, Waiters
<1>8. CASE TokenSaved(w)
  <2>1. /\ Writes' = 1..n - 1 \cup {n} /\ n \notin 1..n - 1
        /\ channel'[n].by = w.by
    BY <1>1, <1>8 DEF TokenSaved, Writes, SetUser
  <2>2. \A by \in Waiters : Awaits(by)' <=> Awaits(by)
    BY <1>8 DEF TokenSaved, Awaits
  <2>3. \A by \in Waiters : Writing(by)' <=> Writing(by)
    <3>1. w.by \in Waiters => Writing(w.by)
      BY <1>1, <1>2 DEF Writing, Writes
    <3>2. \A by : Writing(by)' <=> \E i \in Writes' : channel'[i].by = by
      BY DEF Writing, Writes
    <3> QED BY <1>4, <2>1, <3>1, <3>2
  <2>4. screen' = "waiting" => form' # Idle
    BY <1>8 DEF TokenSaved, Served, WaitsAreServed
  <2>5. OneEach'
    BY <1>3, <1>5, <2>1 DEF OneEach
  <2> QED BY <2>2, <2>3, <2>4, <2>5 DEF Served, WaitsAreServed, Waiters
<1> QED BY <1>1, <1>7, <1>8

LEMMA ServedStep ==
  ASSUME TypeOK, Basics, Served, [Next]_vars
  PROVE  Served'
<1> USE StepOfForm DEF forms, memory
<1>1. screen = "waiting" => form # Idle
  BY DEF Served, WaitsAreServed
<1>2. ASSUME channel' = channel, app' = app,
             form'.step = "saving" <=> form.step = "saving",
             sync'.step = "saving" <=> sync.step = "saving",
             update'.step = "saving" <=> update.step = "saving",
             screen' = "waiting" => form' # Idle
      PROVE  Served'
  BY <1>2, ServedKept DEF Awaits
<1>3. CASE HandleRegister
  <2>1. form'.step = "answered"
    BY <1>3, FormSteps DEF HandleRegister, TypeOK
  <2> QED BY <1>2, <1>3, <2>1 DEF HandleRegister
<1>4. CASE HandleLogin
  <2>1. form'.step \in {"refused", "answered"}
    BY <1>4, FormSteps DEF HandleLogin, TypeOK
  <2> QED BY <1>2, <1>4, <2>1 DEF HandleLogin
<1>5. CASE HandleGetMe
  <2>1. sync'.step \in {"refused", "answered"}
    BY <1>5, SyncSteps DEF HandleGetMe, TypeOK
  <2> QED BY <1>1, <1>2, <1>5, <2>1 DEF HandleGetMe
<1>6. CASE HandleUpdateProfile
  <2>1. update'.step \in {"refused", "answered"}
    BY <1>6, UpdateSteps DEF HandleUpdateProfile, TypeOK
  <2> QED BY <1>1, <1>2, <1>6, <2>1 DEF HandleUpdateProfile
<1>7. ASSUME NEW u \in Users, ChangeElsewhere(u)
      PROVE  Served'
  BY <1>1, <1>2, <1>7 DEF ChangeElsewhere
<1>8. CASE OpenLogin
  BY <1>2, <1>8 DEF OpenLogin
<1>9. CASE Back
  BY <1>2, <1>9 DEF Back
<1>10. ASSUME NEW u \in Users, NEW kind \in {"login", "register"}, Submit(u, kind)
       PROVE  Served'
  <2>1. form'.step = "sent" /\ form.step = "idle"
    BY <1>10 DEF Submit
  <2> QED BY <1>2, <1>10, <2>1 DEF Submit
<1>11. CASE ApplyLogin
  <2>1. form'.step = "saving" /\ form.step = "answered" /\ form.token \in Token
    BY <1>11, FormSteps DEF ApplyLogin, TypeOK
  <2>2. SetToken("login", form.token) \in Write
    BY <2>1, WriteKinds DEF Writers
  <2>3. \A by \in Waiters : Awaits(by)' <=> Awaits(by) \/ by = "login"
    BY <1>11, <2>1 DEF ApplyLogin, Awaits
  <2> QED BY <1>11, <2>1, <2>2, <2>3, ServedPut DEF ApplyLogin, SetToken, Awaits
<1>12. CASE FormEnds
  BY <1>2, <1>12 DEF FormEnds, FormAnswered
<1>13. CASE PressLogout
  <2>1. SetToken("logout", Null) \in Write
    BY WriteKinds DEF Writers
  <2>2. \A by \in Waiters : Awaits(by)' <=> Awaits(by) \/ by = "logout"
    BY <1>13 DEF PressLogout, Awaits, Waiters
  <2> QED BY <1>1, <1>13, <2>1, <2>2, ServedPut DEF PressLogout, Forget, SetToken
<1>14. ASSUME NEW w \in Write, Put(w), w.by = "sync",
              sync.step # "saving", sync'.step = "saving",
              UNCHANGED <<app, forms, update>>
       PROVE  Served'
  <2>1. \A by \in Waiters : Awaits(by)' <=> Awaits(by) \/ by = "sync"
    BY <1>14 DEF Awaits
  <2> QED BY <1>1, <1>14, <2>1, ServedPut DEF Awaits
<1>15. CASE ApplySync
  <2>1. sync'.step = "saving" /\ sync.data \in Data
    BY <1>15, SyncSteps DEF ApplySync, TypeOK
  <2>2. SetUser("sync", sync.data) \in Write
    BY <2>1, WriteKinds DEF Writers
  <2> QED BY <1>14, <1>15, <2>1, <2>2 DEF ApplySync, SetUser
<1>16. CASE SyncLogsOut
  <2>1. sync'.step = "saving"
    BY <1>16, SyncSteps DEF SyncLogsOut, TypeOK
  <2>2. SetToken("sync", Null) \in Write
    BY WriteKinds DEF Writers
  <2> QED BY <1>14, <1>16, <2>1, <2>2 DEF SyncLogsOut, Forget, SetToken
<1>17. CASE SyncFails
  BY <1>1, <1>2, <1>17 DEF SyncFails
<1>18. ASSUME NEW v \in Versions, SaveProfile(v)
       PROVE  Served'
  BY <1>1, <1>2, <1>18 DEF SaveProfile
<1>19. CASE ApplyUpdate
  <2>1. CASE user = Null
    BY <1>1, <1>2, <1>19, <2>1 DEF ApplyUpdate
  <2>2. CASE user # Null
    <3>1. user' \in Data /\ update'.step = "saving" /\ update.step = "answered"
      BY <1>19, <2>2, UpdateSteps DEF ApplyUpdate, TypeOK, Data
    <3>2. SetUser("update", user') \in Write
      BY <3>1, WriteKinds DEF Writers
    <3>3. \A by \in Waiters : Awaits(by)' <=> Awaits(by) \/ by = "update"
      BY <1>19, <2>2, <3>1 DEF ApplyUpdate, Awaits
    <3> QED BY <1>1, <1>19, <2>2, <3>1, <3>2, <3>3, ServedPut
          DEF ApplyUpdate, SetUser, Awaits
  <2> QED BY <2>1, <2>2
<1>20. CASE UpdateFails
  BY <1>1, <1>2, <1>20 DEF UpdateFails
<1>21. CASE WriteDisk
  BY <1>21, ServedTaken
<1>22. CASE Start
  <2>1. app = "off" /\ form = Idle /\ screen = "main" /\ sync = Idle
    BY <1>22 DEF Start, Basics, OffIsIdle
  <2>2. CASE disk.token # Null /\ disk.user # Null
    <3>1. \A by \in Waiters : Awaits(by)' <=> Awaits(by)
      BY <1>22, <2>1, <2>2 DEF Start, Awaits
    <3> QED BY <1>22, <2>1, <2>2, <3>1, ServedKept DEF Start
  <2>3. CASE ~(disk.token # Null /\ disk.user # Null)
    <3>1. SetToken("boot", Null) \in Write
      BY WriteKinds DEF Writers
    <3>2. \A by \in Waiters : Awaits(by)' <=> Awaits(by) \/ by = "boot"
      BY <1>22, <2>3 DEF Start, Awaits
    <3>3. ~Awaits("boot")
      BY <2>1 DEF Awaits
    <3> QED BY <1>1, <1>22, <2>3, <3>1, <3>2, <3>3, ServedPut
          DEF Start, Forget, SetToken
  <2> QED BY <2>2, <2>3
<1>23. CASE Kill
  <2>1. Writes' = {}
    BY <1>23, EmptySeq DEF Kill, Writes
  <2>2. \A by \in Waiters : ~Awaits(by)'
    BY <1>23 DEF Kill, Awaits
  <2> QED BY <1>23, <2>1, <2>2
        DEF Kill, Served, WaitsAreServed, OneEach, Writing, Writes, Waiters
<1>24. CASE Tick
  BY <1>1, <1>2, <1>24 DEF Tick
<1>25. CASE UNCHANGED vars
  BY <1>1, <1>2, <1>25 DEF vars
<1> QED BY <1>3, <1>4, <1>5, <1>6, <1>7, <1>8, <1>9, <1>10, <1>11, <1>12, <1>13,
       <1>15, <1>16, <1>17, <1>18, <1>19, <1>20, <1>21, <1>22, <1>23, <1>24, <1>25
   DEF Next

-----------------------------------------------------------------------------
(* The theorems.                                                           *)

LEMMA IInvInit == Init => IInv
BY TypeOKInit, BasicsInit, OneSessionInit DEF IInv

LEMMA IInvStep == IInv /\ [Next]_vars => IInv'
BY TypeOKStep, BasicsStep, OneSessionStep DEF IInv

LEMMA IInvAlways == Spec => []IInv
BY IInvInit, IInvStep, PTL DEF Spec

(* The phone's memory, its disk and the requests under way keep their      *)
(* kinds: no error body is taken for a user, no token for user data.       *)
THEOREM SessionTypes == Spec => []TypeOK
BY IInvAlways, PTL DEF IInv

(* Once a logout has removed the token, only a login brings one back,      *)
(* whatever is answered, written, killed and restarted meanwhile.          *)
THEOREM LogoutIsFinal == Spec => []LogoutSticks
<1>1. IInv => LogoutSticks
  BY DEF IInv, Basics, Removed, LogoutSticks
<1> QED BY <1>1, IInvAlways, PTL

(* No token is paired with the data of somebody else, on screen or on      *)
(* disk, wherever the app is killed and however often the form is left and *)
(* submitted again, but for what a login over another session leaves on    *)
(* disk between its two writes, and for answers that outlive a session.    *)
THEOREM SessionsDoNotMix == Spec => []NoMixedSession
<1>1. IInv => NoMixedSession
  BY DEF IInv, OneSession, Pairs, NoMixedSession
<1> QED BY <1>1, IInvAlways, PTL

(* When the last write has reached the disk, it holds what is shown.       *)
THEOREM DiskHoldsTheSession == Spec => []SavedIsShown
<1>1. IInv => SavedIsShown
  <2> SUFFICES ASSUME IInv, ~crossed, app = "on", channel = <<>>
               PROVE  disk = [token |-> token, user |-> user]
    BY DEF SavedIsShown
  <2>1. OneSession /\ form.step # "saving"
    BY EmptySeq DEF IInv, OneSession, Saving, OneLeft, TwoLeft
  <2>2. NoTokenWrite
    BY EmptySeq DEF NoTokenWrite, Writes
  <2>3. disk.token = token /\ disk.user = user
    BY <2>1, <2>2 DEF OneSession, Settling
  <2> QED BY <2>3 DEF IInv, TypeOK
<1> QED BY <1>1, IInvAlways, PTL

(* A spinner has what it waits for under way, and nobody goes on before    *)
(* his writes have reached the disk: at start, at login, on a 401 and      *)
(* after a change of the profile.                                          *)
THEOREM SpinnersAreServed == Spec => []WaitsAreServed
<1>1. Init => Served
  <2> SUFFICES ASSUME Init PROVE Served
    OBVIOUS
  <2>1. Writes = {} /\ \A by \in Waiters : ~Awaits(by)
    BY EmptySeq DEF Init, Writes, Awaits, Idle
  <2> QED BY <2>1 DEF Init, Served, WaitsAreServed, OneEach, Writing, Writes, Waiters
<1>2. IInv /\ Served /\ [Next]_vars => Served'
  BY ServedStep DEF IInv
<1>3. Served => WaitsAreServed
  BY DEF Served
<1> QED BY <1>1, <1>2, <1>3, IInvAlways, PTL DEF Spec
=============================================================================
