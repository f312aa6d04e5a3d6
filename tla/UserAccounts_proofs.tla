-------------------------- MODULE UserAccounts_proofs --------------------------
(***************************************************************************)
(* Theorems about UserAccounts, for any persons, browsers, addresses and   *)
(* numbers of rows and requests.                                           *)
(*                                                                         *)
(* What holds them together is that a row never changes hands: an id that  *)
(* was given out belongs to the same identity for ever, so that an id that *)
(* a handler, a cookie or a request kept is never taken for another one.   *)
(***************************************************************************)
EXTENDS UserAccounts, TLAPS

USE DEF given, table

\* The steps that insert a row, delete some, change one, or leave the table alone.
Inserts ==
  \/ \E b \in Browser : Register(b)
  \/ \E p \in Person, e \in Email, known \in BOOLEAN : AddUser(p, e, known)

Deletes == DeleteAll \/ \E u \in UserId : DeleteUser(u)

Approves == (\E e \in Email : AcceptUser(e)) \/ \E p \in Person : ApproveUser(p)

Edits == \E b \in Browser : RenewToken(b) \/ \E e \in Email : EditProfile(b, e)

BrowserOnly(b) ==
  \/ SignOut(b) \/ RegisterFails(b) \/ Answer(b) \/ AnswerFails(b)
  \/ Announce(b) \/ AnnounceFails(b)
  \/ \E p \in Person : SignIn(b, p)
  \/ \E e \in Email : CreateProfile(b, e)

LEMMA Cases ==
  ASSUME [AccountsNext]_accountVars
  PROVE  \/ Inserts \/ Deletes \/ Approves \/ Edits \/ ClientStep \/ UNCHANGED accountVars
         \/ \E b \in Browser : Claim(b) \/ BrowserOnly(b)
BY DEF AccountsNext, BrowserStep, AdministratorStep, Inserts, Deletes, Approves, Edits, BrowserOnly

\* Nothing changes what is given, and history only grows.
LEMMA Onwards ==
  ASSUME [AccountsNext]_accountVars
  PROVE  /\ linked' = linked /\ webhook' = webhook
         /\ messages \subseteq messages' /\ listed \subseteq listed'
         /\ faults' = faults \/ faults' = faults + 1
<1>1. CASE Inserts \/ Deletes \/ Approves \/ Edits \/ ClientStep \/ UNCHANGED accountVars
  BY <1>1 DEF Inserts, Deletes, Approves, Edits, ClientStep, accountVars, Register, AddUser, DeleteAll,
     DeleteUser, AcceptUser, ApproveUser, RenewToken, EditProfile, RefreshAccess, Expire, Admit,
     SaveRequest, others
<1>2. ASSUME NEW b \in Browser, Claim(b) \/ BrowserOnly(b)
      PROVE  /\ linked' = linked /\ webhook' = webhook
             /\ messages \subseteq messages' /\ listed \subseteq listed'
             /\ faults' = faults \/ faults' = faults + 1
  BY <1>2 DEF Claim, BrowserOnly, SignOut, RegisterFails, Answer, AnswerFails, Announce, AnnounceFails,
     Fault, SignIn, CreateProfile
<1> QED  BY <1>1, <1>2, Cases

\* What a step may make of a cookie ...
CookieMoves(b) ==
  \/ session'[b] \in {session[b], NoCookie}
  \/ \E p \in Person, u \in users \cup {session[b].id} :
       /\ u # session[b].id => row[u].sub \in linked[p]
       /\ session'[b] = [in |-> TRUE, sub |-> p, id |-> u, signed |-> session[b].signed \cup {p}]
  \/ form[b].at # "idle" /\ session'[b] = [form[b].cookie EXCEPT !.id = Nobody]
  \/ form[b].at = "announce" /\ session'[b] = [form[b].cookie EXCEPT !.id = form[b].id]

\* ... and of a registration.
FormMoves(b) ==
  \/ form'[b] \in {form[b], Idle}
  \/ \E e \in Email, at \in {"claim", "insert"} :
       /\ form[b].at = "idle" /\ session[b].in
       /\ form'[b] = [at |-> at, email |-> e, id |-> Nobody, cookie |-> session[b]]
  \/ Register(b) /\ form'[b] = [form[b] EXCEPT !.at = "announce", !.id = serial']

LEMMA BrowsersMove ==
  ASSUME AccountsTypeOK, [AccountsNext]_accountVars
  PROVE  /\ session' = [b \in Browser |-> session'[b]] /\ form' = [b \in Browser |-> form'[b]]
         /\ \A b \in Browser : CookieMoves(b) /\ FormMoves(b)
<1> DEFINE Goal == /\ session' = [b \in Browser |-> session'[b]]
                   /\ form' = [b \in Browser |-> form'[b]]
                   /\ \A b \in Browser : CookieMoves(b) /\ FormMoves(b)
<1>0. session = [b \in Browser |-> session[b]] /\ form = [b \in Browser |-> form[b]]
  BY DEF AccountsTypeOK
<1>1. ASSUME NEW b \in Browser, NEW c, NEW f,
             session' = [session EXCEPT ![b] = c], form' = [form EXCEPT ![b] = f],
             session'[b] = c /\ form'[b] = f => CookieMoves(b) /\ FormMoves(b)
      PROVE  Goal
  <2>1. /\ session' = [x \in Browser |-> IF x = b THEN c ELSE session[x]]
        /\ form' = [x \in Browser |-> IF x = b THEN f ELSE form[x]]
    BY <1>0, <1>1
  <2>2. CookieMoves(b) /\ FormMoves(b)
    BY <1>1, <2>1
  <2>3. \A x \in Browser \ {b} : CookieMoves(x) /\ FormMoves(x)
    BY <2>1 DEF CookieMoves, FormMoves
  <2> QED  BY <2>1, <2>2, <2>3
<1>2. ASSUME NEW b \in Browser, NEW f, UNCHANGED session, form' = [form EXCEPT ![b] = f],
             form'[b] = f => FormMoves(b)
      PROVE  Goal
  <2>1. session' = [session EXCEPT ![b] = session[b]]
    BY <1>0, <1>2
  <2>2. session'[b] = session[b] => CookieMoves(b)
    BY DEF CookieMoves
  <2> QED  BY <1>1, <1>2, <2>1, <2>2
<1>3. ASSUME NEW b \in Browser, NEW c, UNCHANGED form, session' = [session EXCEPT ![b] = c],
             session'[b] = c => CookieMoves(b)
      PROVE  Goal
  <2>1. form' = [form EXCEPT ![b] = form[b]]
    BY <1>0, <1>3
  <2>2. form'[b] = form[b] => FormMoves(b)
    BY DEF FormMoves
  <2> QED  BY <1>1, <1>3, <2>1, <2>2
<1>4. CASE UNCHANGED <<session, form>>
  BY <1>0, <1>4 DEF CookieMoves, FormMoves
<1>5. ASSUME NEW b \in Browser, NEW p \in Person, SignIn(b, p)  PROVE Goal
  <2>1. PICK u \in users \cup {session[b].id} :
          /\ u # session[b].id => row[u].sub \in linked[p]
          /\ session' = [session EXCEPT ![b] =
               [in |-> TRUE, sub |-> p, id |-> u, signed |-> session[b].signed \cup {p}]]
    BY <1>5 DEF SignIn
  <2>2. UNCHANGED form
    BY <1>5 DEF SignIn
  <2> DEFINE c == [in |-> TRUE, sub |-> p, id |-> u, signed |-> session[b].signed \cup {p}]
  <2>3. session'[b] = c => CookieMoves(b)
    BY <2>1 DEF CookieMoves
  <2> QED  BY <1>3, <2>1, <2>2, <2>3
<1>6. ASSUME NEW b \in Browser, SignOut(b)  PROVE Goal
  <2>1. session'[b] = NoCookie => CookieMoves(b)
    BY DEF CookieMoves
  <2> QED  BY <1>3, <1>6, <2>1 DEF SignOut
<1>7. ASSUME NEW b \in Browser, NEW e \in Email, CreateProfile(b, e)  PROVE Goal
  <2>1. PICK at \in {"claim", "insert"} :
          form' = [form EXCEPT ![b] = [at |-> at, email |-> e, id |-> Nobody, cookie |-> session[b]]]
    BY <1>7 DEF CreateProfile
  <2>2. UNCHANGED session /\ form[b].at = "idle" /\ session[b].in
    BY <1>7 DEF CreateProfile
  <2> DEFINE f == [at |-> at, email |-> e, id |-> Nobody, cookie |-> session[b]]
  <2>3. form'[b] = f => FormMoves(b)
    BY <2>2 DEF FormMoves
  <2> QED  BY <1>2, <2>1, <2>2, <2>3
<1>8. ASSUME NEW b \in Browser, RegisterFails(b) \/ AnswerFails(b)  PROVE Goal
  <2>1. form'[b] = Idle => FormMoves(b)
    BY DEF FormMoves
  <2> QED  BY <1>2, <1>8, <2>1 DEF RegisterFails, AnswerFails, GiveUp
<1>9. ASSUME NEW b \in Browser, Claim(b) \/ Answer(b) \/ Announce(b) \/ AnnounceFails(b)  PROVE Goal
  <2>1. form'[b] = Idle => FormMoves(b)
    BY DEF FormMoves
  <2>2. ASSUME NEW u, Reply(b, u), session'[b] = [form[b].cookie EXCEPT !.id = u] => CookieMoves(b)
        PROVE  Goal
    BY <1>1, <2>1, <2>2 DEF Reply
  <2>3. CASE Claim(b)
    <3>1. Reply(b, Nobody) /\ form[b].at # "idle"
      BY <2>3 DEF Claim
    <3> QED  BY <2>2, <3>1 DEF CookieMoves
  <2>4. CASE Answer(b) \/ Announce(b) \/ AnnounceFails(b)
    <3>1. form[b].at = "announce" /\ (Reply(b, form[b].id) \/ GiveUp(b))
      BY <2>4 DEF Answer, Announce, AnnounceFails, ToAnnounce
    <3>2. CASE Reply(b, form[b].id)
      BY <2>2, <3>1, <3>2 DEF CookieMoves
    <3>3. CASE GiveUp(b)
      BY <1>2, <2>1, <3>3 DEF GiveUp
    <3> QED  BY <3>1, <3>2, <3>3
  <2> QED  BY <1>9, <2>3, <2>4
<1>10. ASSUME NEW b \in Browser, Register(b)  PROVE Goal
  <2>1. /\ form' = [form EXCEPT ![b] = [form[b] EXCEPT !.at = "announce", !.id = serial']]
        /\ UNCHANGED session
    BY <1>0, <1>10 DEF Register
  <2>2. form'[b] = [form[b] EXCEPT !.at = "announce", !.id = serial'] => FormMoves(b)
    BY <1>10 DEF FormMoves
  <2> QED  BY <1>2, <2>1, <2>2
<1>11. CASE Deletes \/ Approves \/ Edits \/ ClientStep \/ UNCHANGED accountVars
            \/ \E p \in Person, e \in Email, known \in BOOLEAN : AddUser(p, e, known)
  BY <1>4, <1>11 DEF Deletes, Approves, Edits, ClientStep, accountVars, AddUser, DeleteAll,
     DeleteUser, AcceptUser, ApproveUser, RenewToken, EditProfile, RefreshAccess, Expire, Admit,
     SaveRequest, others
<1> QED  BY <1>5, <1>6, <1>7, <1>8, <1>9, <1>10, <1>11, Cases DEF Inserts, BrowserOnly
-----------------------------------------------------------------------------
(***************************************************************************)
(* Who signed in with a cookie                                             *)
(***************************************************************************)
\* The sub of a session, and the one a registration is for, is of somebody who signed in.
SignedBy ==
  /\ \A b \in Browser : session[b].in => session[b].sub \in session[b].signed
  /\ \A b \in Browser : form[b].at # "idle" =>
       form[b].cookie.in /\ form[b].cookie.sub \in form[b].cookie.signed

LEMMA SignedByKept ==
  ASSUME AccountsTypeOK, SignedBy, [AccountsNext]_accountVars  PROVE SignedBy'
<1> SUFFICES ASSUME NEW b \in Browser
             PROVE  /\ session'[b].in => session'[b].sub \in session'[b].signed
                    /\ form'[b].at # "idle" =>
                         form'[b].cookie.in /\ form'[b].cookie.sub \in form'[b].cookie.signed
  BY DEF SignedBy
<1>0. session[b] \in Cookie(0..serial) /\ form[b] \in Form(0..serial)
  BY DEF AccountsTypeOK
<1>1. session'[b].in => session'[b].sub \in session'[b].signed
  <2>1. \A u : LET c == [form[b].cookie EXCEPT !.id = u]
               IN c.sub = form[b].cookie.sub /\ c.signed = form[b].cookie.signed
    BY <1>0 DEF Form, Cookie
  <2>2. CookieMoves(b)
    BY BrowsersMove
  <2>3. CASE session'[b] \in {session[b], NoCookie}
    BY <2>3 DEF SignedBy, NoCookie
  <2>4. CASE \E p \in Person, u \in users \cup {session[b].id} :
               session'[b] = [in |-> TRUE, sub |-> p, id |-> u, signed |-> session[b].signed \cup {p}]
    BY <2>4
  <2>5. ASSUME NEW u, form[b].at # "idle", session'[b] = [form[b].cookie EXCEPT !.id = u]
        PROVE  session'[b].sub \in session'[b].signed
    BY <2>1, <2>5 DEF SignedBy
  <2> QED  BY <2>2, <2>3, <2>4, <2>5 DEF CookieMoves
<1>2. form'[b].at # "idle" => form'[b].cookie.in /\ form'[b].cookie.sub \in form'[b].cookie.signed
  <2>1. CASE form'[b] \in {form[b], Idle}
    BY <2>1 DEF SignedBy, Idle
  <2>2. CASE \E e \in Email, at \in {"claim", "insert"} :
               /\ session[b].in
               /\ form'[b] = [at |-> at, email |-> e, id |-> Nobody, cookie |-> session[b]]
    BY <2>2 DEF SignedBy
  <2>3. CASE Register(b) /\ form'[b] = [form[b] EXCEPT !.at = "announce", !.id = serial']
    <3>1. form'[b].cookie = form[b].cookie /\ form[b].at # "idle"
      BY <1>0, <2>3 DEF Form, Register
    <3> QED  BY <3>1 DEF SignedBy
  <2> QED  BY <2>1, <2>2, <2>3, BrowsersMove DEF FormMoves
<1> QED  BY <1>1, <1>2

\* Whom a registration is for.
LEMMA Applicant ==
  ASSUME AccountsTypeOK, SignedBy, NEW b \in Browser, form[b].at # "idle"
  PROVE  form[b].cookie.sub \in Person /\ form[b].cookie.sub # None /\ form[b].email \in Email
<1>1. form[b] \in Form(0..serial)
  BY DEF AccountsTypeOK
<1> QED  BY <1>1, AccountsAssumption DEF SignedBy, Form, Cookie, None
-----------------------------------------------------------------------------
(***************************************************************************)
(* The table of users                                                      *)
(***************************************************************************)
\* What INSERT does.
LEMMA Inserted ==
  ASSUME AccountsTypeOK, NEW r \in Row, Insert(r)
  PROVE  /\ serial' = serial + 1 /\ serial' \in 0..MaxUsers
         /\ users' = users \cup {serial'} /\ users' \subseteq 1..serial'
         /\ row' \in [1..serial' -> Row]
         /\ row'[serial'] = r
         /\ \A u \in 1..serial : row'[u] = row[u]
<1>1. serial \in Nat /\ MaxUsers \in Nat /\ users \subseteq 1..serial /\ row \in [1..serial -> Row]
  BY AccountsAssumption DEF AccountsTypeOK
<1>2. serial' = serial + 1 /\ serial' \in 0..MaxUsers
  BY <1>1 DEF Insert
<1>3. row' = [u \in 1..serial' |-> IF u = serial' THEN r ELSE row[u]]
  BY DEF Insert
<1>4. ASSUME NEW u \in 1..serial'  PROVE IF u = serial' THEN TRUE ELSE u \in 1..serial
  BY <1>1, <1>2
<1>5. row' \in [1..serial' -> Row]
  BY <1>1, <1>3, <1>4
<1> QED  BY <1>1, <1>2, <1>3, <1>5 DEF Insert

\* The row of one who signs up, and the one that an administrator adds.
LEMMA SignUp ==
  ASSUME AccountsTypeOK, SignedBy, NEW b \in Browser, Register(b)
  PROVE  \E r \in Row : /\ Insert(r) /\ r.sub = form[b].cookie.sub
                        /\ \A u \in users : row[u].sub # r.sub /\ row[u].email # r.email
<1>1. form[b].at # "idle"
  BY DEF Register
<1>2. [sub |-> form[b].cookie.sub, email |-> form[b].email, token |-> form[b].cookie.sub,
       pending |-> form[b].email # AdminEmail] \in Row
  BY <1>1, Applicant DEF Row
<1> QED  BY <1>2 DEF Register, FindBySub, FindByEmail

LEMMA Added ==
  ASSUME NEW p \in Person, NEW e \in Email, NEW known \in BOOLEAN, AddUser(p, e, known)
  PROVE  \E r \in Row : /\ Insert(r)
                        /\ \A u \in users : row[u].sub # r.sub /\ row[u].email # r.email
<1>1. [sub |-> p, email |-> e, pending |-> ~ known, token |-> IF known THEN p ELSE None] \in Row
  BY DEF Row
<1> QED  BY <1>1 DEF AddUser, FindBySub, FindByEmail

LEMMA NewRow ==
  ASSUME AccountsTypeOK, SignedBy, Inserts
  PROVE  \E r \in Row : /\ Insert(r)
                        /\ \A u \in users : row[u].sub # r.sub /\ row[u].email # r.email
BY SignUp, Added DEF Inserts

TableTyped ==
  /\ serial \in 0..MaxUsers /\ users \subseteq 1..serial
  /\ row \in [1..serial -> Row]
  /\ \A u, v \in users : u # v => row[u].sub # row[v].sub /\ row[u].email # row[v].email

\* A row is of one identity for ever, and ids are never used twice.
RowsStay ==
  /\ serial' \in Nat /\ serial \in Nat /\ serial <= serial'
  /\ \A u \in 1..serial : row'[u].sub = row[u].sub
  /\ users' \subseteq users \cup ((serial + 1)..serial')

LEMMA Deletion ==
  ASSUME AccountsTypeOK, Deletes
  PROVE  /\ serial' = serial /\ users' \subseteq users /\ row' \in [1..serial -> Row]
         /\ \A u \in 1..serial : row'[u].sub = row[u].sub
         /\ \A u \in users' : row'[u] = row[u]
<1>1. row \in [1..serial -> Row] /\ users \subseteq 1..serial
  BY DEF AccountsTypeOK
<1>2. PICK U : row' = Deleted(U) /\ users' = users \ U /\ serial' = serial
  BY DEF Deletes, DeleteAll, DeleteUser
<1>3. ASSUME NEW u \in 1..serial
      PROVE  [sub |-> row[u].sub, email |-> AdminEmail, pending |-> TRUE, token |-> None] \in Row
  BY <1>1, AccountsAssumption DEF Row
<1>4. \A u \in 1..serial : row'[u].sub = row[u].sub /\ (u \notin U => row'[u] = row[u])
  BY <1>2, <1>3 DEF Deleted
<1>5. row' \in [1..serial -> Row]
  BY <1>1, <1>2, <1>3 DEF Deleted
<1> QED  BY <1>1, <1>2, <1>4, <1>5

\* A row that is approved, claimed or gets another token or address: what stays.
LEMMA Rewritten ==
  ASSUME AccountsTypeOK, SignedBy,
         Approves \/ Edits \/ \E b \in Browser : Claim(b)
  PROVE  /\ UNCHANGED <<users, serial>> /\ row' \in [1..serial -> Row]
         /\ \A u \in 1..serial : /\ row'[u].sub = row[u].sub
                                 /\ row'[u].pending => row[u].pending
<1>0. row \in [1..serial -> Row] /\ users \subseteq 1..serial
  BY DEF AccountsTypeOK
<1> DEFINE Goal == /\ UNCHANGED <<users, serial>> /\ row' \in [1..serial -> Row]
                   /\ \A u \in 1..serial : /\ row'[u].sub = row[u].sub
                                           /\ row'[u].pending => row[u].pending
<1>1. ASSUME NEW u \in users, NEW r \in Row, row' = [row EXCEPT ![u] = r], UNCHANGED <<users, serial>>,
             r.sub = row[u].sub, r.pending => row[u].pending
      PROVE  Goal
  <2>1. \A v \in 1..serial : row'[v] = IF v = u THEN r ELSE row[v]
    BY <1>0, <1>1
  <2>2. row' \in [1..serial -> Row]
    BY <1>0, <1>1
  <2> QED  BY <1>1, <2>1, <2>2
<1>2. CASE Approves
  <2>1. PICK u \in users : row' = [row EXCEPT ![u] = [row[u] EXCEPT !.pending = FALSE]]
    BY <1>2 DEF Approves, AcceptUser, ApproveUser, FindByEmail, FindBySub
  <2>2. row[u] \in Row
    BY <1>0
  <2>3. /\ [row[u] EXCEPT !.pending = FALSE] \in Row
        /\ [row[u] EXCEPT !.pending = FALSE].sub = row[u].sub
        /\ [row[u] EXCEPT !.pending = FALSE].pending = FALSE
    BY <2>2 DEF Row
  <2>4. UNCHANGED <<users, serial>>
    BY <1>2 DEF Approves, AcceptUser, ApproveUser
  <2> QED  BY <1>1, <2>1, <2>3, <2>4
<1>3. ASSUME NEW b \in Browser, RenewToken(b)  PROVE Goal
  <2>1. PICK u \in users : row[u].sub = session[b].sub
                           /\ row' = [row EXCEPT ![u] = [row[u] EXCEPT !.token = session[b].sub]]
    BY <1>3 DEF RenewToken, FindBySub
  <2>2. row[u] \in Row
    BY <1>0
  <2>3. /\ [row[u] EXCEPT !.token = session[b].sub] \in Row
        /\ [row[u] EXCEPT !.token = session[b].sub].sub = row[u].sub
        /\ [row[u] EXCEPT !.token = session[b].sub].pending = row[u].pending
    BY <2>1, <2>2 DEF Row
  <2>4. UNCHANGED <<users, serial>>
    BY <1>3 DEF RenewToken
  <2> QED  BY <1>1, <2>1, <2>3, <2>4
<1>4. ASSUME NEW b \in Browser, NEW e \in Email, EditProfile(b, e)  PROVE Goal
  <2>1. PICK u \in users : row' = [row EXCEPT ![u] = [row[u] EXCEPT !.email = e]]
    BY <1>4 DEF EditProfile, FindBySub
  <2>2. row[u] \in Row
    BY <1>0
  <2>3. /\ [row[u] EXCEPT !.email = e] \in Row
        /\ [row[u] EXCEPT !.email = e].sub = row[u].sub
        /\ [row[u] EXCEPT !.email = e].pending = row[u].pending
    BY <2>2 DEF Row
  <2>4. UNCHANGED <<users, serial>>
    BY <1>4 DEF EditProfile
  <2> QED  BY <1>1, <2>1, <2>3, <2>4
<1>5. ASSUME NEW b \in Browser, Claim(b)  PROVE Goal
  <2> DEFINE p == form[b].cookie.sub
  <2>1. form[b].at # "idle" /\ TakeRows(form[b].email, p) /\ UNCHANGED <<users, serial>>
    BY <1>5 DEF Claim
  <2>2. p \in Person
    BY <2>1, Applicant
  <2> DEFINE taken(u) == [row[u] EXCEPT !.token = p, !.pending = FALSE]
  <2>3. \A u \in 1..serial : /\ taken(u) \in Row /\ taken(u).sub = row[u].sub
                             /\ taken(u).pending = FALSE
    BY <1>0, <2>2 DEF Row
  <2>4. row' = [u \in 1..serial |-> IF u \in FindByEmail(form[b].email) THEN taken(u) ELSE row[u]]
    BY <2>1 DEF TakeRows
  <2> HIDE DEF taken, p
  <2> QED  BY <1>0, <2>1, <2>3, <2>4
<1> QED  BY <1>2, <1>3, <1>4, <1>5 DEF Edits

\* No address is used twice either.
LEMMA Distinct ==
  ASSUME AccountsTypeOK, SignedBy,
         Approves \/ Edits \/ \E b \in Browser : Claim(b)
  PROVE  \A u, v \in users : u # v => row'[u].email # row'[v].email
<1>0. /\ row \in [1..serial -> Row] /\ users \subseteq 1..serial
      /\ \A u, v \in users : u # v => row[u].email # row[v].email
  BY DEF AccountsTypeOK
<1>1. ASSUME NEW b \in Browser, NEW e \in Email, EditProfile(b, e)
      PROVE  \A u, v \in users : u # v => row'[u].email # row'[v].email
  <2>1. PICK u \in users : row' = [row EXCEPT ![u].email = e]
    BY <1>1 DEF EditProfile, FindBySub
  <2>2. \A v \in users : row[v].email # e
    BY <1>1 DEF EditProfile, FindByEmail
  <2>3. row'[u].email = e /\ \A v \in users \ {u} : row'[v] = row[v]
    BY <1>0, <2>1 DEF Row
  <2> QED  BY <1>0, <2>2, <2>3
<1>2. CASE Approves \/ (\E b \in Browser : RenewToken(b))
  <2>1. PICK u \in users : \/ row' = [row EXCEPT ![u] = [row[u] EXCEPT !.pending = FALSE]]
                           \/ \E p : row' = [row EXCEPT ![u] = [row[u] EXCEPT !.token = p]]
    BY <1>2 DEF Approves, AcceptUser, ApproveUser, RenewToken, FindByEmail, FindBySub
  <2>0. /\ [row[u] EXCEPT !.pending = FALSE].email = row[u].email
        /\ \A p : [row[u] EXCEPT !.token = p].email = row[u].email
    BY <1>0 DEF Row
  <2>3. PICK x : row' = [row EXCEPT ![u] = x] /\ x.email = row[u].email
    BY <2>1, <2>0
  <2>2. \A v \in users : row'[v].email = row[v].email
    BY <1>0, <2>3
  <2> QED  BY <1>0, <2>2
<1>3. ASSUME NEW b \in Browser, Claim(b)
      PROVE  \A u, v \in users : u # v => row'[u].email # row'[v].email
  <2> DEFINE taken(v) == [row[v] EXCEPT !.token = form[b].cookie.sub, !.pending = FALSE]
  <2>2. \A v \in users : row'[v] = row[v] \/ row'[v] = taken(v)
    BY <1>0, <1>3 DEF Claim, TakeRows
  <2>3. \A v \in users : taken(v).email = row[v].email
    BY <1>0 DEF Row
  <2> HIDE DEF taken
  <2>1. \A v \in users : row'[v].email = row[v].email
    BY <2>2, <2>3
  <2> QED  BY <1>0, <2>1
<1> QED  BY <1>1, <1>2, <1>3 DEF Edits

LEMMA TableKept ==
  ASSUME AccountsTypeOK, SignedBy, [AccountsNext]_accountVars  PROVE TableTyped' /\ RowsStay
<1>0. /\ serial \in Nat /\ MaxUsers \in Nat /\ row \in [1..serial -> Row] /\ users \subseteq 1..serial
      /\ TableTyped
  BY AccountsAssumption DEF AccountsTypeOK, TableTyped
<1>1. CASE Inserts
  <2>1. PICK r \in Row : /\ Insert(r)
                         /\ \A u \in users : row[u].sub # r.sub /\ row[u].email # r.email
    BY <1>1, NewRow
  <2>2. /\ serial' = serial + 1 /\ serial' \in 0..MaxUsers
        /\ users' = users \cup {serial'} /\ users' \subseteq 1..serial'
        /\ row' \in [1..serial' -> Row]
        /\ row'[serial'] = r
        /\ \A u \in 1..serial : row'[u] = row[u]
    BY <2>1, Inserted
  <2>3. \A u \in users : row'[u] = row[u]
    BY <1>0, <2>2
  <2>4. \A u, v \in users' : u # v => row'[u].sub # row'[v].sub /\ row'[u].email # row'[v].email
    BY <1>0, <2>1, <2>2, <2>3 DEF TableTyped
  <2>5. RowsStay
    BY <1>0, <2>2 DEF RowsStay
  <2> QED  BY <2>2, <2>4, <2>5 DEF TableTyped
<1>2. CASE Deletes
  <2>1. /\ serial' = serial /\ users' \subseteq users /\ row' \in [1..serial -> Row]
        /\ \A u \in 1..serial : row'[u].sub = row[u].sub
        /\ \A u \in users' : row'[u] = row[u]
    BY <1>2, Deletion
  <2> QED  BY <1>0, <2>1 DEF TableTyped, RowsStay
<1>3. CASE Approves \/ Edits \/ \E b \in Browser : Claim(b)
  <2>1. /\ UNCHANGED <<users, serial>> /\ row' \in [1..serial -> Row]
        /\ \A u \in 1..serial : row'[u].sub = row[u].sub
    BY <1>3, Rewritten
  <2>2. \A u, v \in users' : u # v => row'[u].sub # row'[v].sub /\ row'[u].email # row'[v].email
    BY <1>0, <1>3, <2>1, Distinct DEF TableTyped
  <2> QED  BY <1>0, <2>1, <2>2 DEF TableTyped, RowsStay
<1>4. CASE UNCHANGED accountVars \/ ClientStep \/ \E b \in Browser : BrowserOnly(b)
  <2>1. UNCHANGED <<users, row, serial>>
    BY <1>4 DEF accountVars, ClientStep, RefreshAccess, Expire, Admit, SaveRequest, BrowserOnly, SignIn,
       SignOut, CreateProfile, RegisterFails, Answer, AnswerFails, Announce, AnnounceFails
  <2> QED  BY <1>0, <2>1 DEF TableTyped, RowsStay
<1> QED  BY <1>1, <1>2, <1>3, <1>4, Cases
-----------------------------------------------------------------------------
(***************************************************************************)
(* Who the cookies, the handlers and the requests are of                   *)
(***************************************************************************)
\* The row of an id that was given out is linked to somebody who signed in.
Owned(c) == c.id # Nobody => \E p \in c.signed : row[c.id].sub \in linked[p]

\* What the handlers, the sessions and the tokens remember is of the identity they are for.
Known ==
  /\ \A b \in Browser : Owned(session[b]) /\ Owned(form[b].cookie)
  /\ \A b \in Browser : form[b].at = "announce" =>
       form[b].id # Nobody /\ row[form[b].id].sub = form[b].cookie.sub
  /\ \A p \in access \cup (admitted \ {None}) : \E u \in 1..serial : row[u].sub = p

\* A cookie that was of its owner is after the step too.
LEMMA StillOwned ==
  ASSUME AccountsTypeOK, SignedBy, [AccountsNext]_accountVars,
         NEW c \in Cookie(0..serial), Owned(c)
  PROVE  c.id # Nobody => \E p \in c.signed : row'[c.id].sub \in linked'[p]
<1>1. c.id \in 0..serial /\ serial \in Nat
  BY DEF Cookie, AccountsTypeOK
<1>2. c.id # Nobody => c.id \in 1..serial
  BY <1>1 DEF Nobody
<1> QED  BY <1>2, Onwards, TableKept DEF Owned, RowsStay

LEMMA KnownKept ==
  ASSUME AccountsTypeOK, SignedBy, Known, [AccountsNext]_accountVars  PROVE Known'
<1>0. /\ \A b \in Browser : session[b] \in Cookie(0..serial) /\ form[b] \in Form(0..serial)
                            /\ form[b].cookie \in Cookie(0..serial)
      /\ serial \in Nat /\ users \subseteq 1..serial /\ linked \in Linking
  BY AccountsAssumption DEF AccountsTypeOK, Form
<1> DEFINE Mine(c) == c.id # Nobody => \E p \in c.signed : row'[c.id].sub \in linked'[p]
<1>1. /\ RowsStay /\ linked' = linked
  BY TableKept, Onwards
<1>2. ASSUME NEW b \in Browser  PROVE Mine(session[b]) /\ Mine(form[b].cookie)
  BY <1>0, StillOwned DEF Known
<1>3. ASSUME NEW b \in Browser, form[b].at = "announce"
      PROVE  /\ form[b].id \in 1..serial /\ form[b].id # Nobody
             /\ row'[form[b].id].sub = form[b].cookie.sub
  <2>1. form[b].id \in 1..serial
    BY <1>0, <1>3 DEF Known, Form, Nobody
  <2> QED  BY <1>1, <1>3, <2>1 DEF Known, RowsStay
<1>4. ASSUME NEW b \in Browser  PROVE Mine(session'[b])
  <2>1. \A u : LET c == [form[b].cookie EXCEPT !.id = u]
               IN c.id = u /\ c.signed = form[b].cookie.signed
    BY <1>0 DEF Cookie
  <2>2. CASE session'[b] \in {session[b], NoCookie}
    BY <1>2, <2>2 DEF NoCookie
  <2>3. ASSUME NEW p \in Person, NEW u \in users \cup {session[b].id},
               u # session[b].id => row[u].sub \in linked[p],
               session'[b] = [in |-> TRUE, sub |-> p, id |-> u, signed |-> session[b].signed \cup {p}]
        PROVE  Mine(session'[b])
    <3>1. CASE u = session[b].id
      BY <1>2, <2>3, <3>1
    <3>2. CASE u # session[b].id
      <4>1. row'[u].sub \in linked'[p]
        BY <1>0, <1>1, <2>3, <3>2 DEF RowsStay
      <4> QED  BY <2>3, <4>1
    <3> QED  BY <3>1, <3>2
  <2>4. CASE session'[b] = [form[b].cookie EXCEPT !.id = Nobody]
    BY <2>1, <2>4
  <2>5. CASE form[b].at = "announce" /\ session'[b] = [form[b].cookie EXCEPT !.id = form[b].id]
    <3> DEFINE p == form[b].cookie.sub
    <3>1. p \in form[b].cookie.signed /\ p \in Person
      BY <2>5, Applicant DEF SignedBy
    <3>2. p \in linked'[p]
      BY <1>0, <1>1, <3>1 DEF Linking
    <3>3. session'[b].id = form[b].id /\ session'[b].signed = form[b].cookie.signed
      BY <2>1, <2>5
    <3> QED  BY <1>3, <2>5, <3>1, <3>2, <3>3
  <2> QED  BY <2>2, <2>3, <2>4, <2>5, BrowsersMove DEF CookieMoves
<1>5. ASSUME NEW b \in Browser
      PROVE  /\ Mine(form'[b].cookie)
             /\ form'[b].at = "announce" =>
                  form'[b].id # Nobody /\ row'[form'[b].id].sub = form'[b].cookie.sub
  <2>1. CASE form'[b] = form[b]
    BY <1>2, <1>3, <2>1
  <2>2. CASE form'[b] = Idle
    BY <2>2 DEF Idle, NoCookie
  <2>3. CASE \E e \in Email, at \in {"claim", "insert"} :
               form'[b] = [at |-> at, email |-> e, id |-> Nobody, cookie |-> session[b]]
    BY <1>2, <2>3
  <2>4. CASE Register(b) /\ form'[b] = [form[b] EXCEPT !.at = "announce", !.id = serial']
    <3>1. form'[b].id = serial' /\ form'[b].cookie = form[b].cookie
      BY <1>0, <2>4 DEF Form
    <3>2. serial' # Nobody /\ row'[serial'].sub = form[b].cookie.sub
      BY <1>0, <2>4, SignUp, Inserted DEF Nobody
    <3> QED  BY <1>2, <3>1, <3>2
  <2> QED  BY <2>1, <2>2, <2>3, <2>4, BrowsersMove DEF FormMoves
<1>6. \A p \in access' \cup (admitted' \ {None}) : \E u \in 1..serial' : row'[u].sub = p
  <2>1. \A p : (\E u \in 1..serial : row[u].sub = p) => \E u \in 1..serial' : row'[u].sub = p
    BY <1>0, <1>1 DEF RowsStay
  <2>2. CASE ClientStep
    <3>1. ASSUME NEW p \in access', p \notin access  PROVE \E u \in users : row[u].sub = p
      BY <2>2, <3>1 DEF ClientStep, RefreshAccess, Expire, Admit, SaveRequest, FindBySub
    <3>2. ASSUME NEW p \in admitted' \ {None}, p \notin admitted  PROVE p \in access
      BY <2>2, <3>2 DEF ClientStep, RefreshAccess, Expire, Admit, SaveRequest
    <3> QED  BY <1>0, <2>1, <3>1, <3>2 DEF Known
  <2>3. CASE ~ ClientStep
    <3>1. UNCHANGED <<access, admitted>>
      <4>1. CASE Inserts \/ Deletes \/ Approves \/ Edits \/ UNCHANGED accountVars
        BY <4>1 DEF Inserts, Deletes, Approves, Edits, accountVars, Register, AddUser, DeleteAll,
           DeleteUser, AcceptUser, ApproveUser, RenewToken, EditProfile, others
      <4>2. ASSUME NEW b \in Browser, Claim(b) \/ BrowserOnly(b)  PROVE UNCHANGED <<access, admitted>>
        BY <4>2 DEF Claim, BrowserOnly, SignOut, RegisterFails, Answer, AnswerFails, Announce,
           AnnounceFails, SignIn, CreateProfile
      <4> QED  BY <2>3, <4>1, <4>2, Cases
    <3> QED  BY <2>1, <3>1 DEF Known
  <2> QED  BY <2>2, <2>3
<1> QED  BY <1>4, <1>5, <1>6 DEF Known, Owned
-----------------------------------------------------------------------------
(***************************************************************************)
(* Types                                                                   *)
(***************************************************************************)
\* The browsers ...
BrowsersTyped ==
  /\ webhook \in BOOLEAN /\ linked \in Linking
  /\ session \in [Browser -> Cookie(0..serial)]
  /\ form \in [Browser -> Form(0..serial)]

\* ... and the rest.
RestTyped ==
  /\ access \subseteq Person /\ admitted \subseteq Person \cup {None}
  /\ messages \subseteq UserId
  /\ requests \in Seq(Request)
  /\ listed \subseteq UserId
  /\ faults \in 0..MaxFaults

LEMMA Parts ==
  /\ AccountsTypeOK <=> TableTyped /\ BrowsersTyped /\ RestTyped
  /\ AccountsTypeOK' <=> TableTyped' /\ BrowsersTyped' /\ RestTyped'
BY DEF AccountsTypeOK, TableTyped, BrowsersTyped, RestTyped

LEMMA BrowsersTypedKept ==
  ASSUME AccountsTypeOK, SignedBy, [AccountsNext]_accountVars  PROVE BrowsersTyped'
<1>0. /\ \A b \in Browser : session[b] \in Cookie(0..serial) /\ form[b] \in Form(0..serial)
      /\ serial \in Nat /\ users \subseteq 1..serial /\ webhook \in BOOLEAN /\ linked \in Linking
  BY AccountsAssumption DEF AccountsTypeOK
<1>1. /\ serial' \in Nat /\ 0..serial \subseteq 0..serial'
  BY <1>0, TableKept DEF RowsStay
<1>2. ASSUME NEW b \in Browser  PROVE session[b] \in Cookie(0..serial') /\ form[b] \in Form(0..serial')
  BY <1>0, <1>1 DEF Cookie, Form
<1>3. NoCookie \in Cookie(0..serial') /\ Idle \in Form(0..serial')
  BY <1>1, AccountsAssumption DEF NoCookie, Idle, Cookie, Form, Nobody
<1>4. ASSUME NEW b \in Browser  PROVE session'[b] \in Cookie(0..serial')
  <2>1. ASSUME NEW u \in 0..serial'  PROVE [form[b].cookie EXCEPT !.id = u] \in Cookie(0..serial')
    BY <1>2 DEF Form, Cookie
  <2>2. CASE session'[b] \in {session[b], NoCookie}
    BY <1>2, <1>3, <2>2
  <2>3. ASSUME NEW p \in Person, NEW u \in users \cup {session[b].id},
               session'[b] = [in |-> TRUE, sub |-> p, id |-> u, signed |-> session[b].signed \cup {p}]
        PROVE  session'[b] \in Cookie(0..serial')
    <3>1. session[b].id \in 0..serial /\ session[b].signed \subseteq Person
      BY <1>0 DEF Cookie
    <3>2. u \in 0..serial
      BY <1>0, <3>1
    <3> QED  BY <1>1, <2>3, <3>1, <3>2 DEF Cookie
  <2>4. CASE \/ session'[b] = [form[b].cookie EXCEPT !.id = Nobody]
             \/ session'[b] = [form[b].cookie EXCEPT !.id = form[b].id]
    <3>1. Nobody \in 0..serial' /\ form[b].id \in 0..serial'
      BY <1>0, <1>1 DEF Form, Nobody
    <3> QED  BY <2>1, <2>4, <3>1
  <2> QED  BY <2>2, <2>3, <2>4, BrowsersMove DEF CookieMoves
<1>5. ASSUME NEW b \in Browser  PROVE form'[b] \in Form(0..serial')
  <2>1. CASE form'[b] \in {form[b], Idle}
    BY <1>2, <1>3, <2>1
  <2>2. CASE \E e \in Email, at \in {"claim", "insert"} :
               form'[b] = [at |-> at, email |-> e, id |-> Nobody, cookie |-> session[b]]
    BY <1>1, <1>2, <2>2 DEF Form, Nobody
  <2>3. CASE form'[b] = [form[b] EXCEPT !.at = "announce", !.id = serial']
    <3>1. serial' \in 0..serial'
      BY <1>1
    <3> QED  BY <1>2, <2>3, <3>1 DEF Form
  <2> QED  BY <2>1, <2>2, <2>3, BrowsersMove DEF FormMoves
<1> QED  BY <1>0, <1>4, <1>5, BrowsersMove, Onwards DEF BrowsersTyped

LEMMA RestTypedKept ==
  ASSUME AccountsTypeOK, SignedBy, Known, [AccountsNext]_accountVars  PROVE RestTyped'
<1>0. /\ RestTyped /\ serial \in 0..MaxUsers /\ serial' \in 0..MaxUsers
      /\ users \subseteq 1..serial /\ MaxUsers \in Nat /\ MaxFaults \in Nat
  BY AccountsAssumption, TableKept DEF AccountsTypeOK, RestTyped, TableTyped
<1>1. CASE Inserts
  <2>1. serial' \in UserId
    BY <1>0, <1>1, NewRow, Inserted DEF UserId
  <2>2. UNCHANGED <<access, admitted, messages, requests, faults>> /\ listed' \subseteq listed \cup {serial'}
    BY <1>1 DEF Inserts, Register, AddUser
  <2> QED  BY <1>0, <2>1, <2>2 DEF RestTyped
<1>2. CASE Deletes
  <2>1. UNCHANGED <<access, admitted, messages, listed, faults>>
    BY <1>2 DEF Deletes, DeleteAll, DeleteUser
  <2>2. requests' \in Seq(Request)
    <3>1. CASE DeleteAll
      BY <1>0, <3>1 DEF DeleteAll, RestTyped
    <3>2. ASSUME NEW u \in UserId, DeleteUser(u)  PROVE requests' \in Seq(Request)
      <4>1. /\ requests \in Seq(Request) /\ Len(requests) \in Nat
            /\ DOMAIN requests = 1..Len(requests)
            /\ \A i \in 1..Len(requests) : requests[i] \in Request
        BY <1>0 DEF RestTyped
      <4>2. \A q \in Request : [q EXCEPT !.who = Nobody] \in Request
        BY DEF Request
      <4>3. requests' = [i \in 1..Len(requests) |-> IF requests[i].who = u
                          THEN [requests[i] EXCEPT !.who = Nobody] ELSE requests[i]]
        BY <3>2, <4>1 DEF DeleteUser
      <4> DEFINE next(i) == IF requests[i].who = u
                            THEN [requests[i] EXCEPT !.who = Nobody] ELSE requests[i]
      <4>4. \A i \in 1..Len(requests) : next(i) \in Request
        BY <4>1, <4>2
      <4> HIDE DEF next
      <4>5. [i \in 1..Len(requests) |-> next(i)] \in Seq(Request)
        BY <4>1, <4>4
      <4> QED  BY <4>3, <4>5 DEF next
    <3> QED  BY <1>2, <3>1, <3>2 DEF Deletes
  <2> QED  BY <1>0, <2>1, <2>2 DEF RestTyped
<1>3. ASSUME NEW b \in Browser, Announce(b) \/ AnnounceFails(b)  PROVE RestTyped'
  <2>1. /\ UNCHANGED <<access, admitted, requests, listed>> /\ faults' \in 0..MaxFaults
        /\ messages' \subseteq messages \cup {form[b].id} /\ form[b].at = "announce"
    BY <1>0, <1>3 DEF Announce, AnnounceFails, ToAnnounce, Fault, RestTyped
  <2>2. form[b].id \in UserId
    BY <1>0, <1>3, <2>1 DEF Known, AccountsTypeOK, Form, Nobody, UserId
  <2> QED  BY <1>0, <2>1, <2>2 DEF RestTyped
<1>4. CASE ClientStep
  <2>1. UNCHANGED <<messages, listed, faults>>
    BY <1>4 DEF ClientStep, RefreshAccess, Expire, Admit, SaveRequest
  <2>2. access' \subseteq Person /\ admitted' \subseteq Person \cup {None}
    BY <1>0, <1>4, AccountsAssumption DEF ClientStep, RefreshAccess, Expire, Admit, SaveRequest, RestTyped
  <2>3. requests' \in Seq(Request)
    <3>1. ASSUME NEW p \in Client \cup {None}, SaveRequest(p)  PROVE requests' \in Seq(Request)
      <4>1. PICK u \in FindBySub(p) \cup {Nobody} :
              requests' = Append(requests, [asked |-> p, who |-> u])
        BY <3>1 DEF SaveRequest
      <4>2. u \in UserId \cup {Nobody}
        BY <1>0 DEF FindBySub, UserId
      <4>3. [asked |-> p, who |-> u] \in Request
        BY <4>2, AccountsAssumption DEF Request
      <4> QED  BY <1>0, <4>1, <4>3 DEF RestTyped
    <3>2. CASE UNCHANGED requests
      BY <1>0, <3>2 DEF RestTyped
    <3> QED  BY <1>4, <3>1, <3>2 DEF ClientStep, RefreshAccess, Expire, Admit
  <2> QED  BY <1>0, <2>1, <2>2, <2>3 DEF RestTyped
<1>5. CASE Approves \/ Edits \/ UNCHANGED accountVars
  BY <1>0, <1>5 DEF RestTyped, Approves, Edits, accountVars, AcceptUser, ApproveUser, RenewToken,
     EditProfile, others
<1>6. ASSUME NEW b \in Browser,
             \/ Claim(b) \/ SignOut(b) \/ RegisterFails(b) \/ Answer(b) \/ AnswerFails(b)
             \/ \E p \in Person : SignIn(b, p)
             \/ \E e \in Email : CreateProfile(b, e)
      PROVE  RestTyped'
  BY <1>0, <1>6 DEF RestTyped, Claim, SignOut, RegisterFails, Answer, AnswerFails, SignIn, CreateProfile
<1> QED  BY <1>1, <1>2, <1>3, <1>4, <1>5, <1>6, Cases DEF BrowserOnly
-----------------------------------------------------------------------------
(***************************************************************************)
(* Who asked for a request, and who is announced                           *)
(***************************************************************************)
LEMMA SubmitterKept ==
  ASSUME AccountsTypeOK, SignedBy, Known, SubmitterIsWhoAsked, [AccountsNext]_accountVars
  PROVE  SubmitterIsWhoAsked'
<1> DEFINE Right(q) ==
      IF q.who = Nobody
      THEN q.asked = None \/ \E u \in (1..serial') \ users' : row'[u].sub = q.asked
      ELSE q.who \in users' /\ row'[q.who].sub = q.asked
<1>0. /\ requests \in Seq(Request) /\ Len(requests) \in Nat /\ DOMAIN requests = 1..Len(requests)
      /\ users \subseteq 1..serial /\ RowsStay
  BY TableKept DEF AccountsTypeOK
<1>1. SUFFICES \A i \in DOMAIN requests' : Right(requests'[i])
  BY DEF SubmitterIsWhoAsked
<1>3. \A u \in (1..serial) \ users : u \in (1..serial') \ users' /\ row'[u].sub = row[u].sub
  BY <1>0 DEF RowsStay
<1>4. ASSUME users \subseteq users'  PROVE \A i \in DOMAIN requests : Right(requests[i])
  BY <1>0, <1>3, <1>4 DEF SubmitterIsWhoAsked, RowsStay
<1>5. ASSUME NEW p \in Client \cup {None}, SaveRequest(p)  PROVE <1>1!1
  <2>1. PICK u \in FindBySub(p) \cup {Nobody} :
          /\ u = Nobody <=> FindBySub(p) = {}
          /\ requests' = Append(requests, [asked |-> p, who |-> u])
    BY <1>5 DEF SaveRequest
  <2>2. p \in admitted /\ UNCHANGED <<users, row, serial>>
    BY <1>5 DEF SaveRequest
  <2>3. Right([asked |-> p, who |-> u])
    <3>1. CASE u = Nobody
      <4>1. FindBySub(p) = {} /\ (p = None \/ \E v \in 1..serial : row[v].sub = p)
        BY <2>1, <2>2, <3>1 DEF Known
      <4> QED  BY <2>2, <3>1, <4>1 DEF FindBySub
    <3>2. CASE u # Nobody
      BY <2>1, <2>2, <3>2 DEF FindBySub
    <3> QED  BY <3>1, <3>2
  <2>4. \A i \in DOMAIN requests : Right(requests[i])
    BY <1>4, <2>2
  <2>5. \A i \in DOMAIN requests' :
          \/ i \in DOMAIN requests /\ requests'[i] = requests[i]
          \/ requests'[i] = [asked |-> p, who |-> u]
    BY <1>0, <2>1
  <2> HIDE DEF Right
  <2> QED  BY <2>3, <2>4, <2>5
<1>6. ASSUME NEW v \in UserId, DeleteUser(v)  PROVE <1>1!1
  <2>1. /\ users' = users \ {v} /\ v \in users /\ serial' = serial
        /\ requests' = [i \in DOMAIN requests |-> IF requests[i].who = v
                          THEN [requests[i] EXCEPT !.who = Nobody] ELSE requests[i]]
    BY <1>6 DEF DeleteUser
  <2> SUFFICES ASSUME NEW i \in DOMAIN requests  PROVE Right(requests'[i])
    BY <2>1
  <2>2. requests[i] \in Request /\ v # Nobody
    BY <1>0, <2>1 DEF AccountsTypeOK, Nobody
  <2>3. CASE requests[i].who = v
    <3>1. row[v].sub = requests[i].asked
      BY <2>2, <2>3 DEF SubmitterIsWhoAsked
    <3>2. /\ requests'[i].who = Nobody /\ requests'[i].asked = requests[i].asked
      BY <2>1, <2>2, <2>3 DEF Request
    <3>3. v \in (1..serial') \ users' /\ row'[v].sub = row[v].sub
      BY <1>0, <2>1 DEF RowsStay
    <3> QED  BY <3>1, <3>2, <3>3
  <2>4. CASE requests[i].who # v
    <3>1. requests'[i] = requests[i]
      BY <2>1, <2>4
    <3>2. Right(requests[i])
      BY <1>0, <1>3, <2>1, <2>4 DEF SubmitterIsWhoAsked, RowsStay
    <3> QED  BY <3>1, <3>2
  <2> QED  BY <2>3, <2>4
<1>7. CASE DeleteAll
  <2>1. requests' = requests /\ \A i \in DOMAIN requests : requests[i].who = Nobody
    BY <1>7 DEF DeleteAll
  <2> QED  BY <1>3, <2>1 DEF SubmitterIsWhoAsked
<1>8. ASSUME requests' = requests, users \subseteq users'  PROVE <1>1!1
  BY <1>4, <1>8
<1>9. CASE \/ Inserts \/ Approves \/ Edits \/ UNCHANGED accountVars
           \/ \E p \in Client : RefreshAccess(p) \/ Expire(p)
           \/ \E p \in Client \cup {None} : Admit(p)
  BY <1>8, <1>9 DEF Inserts, Approves, Edits, accountVars, Register, AddUser, Insert, AcceptUser,
     ApproveUser, RenewToken, EditProfile, others, RefreshAccess, Expire, Admit
<1>10. ASSUME NEW b \in Browser, Claim(b) \/ BrowserOnly(b)  PROVE <1>1!1
  BY <1>8, <1>10 DEF Claim, BrowserOnly, SignOut, RegisterFails, Answer, AnswerFails, Announce,
     AnnounceFails, SignIn, CreateProfile
<1> QED  BY <1>5, <1>6, <1>7, <1>9, <1>10, Cases DEF ClientStep, Deletes

LEMMA AnnouncedKept ==
  ASSUME AccountsTypeOK, SignedBy, PendingAreAnnounced, [AccountsNext]_accountVars
  PROVE  PendingAreAnnounced'
<1> DEFINE Excused(u) == \/ u \in messages'
                         \/ \E b \in Browser : form'[b].at = "announce" /\ form'[b].id = u
<1> SUFFICES ASSUME NEW u \in users' \ listed', webhook', faults' = 0, row'[u].pending
             PROVE  Excused(u)
  BY DEF PendingAreAnnounced
<1>0. /\ row \in [1..serial -> Row] /\ users \subseteq 1..serial /\ faults \in Nat
      /\ \A b \in Browser : form[b] \in Form(0..serial)
  BY AccountsAssumption DEF AccountsTypeOK
<1>1. /\ faults = 0 /\ webhook /\ u \notin listed
      /\ messages \subseteq messages'
  <2>1. /\ linked' = linked /\ webhook' = webhook
        /\ messages \subseteq messages' /\ listed \subseteq listed'
        /\ faults' = faults \/ faults' = faults + 1
    BY Onwards
  <2>2. faults = 0 /\ u \notin listed /\ messages \subseteq messages'
    BY <1>0, <2>1
  <2>3. webhook
    BY <2>1, Zenon
  <2> QED  BY <2>2, <2>3
\* A sign-up that was about to be announced is announced, or still about to be.
<1>2. ASSUME NEW b \in Browser, form[b].at = "announce", form[b].id = u, u \in users, row[u].pending
      PROVE  Excused(u)
  <2>0. form \in [Browser -> Form(0..serial)]
    BY DEF AccountsTypeOK
  <2>1. CASE form'[b] = form[b]
    BY <1>2, <2>1
  <2>2. CASE Announce(b)
    BY <1>2, <2>2 DEF Announce
  <2>3. ~ (Answer(b) \/ AnswerFails(b) \/ AnnounceFails(b))
    BY <1>0, <1>1, <1>2 DEF Answer, AnswerFails, AnnounceFails, Fault
  <2>4. ASSUME NEW c \in Browser, Claim(c) \/ BrowserOnly(c) \/ Register(c), ~ Announce(b)
        PROVE  form'[b] = form[b]
    <3>1. CASE UNCHANGED form
      BY <3>1
    <3>2. CASE c # b /\ \E f : form' = [form EXCEPT ![c] = f]
      BY <2>0, <3>2
    <3>3. c # b \/ form' = form
      BY <1>2, <2>3, <2>4 DEF Claim, BrowserOnly, Register, RegisterFails, SignOut, SignIn, CreateProfile
    <3>4. form' = form \/ \E f : form' = [form EXCEPT ![c] = f]
      <4>1. CASE Register(c)
        BY <2>0, <4>1 DEF Register
      <4>2. CASE Claim(c) \/ BrowserOnly(c)
        BY <4>2 DEF Claim, BrowserOnly, SignOut, RegisterFails, Answer, AnswerFails, Announce,
           AnnounceFails, SignIn, CreateProfile, Reply, GiveUp
      <4> QED  BY <2>4, <4>1, <4>2
    <3> QED  BY <3>1, <3>2, <3>3, <3>4
  <2>5. CASE \/ Deletes \/ Approves \/ Edits \/ ClientStep \/ UNCHANGED accountVars
             \/ \E p \in Person, e \in Email, known \in BOOLEAN : AddUser(p, e, known)
    BY <2>1, <2>5 DEF Deletes, Approves, Edits, ClientStep, accountVars, AddUser, DeleteAll,
       DeleteUser, AcceptUser, ApproveUser, RenewToken, EditProfile, RefreshAccess, Expire, Admit,
       SaveRequest, others
  <2> QED  BY <2>1, <2>2, <2>4, <2>5, Cases DEF Inserts
\* A user is pending that was already, or that signs up.
<1>3. (u \in users /\ row[u].pending) \/ \E b \in Browser : Register(b) /\ u = serial'
  <2>1. ASSUME NEW b \in Browser, Register(b), u # serial'  PROVE u \in users /\ row[u].pending
    <3>1. u \in users /\ row'[u] = row[u]
      BY <1>0, <2>1, SignUp, Inserted
    <3> QED  BY <3>1
  <2>2. ASSUME NEW p \in Person, NEW e \in Email, NEW known \in BOOLEAN, AddUser(p, e, known)
        PROVE  u \in users /\ row[u].pending
    <3>1. u # serial'
      BY <2>2 DEF AddUser
    <3>2. u \in users /\ row'[u] = row[u]
      BY <1>0, <2>2, <3>1, Added, Inserted
    <3> QED  BY <3>2
  <2>3. CASE Deletes
    BY <2>3, Deletion
  <2>4. CASE Approves \/ Edits \/ \E b \in Browser : Claim(b)
    BY <1>0, <2>4, Rewritten
  <2>5. CASE UNCHANGED accountVars \/ ClientStep \/ \E b \in Browser : BrowserOnly(b)
    <3>1. UNCHANGED <<users, row>>
      BY <2>5 DEF accountVars, ClientStep, RefreshAccess, Expire, Admit, SaveRequest, BrowserOnly, SignIn,
         SignOut, CreateProfile, RegisterFails, Answer, AnswerFails, Announce, AnnounceFails
    <3> QED  BY <3>1
  <2> QED  BY <2>1, <2>2, <2>3, <2>4, <2>5, Cases DEF Inserts
<1>4. ASSUME NEW b \in Browser, Register(b), u = serial'  PROVE Excused(u)
  <2>1. form \in [Browser -> Form(0..serial)]
    BY DEF AccountsTypeOK
  <2>2. form'[b].at = "announce" /\ form'[b].id = serial'
    BY <1>0, <1>4, <2>1 DEF Register, Form
  <2> QED  BY <1>4, <2>2
<1>5. ASSUME u \in users, row[u].pending  PROVE Excused(u)
  BY <1>1, <1>2, <1>5 DEF PendingAreAnnounced
<1> QED  BY <1>3, <1>4, <1>5
-----------------------------------------------------------------------------
\* The inductive invariant.
AccountsInv ==
  AccountsTypeOK /\ SignedBy /\ Known /\ SubmitterIsWhoAsked /\ PendingAreAnnounced

LEMMA AccountsInitially == AccountsInit => AccountsInv
<1> SUFFICES ASSUME AccountsInit  PROVE AccountsInv
  OBVIOUS
<1>1. TableTyped
  BY AccountsAssumption DEF AccountsInit, TableTyped
<1>2. BrowsersTyped
  <2>1. NoCookie \in Cookie(0..serial) /\ Idle \in Form(0..serial)
    BY AccountsAssumption DEF AccountsInit, NoCookie, Idle, Cookie, Form, Nobody
  <2> QED  BY <2>1 DEF AccountsInit, BrowsersTyped
<1>3. RestTyped
  BY AccountsAssumption DEF AccountsInit, RestTyped
<1>4. SignedBy /\ Known /\ SubmitterIsWhoAsked /\ PendingAreAnnounced
  BY DEF AccountsInit, SignedBy, Known, Owned, SubmitterIsWhoAsked, PendingAreAnnounced, NoCookie, Idle
<1> QED  BY <1>1, <1>2, <1>3, <1>4, Parts DEF AccountsInv

LEMMA AccountsInductive == AccountsInv /\ [AccountsNext]_accountVars => AccountsInv'
BY Parts, TableKept, BrowsersTypedKept, RestTypedKept, SignedByKept, KnownKept, SubmitterKept,
   AnnouncedKept DEF AccountsInv

\* The variables keep their types, and no two users share a sub or an address.
THEOREM AccountsTyped == AccountsSpec => []AccountsTypeOK
<1>1. AccountsInv => AccountsTypeOK
  BY DEF AccountsInv
<1> QED  BY AccountsInitially, AccountsInductive, <1>1, PTL DEF AccountsSpec

\* The id in a cookie is of a row of an identity of somebody who signed in with it,
\* whoever uses the browser, and whatever was deleted and registered again.
THEOREM AccountsSessions == AccountsSpec => []SessionsKnowTheirUser
<1>1. AccountsInv => SessionsKnowTheirUser
  BY DEF AccountsInv, Known, Owned, SessionsKnowTheirUser
<1> QED  BY AccountsInitially, AccountsInductive, <1>1, PTL DEF AccountsSpec

\* A request names the user of the token it was submitted with, or nobody if there was
\* no token or the user was deleted.
THEOREM AccountsSubmitters == AccountsSpec => []SubmitterIsWhoAsked
<1>1. AccountsInv => SubmitterIsWhoAsked
  BY DEF AccountsInv
<1> QED  BY AccountsInitially, AccountsInductive, <1>1, PTL DEF AccountsSpec

\* With a webhook only its failure leaves a sign-up that nobody knows of.
THEOREM AccountsAnnounced == AccountsSpec => []PendingAreAnnounced
<1>1. AccountsInv => PendingAreAnnounced
  BY DEF AccountsInv
<1> QED  BY AccountsInitially, AccountsInductive, <1>1, PTL DEF AccountsSpec
=============================================================================
