----------------------------- MODULE UserAccounts -----------------------------
(***************************************************************************)
(* The users of an App with authentication: registration in a browser,     *)
(* approval, refresh tokens, and the requests that are submitted.          *)
(*                                                                         *)
(* Every handler runs in a gunicorn worker of its own, and what it read    *)
(* may be changed or deleted before it commits.  SQLAlchemy writes only    *)
(* the columns a handler assigned; if the row is gone or a unique column   *)
(* would repeat the commit fails, and so does the handler.  A handler that *)
(* reads a row and commits it is therefore one step.                       *)
(*                                                                         *)
(* A person is an identity of Globus (sub), and may be linked to others.   *)
(* The session is a cookie that the browser keeps: a handler works on the  *)
(* one that came with its call, and its answer replaces the whole cookie.  *)
(* What only administrators may do is done at any time by one who is not   *)
(* modelled.                                                               *)
(***************************************************************************)
EXTENDS Integers, FiniteSets, Sequences

CONSTANTS Person, Email, Browser,
          Client,       \* the persons whose command line clients are followed
          AdminEmail,   \* JWT_ADMIN
          MaxUsers,     \* bound on the rows ever inserted in table users
          MaxRequests,  \* bound on the requests ever submitted
          MaxFaults     \* bound on the failures of the webhook

ASSUME AccountsAssumption ==
  /\ {MaxUsers, MaxRequests, MaxFaults} \subseteq Nat
  /\ AdminEmail \in Email /\ Client \subseteq Person
  /\ 0 \notin Person   \* None is no identity

VARIABLES
  webhook,   \* whether there is a SIGNUP_WEBHOOK_URL, which nothing changes
  linked,    \* linked[p]: the identities of the one who signs in as p (identity_set)
  users,     \* the ids of the rows of table users
  row,       \* row[u]: the row of u; of a deleted one only its sub matters
  serial,    \* the last id
  session,   \* session[b]: the cookie of the browser b
  form,      \* form[b]: where the handler of a registration in b is
  access,    \* the persons whose client has an access token
  admitted,  \* the identities of the submissions that are admitted, but not saved yet
  messages,  \* the users whose sign-up was announced in Slack
  requests,  \* table requests: the identity that asked, and submitted_by
  listed,    \* history: the users that an administrator added
  faults     \* number of faults so far

given == <<webhook, linked>>
accountVars == <<given, users, row, serial, session, form, access, admitted, messages,
                 requests, listed, faults>>
-----------------------------------------------------------------------------
UserId == 1..MaxUsers
Nobody == 0
None == 0
Row == [sub : Person, email : Email, pending : BOOLEAN,
        token : Person \cup {None}]   \* the identity of the refresh token
Request == [asked : Person \cup {None}, who : UserId \cup {Nobody}]

\* Everybody has some identities, and nobody's is another one's.
Linking == {l \in [Person -> SUBSET Person] :
              \A p, q \in Person : p \in l[p] /\ (q \in l[p] => l[q] = l[p])}

\* is_authenticated, sub, user_id, and the identities that ever signed in with it.
Cookie(ids) == [in : BOOLEAN, sub : Person \cup {None}, id : ids, signed : SUBSET Person]
Form(ids) == [at : {"idle", "claim", "insert", "announce"}, email : Email, id : ids,
              cookie : Cookie(ids)]

AccountsTypeOK ==
  /\ webhook \in BOOLEAN /\ linked \in Linking
  /\ serial \in 0..MaxUsers /\ users \subseteq 1..serial
  /\ row \in [1..serial -> Row]
  /\ session \in [Browser -> Cookie(0..serial)]
  /\ form \in [Browser -> Form(0..serial)]
  /\ access \subseteq Person
  /\ admitted \subseteq Person \cup {None}
  /\ messages \subseteq UserId
  /\ requests \in Seq(Request)
  /\ listed \subseteq UserId
  /\ faults \in 0..MaxFaults
  /\ \A u, v \in users : u # v => row[u].sub # row[v].sub /\ row[u].email # row[v].email

NoCookie == [in |-> FALSE, sub |-> None, id |-> Nobody, signed |-> {}]
Idle == [at |-> "idle", email |-> AdminEmail, id |-> Nobody, cookie |-> NoCookie]

AccountsInit ==
  /\ webhook \in BOOLEAN /\ linked \in Linking
  /\ users = {} /\ serial = 0 /\ row = << >>
  /\ session = [b \in Browser |-> NoCookie]
  /\ form = [b \in Browser |-> Idle]
  /\ access = {} /\ admitted = {}
  /\ messages = {} /\ requests = << >>
  /\ listed = {}
  /\ faults = 0

Fault == faults < MaxFaults /\ faults' = faults + 1

\* find_by_sub and find_by_email: at most one row, as both columns are unique.
FindBySub(p) == {u \in users : row[u].sub = p}
FindByEmail(e) == {u \in users : row[u].email = e}

\* oauth_required.  A session without an id gets no further than create_profile.
SignedIn(b) == session[b].in /\ session[b].id # Nobody

Insert(r) ==
  /\ serial < MaxUsers
  /\ serial' = serial + 1
  /\ users' = users \cup {serial'}
  /\ row' = [u \in 1..serial' |-> IF u = serial' THEN r ELSE row[u]]

Deleted(U) == [u \in 1..serial |-> IF u \notin U THEN row[u] ELSE
                [sub |-> row[u].sub, email |-> AdminEmail, pending |-> TRUE,
                 token |-> None]]

\* The handler of a registration is over without an answer that sets a cookie.
GiveUp(b) == form' = [form EXCEPT ![b] = Idle] /\ UNCHANGED session

\* It answers with the cookie that came with its call, which is now of u.
Reply(b, u) ==
  /\ form' = [form EXCEPT ![b] = Idle]
  /\ session' = [session EXCEPT ![b] = [form[b].cookie EXCEPT !.id = u]]

table == <<users, row, serial>>
others == <<given, session, form, access, admitted, messages, requests, listed>>
-----------------------------------------------------------------------------
(***************************************************************************)
(* The browser                                                             *)
(***************************************************************************)
\* auth_callback, for one who signs in as p.  Without a row of any identity of p's
\* the id in the cookie stays, be it of somebody else who used the browser.
SignIn(b, p) ==
  LET found == {u \in users : row[u].sub \in linked[p]}
  IN /\ \E u \in IF found = {} THEN {session[b].id} ELSE found :
          session' = [session EXCEPT ![b] =
                       [in |-> TRUE, sub |-> p, id |-> u, signed |-> @.signed \cup {p}]]
     /\ UNCHANGED <<given, table, form, access, admitted, messages, requests, listed, faults>>

SignOut(b) ==
  /\ SignedIn(b)
  /\ session' = [session EXCEPT ![b] = NoCookie]
  /\ UNCHANGED <<given, table, form, access, admitted, messages, requests, listed, faults>>

\* create_profile up to the query: an address in a row without a refresh token is
\* claimed, any other one is inserted.
CreateProfile(b, e) ==
  /\ session[b].in /\ form[b].at = "idle"
  /\ form' = [form EXCEPT ![b] =
       [at |-> IF \E u \in FindByEmail(e) : row[u].token = None THEN "claim" ELSE "insert",
        email |-> e, id |-> Nobody, cookie |-> session[b]]]
  /\ UNCHANGED <<given, table, session, access, admitted, messages, requests, listed, faults>>

\* update_refresh_token_by_email: every row that has the address by now.
TakeRows(e, p) ==
  row' = [u \in 1..serial |-> IF u \in FindByEmail(e)
            THEN [row[u] EXCEPT !.token = p, !.pending = FALSE] ELSE row[u]]

\* Mutated form of Claim: the session is of the row that was found.
ClaimForSession(b) ==
  /\ form[b].at = "claim"
  /\ TakeRows(form[b].email, form[b].cookie.sub)
  /\ \E u \in FindByEmail(form[b].email) : Reply(b, u)
  /\ UNCHANGED <<given, users, serial, access, admitted, messages, requests, listed, faults>>

\* The row that has the address by now, if there still is one.  The new UserModel is
\* not saved, so that the session gets no id.
Claim(b) ==
  /\ form[b].at = "claim"
  /\ TakeRows(form[b].email, form[b].cookie.sub)
  /\ Reply(b, Nobody)
  /\ UNCHANGED <<given, users, serial, access, admitted, messages, requests, listed, faults>>

\* save_to_db of the new row; the administrator is not pending.
Register(b) ==
  LET p == form[b].cookie.sub
      e == form[b].email
  IN /\ form[b].at = "insert"
     /\ FindBySub(p) = {} /\ FindByEmail(e) = {}
     /\ Insert([sub |-> p, email |-> e, token |-> p, pending |-> e # AdminEmail])
     /\ form' = [form EXCEPT ![b].at = "announce", ![b].id = serial']
     /\ UNCHANGED <<given, session, access, admitted, messages, requests, listed, faults>>

\* The sub or the address is in use: an exception.
RegisterFails(b) ==
  /\ form[b].at = "insert"
  /\ FindBySub(form[b].cookie.sub) # {} \/ FindByEmail(form[b].email) # {}
  /\ GiveUp(b)
  /\ UNCHANGED <<given, table, access, admitted, messages, requests, listed, faults>>

\* Mutated form of Answer: pending is asked before the row is flushed and has the
\* default of its column.
AnswerUnflushed(b) ==
  /\ form[b].at = "announce"
  /\ Reply(b, form[b].id)
  /\ UNCHANGED <<given, table, access, admitted, messages, requests, listed, faults>>

\* After the commit the row is read again.  Without a webhook, or if the user is not
\* pending, by now or ever, nobody is told.
Answer(b) ==
  /\ form[b].at = "announce"
  /\ form[b].id \in users
  /\ webhook => ~ row[form[b].id].pending
  /\ Reply(b, form[b].id)
  /\ UNCHANGED <<given, table, access, admitted, messages, requests, listed, faults>>

\* The row was deleted before it was read again: an exception.
AnswerFails(b) ==
  /\ form[b].at = "announce"
  /\ form[b].id \notin users
  /\ GiveUp(b)
  /\ UNCHANGED <<given, table, access, admitted, messages, requests, listed, faults>>

ToAnnounce(b) ==
  /\ webhook /\ form[b].at = "announce"
  /\ form[b].id \in users /\ row[form[b].id].pending

\* post_signup; the session is in the answer.
Announce(b) ==
  /\ ToAnnounce(b)
  /\ messages' = messages \cup {form[b].id}
  /\ Reply(b, form[b].id)
  /\ UNCHANGED <<given, table, access, admitted, requests, listed, faults>>

\* The webhook fails, or gunicorn ends the handler: the row is there all the same,
\* the message may be, and the cookie is if there is any answer at all.
AnnounceFails(b) ==
  /\ ToAnnounce(b)
  /\ Fault
  /\ messages' \in {messages, messages \cup {form[b].id}}
  /\ Reply(b, form[b].id) \/ GiveUp(b)
  /\ UNCHANGED <<given, table, access, admitted, requests, listed>>

\* Mutated form of EditProfile: the address need not be unique.
EditProfileFreely(b, e) ==
  /\ SignedIn(b)
  /\ \E u \in FindBySub(session[b].sub) : row' = [row EXCEPT ![u].email = e]
  /\ UNCHANGED <<users, serial, others, faults>>

\* edit_profile, of the row of the sub, whatever the id; without one, an exception.
EditProfile(b, e) ==
  /\ SignedIn(b)
  /\ FindByEmail(e) = {}
  /\ \E u \in FindBySub(session[b].sub) : row' = [row EXCEPT ![u].email = e]
  /\ UNCHANGED <<users, serial, others, faults>>

\* api_token.
RenewToken(b) ==
  /\ SignedIn(b)
  /\ \E u \in FindBySub(session[b].sub) : row' = [row EXCEPT ![u].token = session[b].sub]
  /\ UNCHANGED <<users, serial, others, faults>>
-----------------------------------------------------------------------------
(***************************************************************************)
(* The client                                                              *)
(***************************************************************************)
\* TokenRefresh.post, with the refresh token that the row of p has: the one p downloaded
\* or an administrator knew.  One that was replaced is refused.
RefreshAccess(p) ==
  /\ \E u \in FindBySub(p) : row[u].token = p
  /\ access' = access \cup {p}
  /\ UNCHANGED <<given, table, session, form, admitted, messages, requests, listed, faults>>

Expire(p) ==
  /\ p \in access
  /\ access' = access \ {p}
  /\ UNCHANGED <<given, table, session, form, admitted, messages, requests, listed, faults>>

\* auth_required, of a submission with the access token of p, or with none.  There is
\* an approved user of the token; or the call has the cookie of any browser that is
\* signed in, and nobody asks for a user.
Admit(p) ==
  /\ p \notin admitted
  /\ p # None => p \in access
  /\ \/ \E u \in FindBySub(p) : ~ row[u].pending
     \/ \E b \in Browser : session[b].in
  /\ admitted' = admitted \cup {p}
  /\ UNCHANGED <<given, table, session, form, access, messages, requests, listed, faults>>

\* get_requesting_user asks for the user of the token, if there is one, and the
\* request is saved.  If the user is deleted before the commit, its reference is
\* refused and the submission fails, as if it had not been admitted.
SaveRequest(p) ==
  /\ p \in admitted
  /\ \E u \in FindBySub(p) \cup {Nobody} :
       /\ u = Nobody <=> FindBySub(p) = {}
       /\ requests' = Append(requests, [asked |-> p, who |-> u])
  /\ admitted' = admitted \ {p}
  /\ UNCHANGED <<given, table, session, form, access, messages, listed, faults>>
-----------------------------------------------------------------------------
(***************************************************************************)
(* The administrators                                                      *)
(***************************************************************************)
\* add_user, of the command line or of the default users.  A sub that is known
\* is left alone; an address that is known is an error.
AddUser(p, e, known) ==
  /\ FindBySub(p) = {} /\ FindByEmail(e) = {}
  /\ Insert([sub |-> p, email |-> e, pending |-> ~ known,
             token |-> IF known THEN p ELSE None])
  /\ listed' = listed \cup {serial'}
  /\ UNCHANGED <<given, session, form, access, admitted, messages, requests, faults>>

\* UserModel.accept, by a message in Slack or by an administrator's call: the row
\* that has the address now is approved; one that is already stays as it is.  The
\* mail that follows the commit, and its failure, change nothing more.
AcceptUser(e) ==
  /\ \E u \in FindByEmail(e) : row[u].pending /\ row' = [row EXCEPT ![u].pending = FALSE]
  /\ UNCHANGED <<users, serial, others, faults>>

\* approve_user, of the command line.
ApproveUser(p) ==
  /\ \E u \in FindBySub(p) : row[u].pending /\ row' = [row EXCEPT ![u].pending = FALSE]
  /\ UNCHANGED <<users, serial, others, faults>>

\* Mutated form of DeleteUser: the rows of its requests are not touched.
DeleteUserOnly(u) ==
  /\ u \in users
  /\ users' = users \ {u}
  /\ row' = Deleted({u})
  /\ UNCHANGED <<given, serial, session, form, access, admitted, messages, requests, listed, faults>>

\* DeleteUser.delete; the requests of the user stay, without a submitter.
DeleteUser(u) ==
  /\ u \in users
  /\ users' = users \ {u}
  /\ row' = Deleted({u})
  /\ requests' = [i \in DOMAIN requests |-> IF requests[i].who = u
                    THEN [requests[i] EXCEPT !.who = Nobody] ELSE requests[i]]
  /\ UNCHANGED <<given, serial, session, form, access, admitted, messages, listed, faults>>

\* AllUsers.delete: refused as long as a request refers to a user.
DeleteAll ==
  /\ users # {}
  /\ \A i \in DOMAIN requests : requests[i].who = Nobody
  /\ users' = {}
  /\ row' = Deleted(users)
  /\ UNCHANGED <<given, serial, session, form, access, admitted, messages, requests, listed, faults>>
-----------------------------------------------------------------------------
BrowserStep(b) ==
  \/ SignOut(b) \/ Claim(b) \/ Register(b) \/ RegisterFails(b) \/ Answer(b)
  \/ AnswerFails(b) \/ Announce(b) \/ AnnounceFails(b) \/ RenewToken(b)
  \/ \E p \in Person : SignIn(b, p)
  \/ \E e \in Email : CreateProfile(b, e) \/ EditProfile(b, e)

ClientStep ==
  \/ \E p \in Client : RefreshAccess(p) \/ Expire(p)
  \/ \E p \in Client \cup {None} :
       \/ Len(requests) + Cardinality(admitted) < MaxRequests /\ Admit(p)
       \/ SaveRequest(p)

AdministratorStep ==
  \/ \E e \in Email : \/ AcceptUser(e)
                      \/ \E p \in Person, known \in BOOLEAN : AddUser(p, e, known)
  \/ \E p \in Person : ApproveUser(p)
  \/ \E u \in UserId : DeleteUser(u)
  \/ DeleteAll

AccountsNext ==
  \/ \E b \in Browser : BrowserStep(b)
  \/ ClientStep
  \/ AdministratorStep

AccountsSpec == AccountsInit /\ [][AccountsNext]_accountVars
-----------------------------------------------------------------------------
\* The id in a cookie, also in one that a handler is about to send, is of a row of an
\* identity of somebody who signed in with it, although the id outlives sign-ins
\* of others, its row, and another registration of the same identity
\* (auth_callback, create_profile).
SessionsKnowTheirUser ==
  \A b \in Browser : \A c \in {session[b], form[b].cookie} :
    c.id # Nobody => \E p \in c.signed : row[c.id].sub \in linked[p]

\* With a webhook, a user who signed up waits for approval only while Slack shows the
\* sign-up or its registration is about to say so: only a failure of the webhook
\* loses one (create_profile, post_signup).  Without a webhook nobody is told, and
\* of a user whom an administrator added nobody is, although it is pending too.
PendingAreAnnounced ==
  \A u \in users \ listed : webhook /\ faults = 0 /\ row[u].pending =>
    \/ u \in messages
    \/ \E b \in Browser : form[b].at = "announce" /\ form[b].id = u

\* A request names the user of the access token that came with its submission, or
\* nobody if there was no token or that user is deleted, although the user is looked
\* up twice, and may be deleted and registered again in between (auth_required,
\* get_requesting_user).
SubmitterIsWhoAsked ==
  \A i \in DOMAIN requests : LET q == requests[i] IN
    IF q.who = Nobody
    THEN q.asked = None \/ \E u \in (1..serial) \ users : row[u].sub = q.asked
    ELSE q.who \in users /\ row[q.who].sub = q.asked
=============================================================================
