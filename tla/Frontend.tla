------------------------------ MODULE Frontend ------------------------------
(***************************************************************************)
(* One tab of the browser: static/app.js against the cookie it shares with *)
(* other tabs and the sessions of the server. JavaScript runs to the next  *)
(* await; between a fetch and its continuation the user clicks, other      *)
(* answers come in, and the cookie changes under everything. A call of     *)
(* api() is a record in calls: sent, then answered ("ok" or "refused", the *)
(* moment its headers change the cookie), then resumed, when its           *)
(* continuation runs. Answers come in any order, or not at all.            *)
(***************************************************************************)
EXTENDS Naturals, Sequences

CONSTANTS
  Users,      \* accounts the user of the tab can log in with
  Admins,     \* those with the role admin
  Slots,      \* calls in flight at a time
  Clicks,     \* what is clicked in an instance, a subset of Buttons
  None,       \* no user, no call, an empty element
  MaxTokens,  \* sessions made in a behaviour
  MaxTabs     \* steps of other tabs

\* Buttons of the application besides logging out; login and register are
\* one, they differ in what the server checks.
Buttons ==
  {"docs", "search", "detail", "comments", "profile", "users", "create", "save", "comment"}

ASSUME FrontendAssumption ==
  /\ Admins \subseteq Users /\ Clicks \subseteq Buttons
  /\ None \notin Users
  /\ MaxTokens \in Nat /\ MaxTabs \in Nat

VARIABLES
  tokens,             \* sessions of the server, a cookie is the index of one
  cookie,             \* the browser's cookie, 0 if there is none
  calls,              \* api calls in flight
  currentUser,        \* app.js: currentUser, None before login
  sessionGeneration,  \* app.js: sessionGeneration
  page,               \* what each element holds
  crossed,            \* history: the cookie no longer has to be currentUser's
  tabs                \* counts the steps of other tabs, for MaxTabs

jsVars == <<currentUser, sessionGeneration, page>>
serverVars == <<tokens, cookie>>
vars == <<tokens, cookie, calls, currentUser, sessionGeneration, page, crossed, tabs>>

\* The element a loader fills. stats goes with doc-list, the inputs of the
\* profile with profile-info.
Fills == [docs |-> "doc-list", search |-> "search-results", detail |-> "doc-detail",
          comments |-> "comments", profile |-> "profile-info",
          users |-> "admin-users", documents |-> "admin-docs"]
Elements == {Fills[k] : k \in DOMAIN Fills}
Kinds == {"me", "login", "logout", "create", "save", "comment"} \cup DOMAIN Fills

\* who is the user a login names, or the user whose data are the answer; by is
\* history: the user on the page when the call was made.
Call == [kind : Kinds, gen : Nat, by : Users \cup {None}, token : Nat,
         who : Users \cup {None}, state : {"sent", "ok", "refused"}]
\* of is the user whose data it is, None for an error message.
Content == [gen : Nat, by : Users \cup {None}, of : Users \cup {None}]

ASSUME NoneAssumption == None \notin Call \cup Content

Free(c) == calls[c] = None
Answered(c) == ~Free(c) /\ calls[c].state # "sent"
LoginInFlight(cs) == \E c \in cs : ~Free(c) /\ calls[c].kind = "login"
Holds(e) == page[e] # None /\ page[e].of # None

\* api up to its await: the generation and the cookie are those of now.
NewCall(kind, gen, by, who) ==
  [kind |-> kind, gen |-> gen, by |-> by, token |-> cookie, who |-> who, state |-> "sent"]

Init ==
  /\ \E s \in Users \cup {None} :
       IF s = None THEN tokens = <<>> /\ cookie = 0
                   ELSE tokens = <<[user |-> s, live |-> TRUE]>> /\ cookie = 1
  /\ currentUser = None
  /\ sessionGeneration = 0
  /\ page = [e \in Elements |-> None]
  /\ \E c \in Slots :
       calls = [d \in Slots |-> IF d = c
                  THEN NewCall("me", 0, None, None)
                  ELSE None]
  /\ crossed = FALSE
  /\ tabs = 0

-----------------------------------------------------------------------------
(* Clicks. The forms of login are shown while there is no currentUser, the
   application otherwise; nothing is disabled while a call is in flight. *)

LoginClick(c, u) ==
  /\ currentUser = None /\ Free(c)
  /\ calls' = [calls EXCEPT ![c] = NewCall("login", sessionGeneration, currentUser, u)]
  /\ UNCHANGED <<jsVars, serverVars, crossed, tabs>>

\* The button of the administrator is hidden from others; comments are posted
\* from the document that is open, and paged where they are.
Offered(b) ==
  /\ b = "users" => currentUser \in Admins
  /\ b = "comment" => Holds("doc-detail")
  /\ b = "comments" => Holds("comments")

Click(c, b) ==
  /\ currentUser # None /\ Free(c) /\ Offered(b)
  /\ calls' = [calls EXCEPT ![c] = NewCall(b, sessionGeneration, currentUser, None)]
  /\ UNCHANGED <<jsVars, serverVars, crossed, tabs>>

LogoutClick(c) ==
  /\ currentUser # None /\ Free(c)
  /\ calls' = [calls EXCEPT ![c] = NewCall("logout", sessionGeneration, currentUser, None)]
  /\ UNCHANGED <<jsVars, serverVars, crossed, tabs>>

-----------------------------------------------------------------------------
(* The server and the network. *)

LiveToken(t) == t \in DOMAIN tokens /\ tokens[t].live

\* What the server does with the call, and whether it is answered with 200.
LoginServed(c) ==
  /\ calls[c].kind = "login"
  /\ Len(tokens) < MaxTokens
  /\ tokens' = Append(tokens, [user |-> calls[c].who, live |-> TRUE])

LogoutServed(c) ==
  /\ calls[c].kind = "logout"
  /\ tokens' = [t \in DOMAIN tokens |->
                  IF t = calls[c].token THEN [tokens[t] EXCEPT !.live = FALSE] ELSE tokens[t]]

Permitted(kind, t) ==
  /\ LiveToken(t)
  /\ kind \in {"users", "documents"} => tokens[t].user \in Admins

RequestServed(c) ==
  /\ calls[c].kind \notin {"login", "logout"}
  /\ Permitted(calls[c].kind, calls[c].token)
  /\ UNCHANGED tokens

\* The answer reaches the browser, which sets or deletes the cookie before any
\* script sees it. When the server did its work does not matter more than this.
AnswerLogin(c) ==
  /\ ~Free(c) /\ calls[c].state = "sent"
  /\ LoginServed(c)
  /\ cookie' = Len(tokens')
  /\ calls' = [calls EXCEPT ![c].state = "ok"]
  /\ UNCHANGED <<jsVars, crossed, tabs>>

AnswerLogout(c) ==
  /\ ~Free(c) /\ calls[c].state = "sent"
  /\ LogoutServed(c)
  /\ cookie' = 0
  /\ calls' = [calls EXCEPT ![c].state = "ok"]
  /\ UNCHANGED <<jsVars, crossed, tabs>>

Answer(c) ==
  /\ ~Free(c) /\ calls[c].state = "sent"
  /\ RequestServed(c)
  /\ calls' = [calls EXCEPT ![c].state = "ok", ![c].who = tokens[calls[c].token].user]
  /\ UNCHANGED <<jsVars, cookie, crossed, tabs>>

\* Wrong password, no session, no right, too many requests, an error.
Refuse(c) ==
  /\ ~Free(c) /\ calls[c].state = "sent"
  /\ calls' = [calls EXCEPT ![c].state = "refused", ![c].who = None]
  /\ UNCHANGED <<jsVars, serverVars, crossed, tabs>>

\* fetch rejects: the continuation never runs. The server may have done it.
Lose(c) ==
  /\ ~Free(c) /\ calls[c].state = "sent"
  /\ LoginServed(c) \/ LogoutServed(c) \/ UNCHANGED tokens
  /\ calls' = [calls EXCEPT ![c] = None]
  /\ UNCHANGED <<jsVars, cookie, crossed, tabs>>

\* Another tab of the same browser logs in or out.
OtherTab ==
  /\ tabs < MaxTabs
  /\ tabs' = tabs + 1
  /\ crossed' = TRUE
  /\ \/ /\ Len(tokens) < MaxTokens
        /\ \E u \in Users : tokens' = Append(tokens, [user |-> u, live |-> TRUE])
        /\ cookie' = Len(tokens')
     \/ /\ cookie # 0
        /\ tokens' = [tokens EXCEPT ![cookie].live = FALSE]
        /\ cookie' = 0
  /\ UNCHANGED <<jsVars, calls>>

-----------------------------------------------------------------------------
(* Continuations. A continuation that calls api again does so before anything
   else can run, in the slot of its own call. *)

\* Mutant: the generations are not compared.
OkAnyGeneration(c) == calls[c].state = "ok"

\* api's second half: an answer to a call of another generation counts as 401.
Ok(c) == calls[c].state = "ok" /\ calls[c].gen = sessionGeneration

Done(c) == calls' = [calls EXCEPT ![c] = None]
GoOn(c, kind, gen, by) == calls' = [calls EXCEPT ![c] = NewCall(kind, gen, by, None)]

\* login, register and the recovery of the session: currentUser, enterApp and
\* the first list. Nothing on the page is emptied.
ResumeEnter(c) ==
  /\ Answered(c) /\ calls[c].kind \in {"me", "login"}
  /\ IF Ok(c)
     THEN /\ currentUser' = calls[c].who
          /\ sessionGeneration' = sessionGeneration + 1
          /\ GoOn(c, "docs", sessionGeneration + 1, calls[c].who)
          /\ crossed' = (crossed \/ LoginInFlight(Slots \ {c}))
     ELSE Done(c) /\ UNCHANGED <<currentUser, sessionGeneration, crossed>>
  /\ UNCHANGED <<page, serverVars, tabs>>

\* Mutant: the page is left whatever the server said.
ResumeLogoutRegardless(c) ==
  /\ Answered(c) /\ calls[c].kind = "logout"
  /\ Done(c)
  /\ currentUser' = None
  /\ sessionGeneration' = sessionGeneration + 1
  /\ page' = [e \in Elements |-> None]
  /\ crossed' = (crossed \/ LoginInFlight(Slots))
  /\ UNCHANGED <<serverVars, tabs>>

\* Mutant: the elements are hidden and not emptied.
ResumeLogoutHiding(c) ==
  /\ Answered(c) /\ calls[c].kind = "logout"
  /\ Done(c)
  /\ IF Ok(c)
     THEN /\ currentUser' = None
          /\ sessionGeneration' = sessionGeneration + 1
          /\ crossed' = (crossed \/ LoginInFlight(Slots))
     ELSE UNCHANGED <<currentUser, sessionGeneration, crossed>>
  /\ UNCHANGED <<page, serverVars, tabs>>

\* logout: only an answer of 200 ends the session on the page, and empties it.
ResumeLogout(c) ==
  /\ Answered(c) /\ calls[c].kind = "logout"
  /\ Done(c)
  /\ IF Ok(c)
     THEN /\ currentUser' = None
          /\ sessionGeneration' = sessionGeneration + 1
          /\ page' = [e \in Elements |-> None]
          /\ crossed' = (crossed \/ LoginInFlight(Slots))
     ELSE UNCHANGED <<jsVars, crossed>>
  /\ UNCHANGED <<serverVars, tabs>>

Shown(c) == [gen |-> calls[c].gen, by |-> calls[c].by, of |-> calls[c].who]
Message(c) == [gen |-> calls[c].gen, by |-> calls[c].by, of |-> None]

\* loadDocs, search, loadProfile, and the second half of loadAdmin: an answer
\* that is not Ok changes nothing.
ResumeLoad(c) ==
  /\ Answered(c) /\ calls[c].kind \in {"docs", "search", "profile", "documents"}
  /\ Done(c)
  /\ page' = IF Ok(c) THEN [page EXCEPT ![Fills[calls[c].kind]] = Shown(c)] ELSE page
  /\ UNCHANGED <<currentUser, sessionGeneration, serverVars, crossed, tabs>>

\* viewDoc: new contents of doc-detail replace the element comments in it. What
\* is not Ok puts an error message there.
ResumeDetail(c) ==
  /\ Answered(c) /\ calls[c].kind = "detail"
  /\ IF Ok(c) THEN GoOn(c, "comments", sessionGeneration, currentUser) ELSE Done(c)
  /\ page' = [page EXCEPT !["doc-detail"] = IF Ok(c) THEN Shown(c) ELSE Message(c),
                          !["comments"] = None]
  /\ UNCHANGED <<currentUser, sessionGeneration, serverVars, crossed, tabs>>

\* loadComments fails on the missing element when no document is open.
ResumeComments(c) ==
  /\ Answered(c) /\ calls[c].kind = "comments"
  /\ Done(c)
  /\ page' = IF Ok(c) /\ Holds("doc-detail") THEN [page EXCEPT !["comments"] = Shown(c)] ELSE page
  /\ UNCHANGED <<currentUser, sessionGeneration, serverVars, crossed, tabs>>

\* loadAdmin's first half, and its second call, whatever came of the first.
ResumeUsers(c) ==
  /\ Answered(c) /\ calls[c].kind = "users"
  /\ GoOn(c, "documents", sessionGeneration, currentUser)
  /\ page' = [page EXCEPT !["admin-users"] = IF Ok(c) THEN Shown(c) ELSE Message(c)]
  /\ UNCHANGED <<currentUser, sessionGeneration, serverVars, crossed, tabs>>

\* createDoc and saveProfile load again what they changed, when they did.
ResumeSave(c) ==
  /\ Answered(c) /\ calls[c].kind \in {"create", "save"}
  /\ IF Ok(c)
     THEN GoOn(c, IF calls[c].kind = "create" THEN "docs" ELSE "profile", sessionGeneration, currentUser)
     ELSE Done(c)
  /\ UNCHANGED <<jsVars, serverVars, crossed, tabs>>

\* addComment loads the comments again without looking at the answer.
ResumeComment(c) ==
  /\ Answered(c) /\ calls[c].kind = "comment"
  /\ GoOn(c, "comments", sessionGeneration, currentUser)
  /\ UNCHANGED <<jsVars, serverVars, crossed, tabs>>

Next ==
  \/ \E c \in Slots :
       \/ \E u \in Users : LoginClick(c, u)
       \/ \E b \in Clicks : Click(c, b)
       \/ LogoutClick(c)
       \/ AnswerLogin(c) \/ AnswerLogout(c) \/ Answer(c) \/ Refuse(c) \/ Lose(c)
       \/ ResumeEnter(c) \/ ResumeLogout(c) \/ ResumeLoad(c) \/ ResumeDetail(c)
       \/ ResumeComments(c) \/ ResumeUsers(c) \/ ResumeSave(c) \/ ResumeComment(c)
  \/ OtherTab

Spec == Init /\ [][Next]_vars

-----------------------------------------------------------------------------
(* Properties. *)

\* Types of the variables; a call is never of a generation that is to come.
TypeOK ==
  /\ tokens \in Seq([user : Users, live : BOOLEAN])
  /\ cookie \in 0 .. Len(tokens)
  /\ calls \in [Slots -> Call \cup {None}]
  /\ currentUser \in Users \cup {None}
  /\ sessionGeneration \in Nat
  /\ page \in [Elements -> Content \cup {None}]
  /\ crossed \in BOOLEAN
  /\ tabs \in 0 .. MaxTabs

\* Nothing one session asked for is on the page of another one, or of none,
\* however late its answers come: what the comparison of generations in api
\* and the emptying in logout are for. Only what the login screen itself came
\* to load, with the cookie of a login whose continuation has not run, is still
\* there in the session that follows.
NothingOfEarlierSessions ==
  \A e \in Elements : Holds(e) =>
    \/ page[e].gen = sessionGeneration
    \/ page[e].by = None /\ page[e].gen + 1 = sessionGeneration /\ currentUser # None

\* Everything on the page belongs to the user it says is logged in, unless a
\* second login of this tab was overtaken or another tab changed the cookie:
\* the page itself never asks whose the cookie is.
PageIsCurrentUsers ==
  currentUser # None /\ ~crossed =>
    \A e \in Elements : Holds(e) => page[e].of = currentUser

\* Once the page has been left by logout, opening it again does not bring a
\* user back: no cookie is left, unless a login is under way or the cookie was
\* crossed as above.
LogoutLeavesNoCookie ==
  currentUser = None /\ sessionGeneration > 0 /\ ~crossed =>
    cookie = 0 \/ LoginInFlight(Slots)

-----------------------------------------------------------------------------
(* The inductive invariant. *)

\* A call of the present generation was made by who is on the page now; only
\* the login screen logs in, only the application logs out, and before the
\* first login there is nothing else.
CallFits(x) ==
  /\ x.gen <= sessionGeneration
  /\ x.gen = sessionGeneration => x.by = currentUser
  /\ x.token <= Len(tokens)
  /\ x.kind \in {"me", "login"} => x.by = None
  /\ x.kind = "me" => x.gen = 0
  /\ x.kind = "logout" => x.by # None
  /\ x.kind = "login" /\ x.state # "refused" => x.who # None
  /\ x.state = "ok" /\ x.kind # "logout" => x.who # None
  /\ sessionGeneration = 0 => x.kind \in {"me", "login"}

\* The same of what the page holds.
PageOfThisGeneration ==
  /\ NothingOfEarlierSessions
  /\ \A e \in Elements : Holds(e) /\ page[e].gen = sessionGeneration => page[e].by = currentUser

LoggedIn(x) == x.kind = "login" /\ x.state = "ok"

\* Who is on the page, or will be as soon as a continuation runs.
Expected(u) ==
  IF currentUser # None THEN u = currentUser
  ELSE \E c \in Slots : /\ ~Free(c) /\ LoggedIn(calls[c])
                        /\ calls[c].gen = sessionGeneration /\ calls[c].who = u

\* The cookie is of the expected user. Before the first login it may also be
\* the one the recovery of the session asks about.
CookieIsExpected ==
  cookie # 0 => \/ Expected(tokens[cookie].user)
                \/ /\ sessionGeneration = 0
                   /\ \A c \in Slots : Free(c) \/ ~LoggedIn(calls[c])

\* So is the cookie of a call, and whose data it brings. The answer to a logout
\* has left no cookie, and the recovery of the session was not overtaken.
CallIsExpected(x) ==
  /\ x.kind = "login" => x.gen = sessionGeneration
  /\ x.gen = sessionGeneration =>
       /\ x.kind \notin {"me", "login"} /\ x.token # 0 => Expected(tokens[x.token].user)
       /\ x.kind \notin {"me", "login", "logout"} /\ x.state = "ok" => Expected(x.who)
       /\ x.kind = "logout" /\ x.state = "ok" => cookie = 0
       /\ x.kind = "me" =>
            /\ x.state = "ok" => x.token # 0 /\ tokens[x.token].user = x.who
            /\ cookie # 0 => x.token = cookie \/ Expected(tokens[cookie].user)

UncrossedIsExpected ==
  ~crossed =>
    /\ currentUser # None => ~LoginInFlight(Slots)
    /\ CookieIsExpected
    /\ \A c \in Slots : ~Free(c) => CallIsExpected(calls[c])
    /\ \A e \in Elements : Holds(e) => Expected(page[e].of)

IInv ==
  /\ TypeOK
  /\ sessionGeneration = 0 => currentUser = None
  /\ \A c \in Slots : ~Free(c) => CallFits(calls[c])
  /\ PageOfThisGeneration
  /\ UncrossedIsExpected

-----------------------------------------------------------------------------
\* docs/02-개선내역.md:865 says that the asynchronous results of an earlier session
\* are discarded. viewDoc and loadAdmin write an error message for them, into
\* the page of the session that follows.
LateAnswersAreDiscarded ==
  \A e \in Elements : page[e] # None => page[e].gen = sessionGeneration
=============================================================================
