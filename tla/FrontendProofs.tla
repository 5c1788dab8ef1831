--------------------------- MODULE FrontendProofs ---------------------------
(***************************************************************************)
(* What Frontend promises, for any number of users, slots, sessions and    *)
(* steps of other tabs.                                                    *)
(***************************************************************************)
EXTENDS Frontend, TLAPS

Session == [user : Users, live : BOOLEAN]

-----------------------------------------------------------------------------
(* Calls and the page.                                                     *)

LEMMA Places ==
  /\ \A k \in {"docs", "search", "detail", "comments", "profile", "users", "documents"} :
       k \in Kinds /\ k \in DOMAIN Fills /\ Fills[k] \in Elements
  /\ {"me", "login", "logout", "create", "save", "comment"} \subseteq Kinds
  /\ Buttons \subseteq Kinds
  /\ Fills["docs"] = "doc-list" /\ Fills["detail"] = "doc-detail"
  /\ Fills["comments"] = "comments" /\ Fills["users"] = "admin-users"
<1>1. DOMAIN Fills = {"docs", "search", "detail", "comments", "profile", "users", "documents"}
  BY DEF Fills
<1>2. \A k \in DOMAIN Fills : Fills[k] \in Elements
  BY DEF Elements
<1>3. QED
  BY <1>1, <1>2 DEF Kinds, Buttons, Fills

LEMMA CallFields ==
  ASSUME NEW x \in Call
  PROVE  /\ x # None /\ x.kind \in Kinds /\ x.gen \in Nat /\ x.by \in Users \cup {None}
         /\ x.token \in Nat /\ x.who \in Users \cup {None}
         /\ x.state \in {"sent", "ok", "refused"}
  BY NoneAssumption DEF Call

LEMMA NewCallFacts ==
  ASSUME TypeOK, NEW kind \in Kinds, NEW gen \in Nat, NEW by \in Users \cup {None},
         NEW who \in Users \cup {None}
  PROVE  \E x \in Call : /\ x = NewCall(kind, gen, by, who)
                         /\ x.kind = kind /\ x.gen = gen /\ x.by = by /\ x.who = who
                         /\ x.token = cookie /\ x.state = "sent"
<1>1. cookie \in Nat
  BY DEF TypeOK
<1>2. NewCall(kind, gen, by, who) \in Call
  BY <1>1 DEF NewCall, Call
<1>3. QED
  BY <1>2 DEF NewCall

\* Of a call that is made: its type and what IInv says.
LEMMA CallFacts ==
  ASSUME IInv, NEW c \in Slots, ~Free(c)
  PROVE  \E x \in Call : /\ calls[c] = x /\ CallFits(x)
                         /\ ~crossed => CallIsExpected(x)
  BY DEF IInv, TypeOK, Free, UncrossedIsExpected

\* What is put into an element is of this generation and expected, or a message.
Puts(e) == \/ page'[e] = page[e]
           \/ page'[e] = None \/ page'[e].of = None
           \/ /\ page'[e].gen = sessionGeneration /\ page'[e].by = currentUser
              /\ ~crossed => Expected(page'[e].of)

LEMMA ShownFacts ==
  ASSUME IInv, NEW c \in Slots, ~Free(c)
  PROVE  /\ Shown(c) \in Content /\ Message(c) \in Content /\ Message(c).of = None
         /\ Ok(c) /\ calls[c].kind \notin {"me", "login", "logout"} =>
              /\ Shown(c).gen = sessionGeneration /\ Shown(c).by = currentUser
              /\ ~crossed => Expected(Shown(c).of)
<1>1. PICK x \in Call : /\ calls[c] = x /\ CallFits(x)
                        /\ ~crossed => CallIsExpected(x)
  BY CallFacts
<1>2. Shown(c) = [gen |-> x.gen, by |-> x.by, of |-> x.who]
  BY <1>1 DEF Shown
<1>3. Message(c) = [gen |-> x.gen, by |-> x.by, of |-> None]
  BY <1>1 DEF Message
<1>4. QED
  BY <1>1, <1>2, <1>3, CallFields DEF Content, Ok, CallFits, CallIsExpected

-----------------------------------------------------------------------------
(* Steps within a session of the page.                                     *)

\* Whom one expects is still expected when no login that succeeded goes.
LEMMA ExpectedStays ==
  ASSUME NEW c \in Slots, NEW u, Expected(u), UNCHANGED <<currentUser, sessionGeneration>>,
         \A d \in Slots : d # c => calls'[d] = calls[d],
         ~Free(c) /\ LoggedIn(calls[c]) => calls[c].gen # sessionGeneration
  PROVE  Expected(u)'
<1>1. CASE currentUser # None
  BY <1>1 DEF Expected
<1>2. CASE currentUser = None
  <2>1. PICK d \in Slots : /\ ~Free(d) /\ LoggedIn(calls[d])
                           /\ calls[d].gen = sessionGeneration /\ calls[d].who = u
    BY <1>2 DEF Expected
  <2>2. calls'[d] = calls[d]
    BY <2>1
  <2>3. QED
    BY <1>2, <2>1, <2>2 DEF Expected, Free, LoggedIn
<1>3. QED
  BY <1>1, <1>2

\* The call in slot c becomes x; the server, the cookie and the page may change.
LEMMA SessionStep ==
  ASSUME IInv, NEW c \in Slots, NEW x \in Call \cup {None}, calls' = [calls EXCEPT ![c] = x],
         UNCHANGED <<currentUser, sessionGeneration, crossed, tabs>>,
         tokens' \in Seq(Session), Len(tokens) <= Len(tokens'),
         \A t \in 1 .. Len(tokens) : tokens'[t].user = tokens[t].user,
         cookie' \in 0 .. Len(tokens'),
         page' \in [Elements -> Content \cup {None}], \A e \in Elements : Puts(e),
         x # None => CallFits(x)',
         ~crossed /\ x # None => CallIsExpected(x)',
         ~Free(c) /\ LoggedIn(calls[c]) /\ ~crossed => calls[c].gen # sessionGeneration,
         ~crossed /\ x # None /\ x.kind = "login" => currentUser = None,
         ~crossed => \/ cookie' = cookie \/ cookie' = 0
                     \/ currentUser = None /\ Expected(tokens[cookie].user)',
         ~crossed /\ x # None /\ LoggedIn(x) => Expected(tokens[cookie].user)'
  PROVE  IInv'
<1>1. /\ calls' \in [Slots -> Call \cup {None}] /\ calls'[c] = x
      /\ \A d \in Slots : d # c => calls'[d] = calls[d]
  BY DEF IInv, TypeOK
<1>2. TypeOK'
  BY <1>1 DEF IInv, TypeOK, Session
<1>3. Len(tokens) \in Nat /\ Len(tokens') \in Nat /\ cookie \in 0 .. Len(tokens)
  BY DEF IInv, TypeOK
<1>4. ASSUME NEW d \in Slots, ~Free(d)' PROVE CallFits(calls[d])'
  <2>1. CASE d = c
    BY <1>1, <1>4, <2>1 DEF Free, CallFits
  <2>2. CASE d # c
    <3>1. PICK y \in Call : calls[d] = y /\ CallFits(y)
      BY <1>1, <1>4, <2>2, CallFacts DEF Free
    <3>2. y.token <= Len(tokens')
      BY <1>3, <3>1, CallFields DEF CallFits
    <3>3. CallFits(y)'
      BY <3>1, <3>2 DEF CallFits
    <3>4. QED
      BY <1>1, <2>2, <3>1, <3>3 DEF CallFits
  <2>3. QED
    BY <2>1, <2>2
<1>5. PageOfThisGeneration'
  BY DEF IInv, PageOfThisGeneration, NothingOfEarlierSessions, Puts, Holds
<1>6. ASSUME ~crossed, NEW u, Expected(u) PROVE Expected(u)'
  BY <1>1, <1>6, ExpectedStays
<1>7. ASSUME ~crossed
      PROVE  /\ currentUser' # None => ~LoginInFlight(Slots)'
             /\ CookieIsExpected'
             /\ \A d \in Slots : ~Free(d)' => CallIsExpected(calls[d])'
             /\ \A e \in Elements : Holds(e)' => Expected(page[e].of)'
  <2>1. /\ currentUser # None => ~LoginInFlight(Slots)
        /\ CookieIsExpected
        /\ \A d \in Slots : ~Free(d) => CallIsExpected(calls[d])
        /\ \A e \in Elements : Holds(e) => Expected(page[e].of)
    BY <1>7 DEF IInv, UncrossedIsExpected
  <2>2. currentUser' # None => ~LoginInFlight(Slots)'
    BY <1>1, <1>7, <2>1 DEF LoginInFlight, Free
  <2>3. PICK t : t = tokens[cookie].user
    OBVIOUS
  <2>5. CookieIsExpected'
    <3>1. SUFFICES ASSUME cookie' = cookie, cookie # 0 PROVE CookieIsExpected'
      BY <1>7 DEF CookieIsExpected
    <3>2. tokens'[cookie'].user = t
      BY <1>3, <2>3, <3>1
    <3>3. CASE Expected(t)
      BY <1>6, <1>7, <3>2, <3>3 DEF CookieIsExpected
    <3>4. CASE ~Expected(t)
      <4>1. sessionGeneration = 0 /\ \A d \in Slots : Free(d) \/ ~LoggedIn(calls[d])
        BY <2>1, <2>3, <3>1, <3>4 DEF CookieIsExpected
      <4>2. CASE x # None /\ LoggedIn(x)
        BY <1>7, <4>2 DEF CookieIsExpected
      <4>3. CASE x = None \/ ~LoggedIn(x)
        <5>1. ASSUME NEW d \in Slots PROVE Free(d)' \/ ~LoggedIn(calls[d])'
          BY <1>1, <4>1, <4>3 DEF Free, LoggedIn
        <5>2. QED
          BY <4>1, <5>1 DEF CookieIsExpected
      <4>4. QED
        BY <4>2, <4>3
    <3>5. QED
      BY <3>3, <3>4
  <2>6. ASSUME NEW d \in Slots, ~Free(d)' PROVE CallIsExpected(calls[d])'
    <3>1. CASE d = c
      BY <1>1, <1>7, <2>6, <3>1 DEF Free, CallIsExpected
    <3>2. CASE d # c
      <4>1. PICK y \in Call : calls[d] = y /\ CallFits(y) /\ CallIsExpected(y)
        BY <1>1, <1>7, <2>6, <3>2, CallFacts DEF Free
      <4>2. PICK v : v = tokens[y.token].user
        OBVIOUS
      <4>3. y.token # 0 => tokens'[y.token].user = v
        BY <1>3, <4>1, <4>2, CallFields DEF CallFits
      <4>4. y.gen = sessionGeneration /\ y.kind = "logout" /\ y.state = "ok" => cookie' = 0
        BY <1>7, <4>1 DEF CallFits, CallIsExpected
      <4>5. cookie' # 0 => \/ cookie' = cookie /\ tokens'[cookie'].user = t
                           \/ Expected(tokens[cookie].user)'
        BY <1>3, <1>7, <2>3
      <4>6. y.gen = sessionGeneration /\ y.kind = "me" /\ cookie' # 0 =>
              y.token = cookie' \/ Expected(tokens[cookie].user)'
        BY <1>6, <1>7, <2>3, <4>1, <4>5 DEF CallIsExpected
      <4>7. CallIsExpected(y)'
        BY <1>6, <1>7, <4>1, <4>2, <4>3, <4>4, <4>6 DEF CallIsExpected
      <4>8. QED
        BY <1>1, <3>2, <4>1, <4>7 DEF CallIsExpected
    <3>3. QED
      BY <3>1, <3>2
  <2>7. ASSUME NEW e \in Elements, Holds(e)' PROVE Expected(page[e].of)'
    <3>1. PICK u : u = page'[e].of
      OBVIOUS
    <3>2. Expected(u)
      BY <1>7, <2>1, <2>7, <3>1 DEF Puts, Holds
    <3>3. QED
      BY <1>6, <1>7, <3>1, <3>2
  <2>8. QED
    BY <2>2, <2>5, <2>6, <2>7
<1>8. UncrossedIsExpected'
  BY <1>7 DEF UncrossedIsExpected
<1>9. QED
  BY <1>2, <1>4, <1>5, <1>8 DEF IInv

\* The server and the cookie stay, and so does who is on the page.
Here == UNCHANGED <<currentUser, sessionGeneration, crossed, tabs, tokens, cookie>>

PagePuts == page' \in [Elements -> Content \cup {None}] /\ \A e \in Elements : Puts(e)

LEMMA HereFacts ==
  ASSUME IInv, Here
  PROVE  /\ tokens' \in Seq(Session) /\ Len(tokens) <= Len(tokens')
         /\ \A t \in 1 .. Len(tokens) : tokens'[t].user = tokens[t].user
         /\ cookie' \in 0 .. Len(tokens')
         /\ UNCHANGED <<currentUser, sessionGeneration, crossed, tabs>> /\ cookie' = cookie
  BY DEF IInv, TypeOK, Here, Session

LEMMA SamePage == ASSUME IInv, UNCHANGED page PROVE PagePuts
  BY DEF IInv, TypeOK, PagePuts, Puts

\* A login that succeeded is of this generation as long as nothing was crossed.
LEMMA LoginIsNow ==
  ASSUME IInv, NEW c \in Slots, ~Free(c), ~Ok(c) \/ ~LoggedIn(calls[c]), LoggedIn(calls[c])
  PROVE  crossed /\ calls[c].gen # sessionGeneration
<1>1. PICK x \in Call : calls[c] = x /\ (~crossed => CallIsExpected(x))
  BY CallFacts
<1>2. QED
  BY <1>1 DEF Ok, LoggedIn, CallIsExpected, IInv, TypeOK

\* A continuation that makes no call.
LEMMA DoneStep ==
  ASSUME IInv, NEW c \in Slots, Done(c), Here, PagePuts, ~Free(c),
         LoggedIn(calls[c]) => ~Ok(c)
  PROVE  IInv'
<1>1. PICK x \in Call \cup {None} : x = None
  OBVIOUS
<1>2. calls' = [calls EXCEPT ![c] = x]
  BY <1>1 DEF Done
<1>3. LoggedIn(calls[c]) => calls[c].gen # sessionGeneration
  BY LoginIsNow
<1>4. QED
  BY <1>1, <1>2, <1>3, HereFacts, SessionStep DEF PagePuts

\* A new call: a click, or a continuation that calls again.
LEMMA NewCallStep ==
  ASSUME IInv, NEW c \in Slots, NEW kind \in Kinds, NEW who \in Users \cup {None},
         calls' = [calls EXCEPT ![c] = NewCall(kind, sessionGeneration, currentUser, who)],
         Here, PagePuts, Free(c) \/ ~LoggedIn(calls[c]), kind # "me",
         kind = "login" => currentUser = None /\ who # None,
         kind = "logout" => currentUser # None,
         kind # "login" => sessionGeneration # 0
  PROVE  IInv'
<1>1. PICK x \in Call :
        /\ x = NewCall(kind, sessionGeneration, currentUser, who)
        /\ x.kind = kind /\ x.gen = sessionGeneration /\ x.by = currentUser /\ x.who = who
        /\ x.token = cookie /\ x.state = "sent"
  <2>1. TypeOK /\ sessionGeneration \in Nat /\ currentUser \in Users \cup {None}
    BY DEF IInv, TypeOK
  <2>2. QED
    BY <2>1, NewCallFacts
<1>2. calls' = [calls EXCEPT ![c] = x] /\ x # None
  BY <1>1, CallFields
<1>3. cookie <= Len(tokens)
  BY DEF IInv, TypeOK
<1>4. CallFits(x)'
  BY <1>1, <1>3, HereFacts DEF CallFits, Here, IInv, TypeOK
<1>5. ASSUME ~crossed PROVE CallIsExpected(x)'
  <2>1. x.kind # "login" /\ cookie # 0 => Expected(tokens[cookie].user)
    BY <1>1, <1>5 DEF IInv, UncrossedIsExpected, CookieIsExpected
  <2>2. PICK u : u = tokens[cookie].user
    OBVIOUS
  <2>3. x.kind # "login" /\ cookie # 0 => Expected(u)
    BY <2>1, <2>2
  <2>4. ASSUME Expected(u) PROVE Expected(u)'
    BY <1>2, <2>4, ExpectedStays DEF Here, IInv, TypeOK
  <2>5. tokens'[x.token].user = u
    BY <1>1, <2>2 DEF Here
  <2>6. x.kind # "login" /\ x.token # 0 => Expected(tokens[x.token].user)'
    BY <1>1, <2>3, <2>4, <2>5
  <2>7. QED
    BY <1>1, <2>6 DEF CallIsExpected, Here
<1>6. QED
  BY <1>1, <1>2, <1>4, <1>5, HereFacts, SessionStep DEF PagePuts, LoggedIn

LEMMA GoOnStep ==
  ASSUME IInv, NEW c \in Slots, NEW kind \in Kinds \ {"me", "login", "logout"},
         GoOn(c, kind, sessionGeneration, currentUser), Here, PagePuts, ~Free(c),
         calls[c].kind \notin {"me", "login"}
  PROVE  IInv'
<1>1. sessionGeneration # 0
  BY CallFacts DEF CallFits
<1>2. QED
  BY <1>1, NewCallStep DEF GoOn, LoggedIn

-----------------------------------------------------------------------------
(* Clicks, the network and loaders.                                        *)

LEMMA InvLoginClick ==
  ASSUME IInv, NEW c \in Slots, NEW u \in Users, LoginClick(c, u) PROVE IInv'
  BY SamePage, NewCallStep, Places, FrontendAssumption
  DEF LoginClick, Here, jsVars, serverVars

LEMMA InvClick ==
  ASSUME IInv, NEW c \in Slots, NEW b \in Clicks, Click(c, b) PROVE IInv'
<1>1. b \in Kinds /\ b \notin {"me", "login", "logout"}
  BY Places, FrontendAssumption DEF Buttons
<1>2. sessionGeneration # 0
  BY DEF IInv, Click
<1>3. QED
  BY <1>1, <1>2, SamePage, NewCallStep DEF Click, Here, jsVars, serverVars

LEMMA InvLogoutClick ==
  ASSUME IInv, NEW c \in Slots, LogoutClick(c) PROVE IInv'
<1>1. sessionGeneration # 0
  BY DEF IInv, LogoutClick
<1>2. QED
  BY <1>1, SamePage, NewCallStep, Places DEF LogoutClick, Here, jsVars, serverVars

LEMMA InvResumeLoad ==
  ASSUME IInv, NEW c \in Slots, ResumeLoad(c) PROVE IInv'
<1>1. ~Free(c) /\ calls[c].kind \in {"docs", "search", "profile", "documents"} /\ Done(c) /\ Here
  BY DEF ResumeLoad, Answered, Here, serverVars
<1>2. Fills[calls[c].kind] \in Elements
  BY <1>1, Places
<1>3. CASE Ok(c)
  <2>1. page' = [page EXCEPT ![Fills[calls[c].kind]] = Shown(c)]
    BY <1>3 DEF ResumeLoad
  <2>2. PagePuts
    BY <1>1, <1>2, <1>3, <2>1, ShownFacts DEF PagePuts, Puts, IInv, TypeOK
  <2>3. QED
    BY <1>1, <2>2, DoneStep DEF LoggedIn
<1>4. CASE ~Ok(c)
  BY <1>1, <1>4, SamePage, DoneStep DEF ResumeLoad
<1>5. QED
  BY <1>3, <1>4

LEMMA InvResumeDetail ==
  ASSUME IInv, NEW c \in Slots, ResumeDetail(c) PROVE IInv'
<1>1. ~Free(c) /\ calls[c].kind = "detail" /\ Here
  BY DEF ResumeDetail, Answered, Here, serverVars
<1>2. PICK v : v = IF Ok(c) THEN Shown(c) ELSE Message(c)
  OBVIOUS
<1>3. page' = [page EXCEPT !["doc-detail"] = v, !["comments"] = None]
  BY <1>2 DEF ResumeDetail
<1>4. "doc-detail" \in Elements /\ "comments" \in Elements /\ "comments" \in Kinds
  BY Places
<1>5. PagePuts
  BY <1>1, <1>2, <1>3, <1>4, ShownFacts DEF PagePuts, Puts, IInv, TypeOK
<1>6. CASE Ok(c)
  BY <1>1, <1>4, <1>5, <1>6, GoOnStep DEF ResumeDetail
<1>7. CASE ~Ok(c)
  BY <1>1, <1>5, <1>7, DoneStep DEF ResumeDetail
<1>8. QED
  BY <1>6, <1>7

LEMMA InvResumeComments ==
  ASSUME IInv, NEW c \in Slots, ResumeComments(c) PROVE IInv'
<1>1. ~Free(c) /\ calls[c].kind = "comments" /\ Done(c) /\ Here
  BY DEF ResumeComments, Answered, Here, serverVars
<1>2. CASE Ok(c) /\ Holds("doc-detail")
  <2>1. page' = [page EXCEPT !["comments"] = Shown(c)] /\ "comments" \in Elements
    BY <1>2, Places DEF ResumeComments
  <2>2. PagePuts
    BY <1>1, <1>2, <2>1, ShownFacts DEF PagePuts, Puts, IInv, TypeOK
  <2>3. QED
    BY <1>1, <2>2, DoneStep DEF LoggedIn
<1>3. CASE ~(Ok(c) /\ Holds("doc-detail"))
  BY <1>1, <1>3, SamePage, DoneStep DEF ResumeComments, LoggedIn
<1>4. QED
  BY <1>2, <1>3

LEMMA InvResumeUsers ==
  ASSUME IInv, NEW c \in Slots, ResumeUsers(c) PROVE IInv'
<1>1. ~Free(c) /\ calls[c].kind = "users" /\ Here /\ "documents" \in Kinds
  BY Places DEF ResumeUsers, Answered, Here, serverVars
<1>2. PICK v : v = IF Ok(c) THEN Shown(c) ELSE Message(c)
  OBVIOUS
<1>3. page' = [page EXCEPT !["admin-users"] = v] /\ "admin-users" \in Elements
  BY <1>2, Places DEF ResumeUsers
<1>4. PagePuts
  BY <1>1, <1>2, <1>3, ShownFacts DEF PagePuts, Puts, IInv, TypeOK
<1>5. QED
  BY <1>1, <1>4, GoOnStep DEF ResumeUsers

LEMMA InvResumeSave ==
  ASSUME IInv, NEW c \in Slots, ResumeSave(c) PROVE IInv'
<1>1. ~Free(c) /\ calls[c].kind \in {"create", "save"} /\ Here /\ PagePuts
  BY SamePage DEF ResumeSave, Answered, Here, serverVars, jsVars
<1>2. PICK kind : kind = IF calls[c].kind = "create" THEN "docs" ELSE "profile"
  OBVIOUS
<1>3. kind \in Kinds \ {"me", "login", "logout"}
  BY <1>2, Places
<1>4. CASE Ok(c)
  BY <1>1, <1>2, <1>3, <1>4, GoOnStep DEF ResumeSave
<1>5. CASE ~Ok(c)
  BY <1>1, <1>5, DoneStep DEF ResumeSave
<1>6. QED
  BY <1>4, <1>5

LEMMA InvResumeComment ==
  ASSUME IInv, NEW c \in Slots, ResumeComment(c) PROVE IInv'
<1>1. ~Free(c) /\ calls[c].kind = "comment" /\ Here /\ PagePuts /\ "comments" \in Kinds
  BY SamePage, Places DEF ResumeComment, Answered, Here, serverVars, jsVars
<1>2. QED
  BY <1>1, GoOnStep DEF ResumeComment

-----------------------------------------------------------------------------
(* The network.                                                            *)

TokensKept == /\ tokens' \in Seq(Session) /\ Len(tokens) <= Len(tokens')
              /\ \A t \in 1 .. Len(tokens) : tokens'[t].user = tokens[t].user

LEMMA TokenTypes ==
  ASSUME IInv
  PROVE  /\ tokens \in Seq(Session) /\ Len(tokens) \in Nat /\ DOMAIN tokens = 1 .. Len(tokens)
         /\ cookie \in 0 .. Len(tokens)
         /\ \A t \in 1 .. Len(tokens) : tokens[t] \in Session /\ tokens[t].user \in Users
<1>1. tokens \in Seq(Session) /\ cookie \in 0 .. Len(tokens)
  BY DEF IInv, TypeOK, Session
<1>2. Len(tokens) \in Nat /\ \A t \in 1 .. Len(tokens) : tokens[t] \in Session
  BY <1>1
<1>3. DOMAIN tokens = 1 .. Len(tokens)
  BY <1>1
<1>4. QED
  BY <1>1, <1>2, <1>3 DEF Session

LEMMA AppendKeeps ==
  ASSUME IInv, NEW s \in Session, tokens' = Append(tokens, s)
  PROVE  TokensKept /\ Len(tokens') = Len(tokens) + 1 /\ tokens'[Len(tokens')] = s
  BY TokenTypes DEF TokensKept

LEMMA UpdateKeeps ==
  ASSUME IInv, NEW f, f \in [1 .. Len(tokens) -> Session], tokens' = f,
         \A t \in 1 .. Len(tokens) : f[t].user = tokens[t].user
  PROVE  TokensKept /\ Len(tokens') = Len(tokens)
  BY TokenTypes DEF TokensKept

LEMMA ServedKeeps ==
  ASSUME IInv, NEW c \in Slots, ~Free(c), calls[c].state = "sent",
         LoginServed(c) \/ LogoutServed(c) \/ UNCHANGED tokens
  PROVE  TokensKept
<1>1. PICK x \in Call : calls[c] = x /\ CallFits(x)
  BY CallFacts
<1>2. CASE LoginServed(c)
  <2>1. x.who \in Users
    BY <1>1, <1>2, CallFields DEF LoginServed, CallFits
  <2>2. [user |-> x.who, live |-> TRUE] \in Session
    BY <2>1 DEF Session
  <2>3. QED
    BY <1>1, <1>2, <2>2, AppendKeeps DEF LoginServed
<1>3. CASE LogoutServed(c)
  <2>1. PICK f : f = [t \in 1 .. Len(tokens) |->
                        IF t = x.token THEN [tokens[t] EXCEPT !.live = FALSE] ELSE tokens[t]]
    OBVIOUS
  <2>2. f \in [1 .. Len(tokens) -> Session]
        /\ \A t \in 1 .. Len(tokens) : f[t].user = tokens[t].user
    BY <2>1, TokenTypes DEF Session
  <2>3. tokens' = f
    BY <1>1, <1>3, <2>1, TokenTypes DEF LogoutServed
  <2>4. QED
    BY <2>2, <2>3, UpdateKeeps
<1>4. CASE UNCHANGED tokens
  BY <1>4, TokenTypes DEF TokensKept
<1>5. QED
  BY <1>2, <1>3, <1>4

LEMMA InvLose ==
  ASSUME IInv, NEW c \in Slots, Lose(c) PROVE IInv'
<1>1. /\ ~Free(c) /\ calls[c].state = "sent" /\ calls' = [calls EXCEPT ![c] = None]
      /\ UNCHANGED <<currentUser, sessionGeneration, page, cookie, crossed, tabs>>
      /\ LoginServed(c) \/ LogoutServed(c) \/ UNCHANGED tokens
  BY DEF Lose, jsVars
<1>2. TokensKept /\ PagePuts
  BY <1>1, ServedKeeps, SamePage
<1>3. PICK x \in Call \cup {None} : x = None
  OBVIOUS
<1>4. cookie' \in 0 .. Len(tokens')
  BY <1>1, <1>2, TokenTypes DEF TokensKept
<1>5. ~LoggedIn(calls[c])
  BY <1>1 DEF LoggedIn
<1>6. QED
  BY <1>1, <1>2, <1>3, <1>4, <1>5, SessionStep DEF PagePuts, TokensKept

LEMMA InvRefuse ==
  ASSUME IInv, NEW c \in Slots, Refuse(c) PROVE IInv'
<1>1. PICK y \in Call : calls[c] = y /\ CallFits(y) /\ (~crossed => CallIsExpected(y))
  BY CallFacts DEF Refuse
<1>2. [y EXCEPT !.state = "refused", !.who = None] \in Call
  BY DEF Call
<1>3. PICK x \in Call : x = [y EXCEPT !.state = "refused", !.who = None]
  BY <1>2
<1>4. /\ x.kind = y.kind /\ x.gen = y.gen /\ x.by = y.by /\ x.token = y.token
      /\ x.state = "refused"
  BY <1>3 DEF Call
<1>5. /\ y.state = "sent" /\ Here /\ UNCHANGED page
      /\ calls' = [calls EXCEPT ![c].state = "refused", ![c].who = None]
  BY <1>1 DEF Refuse, Here, jsVars, serverVars
<1>6. calls' = [calls EXCEPT ![c] = x]
  BY <1>1, <1>3, <1>5 DEF IInv, TypeOK
<1>7. CallFits(x)'
  BY <1>1, <1>4, <1>5 DEF CallFits, Here
<1>8. ASSUME ~crossed PROVE CallIsExpected(x)'
  <2>1. ~LoggedIn(calls[c]) /\ \A d \in Slots : d # c => calls'[d] = calls[d]
    BY <1>1, <1>5, <1>6 DEF LoggedIn, IInv, TypeOK
  <2>2. ASSUME NEW u, Expected(u) PROVE Expected(u)'
    BY <1>5, <2>1, <2>2, ExpectedStays DEF Here
  <2>3. PICK u, v : u = tokens[x.token].user /\ v = tokens[cookie].user
    OBVIOUS
  <2>4. tokens'[x.token].user = u /\ tokens'[cookie'].user = v /\ cookie' = cookie
    BY <1>5, <2>3 DEF Here
  <2>5. QED
    BY <1>1, <1>4, <1>5, <1>8, <2>2, <2>3, <2>4 DEF CallIsExpected, Here
<1>9. x.kind = "login" /\ ~crossed => currentUser = None
  BY <1>1, <1>4 DEF CallFits, CallIsExpected
<1>10. ~LoggedIn(calls[c]) /\ ~LoggedIn(x) /\ x # None
  BY <1>1, <1>4, <1>5, CallFields DEF LoggedIn
<1>11. QED
  BY <1>5, <1>6, <1>7, <1>8, <1>9, <1>10, HereFacts, SamePage, SessionStep DEF PagePuts

LEMMA InvAnswerLogin ==
  ASSUME IInv, NEW c \in Slots, AnswerLogin(c) PROVE IInv'
<1>1. PICK y \in Call : calls[c] = y /\ CallFits(y) /\ (~crossed => CallIsExpected(y))
  BY CallFacts DEF AnswerLogin
<1>2. /\ y.state = "sent" /\ y.kind = "login" /\ cookie' = Len(tokens')
      /\ tokens' = Append(tokens, [user |-> y.who, live |-> TRUE])
      /\ calls' = [calls EXCEPT ![c].state = "ok"]
      /\ UNCHANGED <<currentUser, sessionGeneration, page, crossed, tabs>>
  BY <1>1 DEF AnswerLogin, LoginServed, jsVars
<1>3. y.who \in Users
  BY <1>1, <1>2, CallFields DEF CallFits
<1>4. PICK s \in Session : s = [user |-> y.who, live |-> TRUE]
  BY <1>3 DEF Session
<1>5. /\ TokensKept /\ Len(tokens') = Len(tokens) + 1 /\ tokens'[Len(tokens')] = s
      /\ tokens'[cookie'].user = y.who /\ Len(tokens) \in Nat
  BY <1>2, <1>4, AppendKeeps, TokenTypes
<1>6. [y EXCEPT !.state = "ok"] \in Call
  BY DEF Call
<1>7. PICK x \in Call : x = [y EXCEPT !.state = "ok"]
  BY <1>6
<1>8. /\ x.kind = "login" /\ x.gen = y.gen /\ x.by = y.by /\ x.token = y.token
      /\ x.who = y.who /\ x.state = "ok" /\ x # None
  BY <1>2, <1>7, CallFields DEF Call
<1>9. calls' = [calls EXCEPT ![c] = x] /\ calls'[c] = x
  BY <1>1, <1>2, <1>7 DEF IInv, TypeOK
<1>10. CallFits(x)'
  BY <1>1, <1>2, <1>5, <1>8, CallFields DEF CallFits
<1>11. ~crossed => CallIsExpected(x)'
  BY <1>1, <1>2, <1>8 DEF CallIsExpected
<1>12. ~crossed => currentUser = None /\ Expected(tokens[cookie].user)'
  <2>1. ~crossed => currentUser = None /\ x.gen = sessionGeneration
    BY <1>1, <1>2, <1>8 DEF CallFits, CallIsExpected
  <2>2. QED
    BY <1>2, <1>5, <1>8, <1>9, <2>1 DEF Expected, Free, LoggedIn
<1>13. ~LoggedIn(calls[c]) /\ cookie' \in 0 .. Len(tokens')
  BY <1>1, <1>2, <1>5 DEF LoggedIn
<1>14. PagePuts
  BY <1>2, SamePage
<1>15. QED
  BY <1>2, <1>5, <1>8, <1>9, <1>10, <1>11, <1>12, <1>13, <1>14, SessionStep
  DEF PagePuts, TokensKept

LEMMA InvAnswerLogout ==
  ASSUME IInv, NEW c \in Slots, AnswerLogout(c) PROVE IInv'
<1>1. PICK y \in Call : calls[c] = y /\ CallFits(y) /\ (~crossed => CallIsExpected(y))
  BY CallFacts DEF AnswerLogout
<1>2. /\ ~Free(c) /\ calls[c].state = "sent" /\ y.state = "sent" /\ y.kind = "logout"
      /\ cookie' = 0 /\ LogoutServed(c)
      /\ calls' = [calls EXCEPT ![c].state = "ok"]
      /\ UNCHANGED <<currentUser, sessionGeneration, page, crossed, tabs>>
  BY <1>1 DEF AnswerLogout, LogoutServed, jsVars
<1>3. TokensKept /\ PagePuts
  BY <1>2, ServedKeeps, SamePage
<1>4. [y EXCEPT !.state = "ok"] \in Call
  BY DEF Call
<1>5. PICK x \in Call : x = [y EXCEPT !.state = "ok"]
  BY <1>4
<1>6. /\ x.kind = "logout" /\ x.gen = y.gen /\ x.by = y.by /\ x.token = y.token /\ x # None
  BY <1>2, <1>5, CallFields DEF Call
<1>7. calls' = [calls EXCEPT ![c] = x]
  BY <1>1, <1>2, <1>5 DEF IInv, TypeOK
<1>8. CallFits(x)'
  BY <1>1, <1>2, <1>3, <1>6, CallFields, TokenTypes DEF CallFits, TokensKept
<1>9. ASSUME ~crossed PROVE CallIsExpected(x)'
  <2>1. ~LoggedIn(calls[c]) /\ \A d \in Slots : d # c => calls'[d] = calls[d]
    BY <1>1, <1>2, <1>7 DEF LoggedIn, IInv, TypeOK
  <2>2. ASSUME NEW u, Expected(u) PROVE Expected(u)'
    BY <1>2, <2>1, <2>2, ExpectedStays
  <2>3. PICK u : u = tokens[x.token].user
    OBVIOUS
  <2>4. x.token # 0 => tokens'[x.token].user = u
    BY <1>1, <1>3, <1>6, <2>3, CallFields, TokenTypes DEF TokensKept, CallFits
  <2>5. QED
    BY <1>1, <1>2, <1>6, <1>9, <2>2, <2>3, <2>4 DEF CallIsExpected
<1>10. ~LoggedIn(calls[c]) /\ ~LoggedIn(x) /\ x.kind # "login" /\ cookie' \in 0 .. Len(tokens')
  BY <1>1, <1>2, <1>3, <1>6, TokenTypes DEF LoggedIn, TokensKept
<1>11. QED
  BY <1>2, <1>3, <1>7, <1>8, <1>9, <1>10, SessionStep DEF PagePuts, TokensKept

LEMMA InvAnswer ==
  ASSUME IInv, NEW c \in Slots, Answer(c) PROVE IInv'
<1>1. PICK y \in Call : calls[c] = y /\ CallFits(y) /\ (~crossed => CallIsExpected(y))
  BY CallFacts DEF Answer
<1>2. /\ y.state = "sent" /\ y.kind \notin {"login", "logout"} /\ Here /\ UNCHANGED page
      /\ y.token \in DOMAIN tokens
      /\ calls' = [calls EXCEPT ![c].state = "ok", ![c].who = tokens[y.token].user]
  BY <1>1 DEF Answer, RequestServed, Permitted, LiveToken, jsVars, Here
<1>3. PICK w \in Users : w = tokens[y.token].user
  BY <1>2, TokenTypes
<1>4. [y EXCEPT !.state = "ok", !.who = w] \in Call
  BY DEF Call
<1>5. PICK x \in Call : x = [y EXCEPT !.state = "ok", !.who = w]
  BY <1>4
<1>6. /\ x.kind = y.kind /\ x.gen = y.gen /\ x.by = y.by /\ x.token = y.token
      /\ x.who = w /\ w # None /\ x # None /\ x.token # 0
  <2>1. y.token # 0
    BY <1>2, TokenTypes
  <2>2. QED
    BY <1>5, <2>1, CallFields, FrontendAssumption DEF Call
<1>7. calls' = [calls EXCEPT ![c] = x]
  BY <1>1, <1>2, <1>3, <1>5 DEF IInv, TypeOK
<1>8. CallFits(x)'
  BY <1>1, <1>2, <1>6 DEF CallFits, Here
<1>9. ASSUME ~crossed PROVE CallIsExpected(x)'
  <2>1. ~LoggedIn(calls[c]) /\ \A d \in Slots : d # c => calls'[d] = calls[d]
    BY <1>1, <1>2, <1>7 DEF LoggedIn, IInv, TypeOK
  <2>2. ASSUME NEW u, Expected(u) PROVE Expected(u)'
    BY <1>2, <2>1, <2>2, ExpectedStays DEF Here
  <2>3. PICK v : v = tokens[cookie].user
    OBVIOUS
  <2>4. tokens'[x.token].user = w /\ tokens'[cookie'].user = v /\ cookie' = cookie
    BY <1>2, <1>3, <1>6, <2>3 DEF Here
  <2>5. CallIsExpected(y) /\ tokens[x.token].user = w
    BY <1>1, <1>3, <1>6, <1>9
  <2>6. x.gen = sessionGeneration /\ x.kind \notin {"me", "login"} => Expected(w)'
    BY <1>6, <2>2, <2>5 DEF CallIsExpected
  <2>7. x.gen = sessionGeneration /\ x.kind = "me" /\ cookie # 0 =>
          x.token = cookie \/ Expected(v)'
    BY <1>6, <2>2, <2>3, <2>5 DEF CallIsExpected
  <2>8. QED
    BY <1>2, <1>6, <2>4, <2>6, <2>7 DEF CallIsExpected, Here
<1>10. ~LoggedIn(calls[c]) /\ ~LoggedIn(x) /\ x.kind # "login"
  BY <1>1, <1>2, <1>6 DEF LoggedIn
<1>11. QED
  BY <1>2, <1>7, <1>8, <1>9, <1>10, HereFacts, SamePage, SessionStep DEF PagePuts

\* What another tab does counts as crossed; of the tab itself nothing changes.
LEMMA InvOtherTab ==
  ASSUME IInv, OtherTab PROVE IInv'
<1>1. /\ tabs < MaxTabs /\ tabs' = tabs + 1 /\ crossed' = TRUE
      /\ UNCHANGED <<currentUser, sessionGeneration, page, calls>>
      /\ \/ /\ \E u \in Users : tokens' = Append(tokens, [user |-> u, live |-> TRUE])
            /\ cookie' = Len(tokens')
         \/ /\ cookie # 0
            /\ tokens' = [tokens EXCEPT ![cookie].live = FALSE]
            /\ cookie' = 0
  BY DEF OtherTab, jsVars
<1>2. TokensKept /\ cookie' \in 0 .. Len(tokens')
  <2>1. CASE /\ \E u \in Users : tokens' = Append(tokens, [user |-> u, live |-> TRUE])
             /\ cookie' = Len(tokens')
    <3>1. PICK u \in Users : tokens' = Append(tokens, [user |-> u, live |-> TRUE])
      BY <2>1
    <3>2. PICK s \in Session : s = [user |-> u, live |-> TRUE]
      BY DEF Session
    <3>3. TokensKept /\ Len(tokens') = Len(tokens) + 1
      BY <3>1, <3>2, AppendKeeps
    <3>4. Len(tokens') \in Nat
      BY <3>3, TokenTypes
    <3>5. QED
      BY <2>1, <3>3, <3>4
  <2>2. CASE cookie # 0 /\ tokens' = [tokens EXCEPT ![cookie].live = FALSE] /\ cookie' = 0
    <3>1. PICK f : f = [t \in 1 .. Len(tokens) |->
                          IF t = cookie THEN [tokens[t] EXCEPT !.live = FALSE] ELSE tokens[t]]
      OBVIOUS
    <3>2. f \in [1 .. Len(tokens) -> Session]
          /\ \A t \in 1 .. Len(tokens) : f[t].user = tokens[t].user
      BY <3>1, TokenTypes DEF Session
    <3>3. tokens' = f
      BY <2>2, <3>1, TokenTypes
    <3>4. TokensKept /\ Len(tokens') = Len(tokens)
      BY <3>2, <3>3, UpdateKeeps
    <3>5. QED
      BY <2>2, <3>4, TokenTypes
  <2>3. QED
    BY <1>1, <2>1, <2>2
<1>3. TypeOK'
  BY <1>1, <1>2, FrontendAssumption DEF IInv, TypeOK, TokensKept, Session
<1>4. ASSUME NEW d \in Slots, ~Free(d)' PROVE CallFits(calls[d])'
  <2>1. PICK y \in Call : calls[d] = y /\ CallFits(y)
    BY <1>1, <1>4, CallFacts DEF Free
  <2>2. y.token <= Len(tokens')
    BY <1>2, <2>1, CallFields, TokenTypes DEF CallFits, TokensKept
  <2>3. QED
    BY <1>1, <2>1, <2>2 DEF CallFits
<1>5. PageOfThisGeneration'
  BY <1>1 DEF IInv, PageOfThisGeneration, NothingOfEarlierSessions, Holds
<1>6. UncrossedIsExpected'
  BY <1>1 DEF UncrossedIsExpected
<1>7. QED
  BY <1>1, <1>3, <1>4, <1>5, <1>6 DEF IInv

-----------------------------------------------------------------------------
(* A session of the page begins or ends.                                   *)

LEMMA InvResumeEnter ==
  ASSUME IInv, NEW c \in Slots, ResumeEnter(c) PROVE IInv'
<1>1. PICK y \in Call : calls[c] = y /\ CallFits(y) /\ (~crossed => CallIsExpected(y))
  BY CallFacts DEF ResumeEnter, Answered
<1>2. /\ ~Free(c) /\ y.kind \in {"me", "login"} /\ UNCHANGED <<page, tokens, cookie, tabs>>
  BY <1>1 DEF ResumeEnter, Answered, serverVars
<1>3. CASE ~Ok(c)
  <2>1. Done(c) /\ Here
    BY <1>2, <1>3 DEF ResumeEnter, Here
  <2>2. QED
    BY <1>2, <1>3, <2>1, SamePage, DoneStep
<1>4. CASE Ok(c)
  <2>1. /\ y.state = "ok" /\ y.gen = sessionGeneration /\ y.who \in Users /\ y.who # None
        /\ currentUser = None /\ currentUser' = y.who
        /\ sessionGeneration' = sessionGeneration + 1
        /\ calls' = [calls EXCEPT ![c] = NewCall("docs", sessionGeneration + 1, y.who, None)]
        /\ crossed' = (crossed \/ LoginInFlight(Slots \ {c}))
    BY <1>1, <1>2, <1>4, CallFields DEF ResumeEnter, Ok, GoOn, CallFits
  <2>2. "docs" \in Kinds /\ sessionGeneration \in Nat /\ sessionGeneration + 1 \in Nat
    BY Places DEF IInv, TypeOK
  <2>3. PICK x \in Call :
          /\ x = NewCall("docs", sessionGeneration + 1, y.who, None)
          /\ x.kind = "docs" /\ x.gen = sessionGeneration + 1 /\ x.by = y.who
          /\ x.token = cookie /\ x.state = "sent"
    <3>1. TypeOK
      BY DEF IInv
    <3>2. QED
      BY <2>1, <2>2, <3>1, NewCallFacts
  <2>4. /\ calls' \in [Slots -> Call \cup {None}] /\ calls'[c] = x
        /\ \A d \in Slots : d # c => calls'[d] = calls[d]
    BY <2>1, <2>3 DEF IInv, TypeOK
  <2>5. TypeOK'
    BY <1>2, <2>1, <2>2, <2>4 DEF IInv, TypeOK
  <2>6. cookie \in Nat /\ cookie <= Len(tokens)
    BY TokenTypes
  <2>7. ASSUME NEW d \in Slots, ~Free(d)', d # c
        PROVE  \E z \in Call : /\ calls'[d] = z /\ calls[d] = z /\ CallFits(z)
                               /\ z.gen # sessionGeneration' /\ ~Free(d)
    <3>1. PICK z \in Call : calls[d] = z /\ CallFits(z) /\ ~Free(d)
      BY <2>4, <2>7, CallFacts DEF Free
    <3>2. z.gen # sessionGeneration'
      BY <2>1, <2>2, <3>1, CallFields DEF CallFits
    <3>3. QED
      BY <2>4, <2>7, <3>1, <3>2
  <2>8. ASSUME NEW d \in Slots, ~Free(d)' PROVE CallFits(calls[d])'
    <3>1. CASE d = c
      BY <1>2, <2>1, <2>2, <2>3, <2>4, <2>6, <3>1 DEF CallFits
    <3>2. CASE d # c
      <4>1. PICK z \in Call : /\ calls'[d] = z /\ calls[d] = z /\ CallFits(z)
                              /\ z.gen # sessionGeneration'
        BY <2>7, <2>8, <3>2
      <4>2. z.gen <= sessionGeneration'
        BY <2>1, <2>2, <4>1, CallFields DEF CallFits
      <4>3. QED
        BY <1>2, <2>1, <2>2, <4>1, <4>2 DEF CallFits
    <3>3. QED
      BY <3>1, <3>2
  <2>9. PageOfThisGeneration'
    <3>1. ASSUME NEW e \in Elements, Holds(e)'
          PROVE  page'[e].gen = sessionGeneration /\ page'[e].by = None
      BY <1>2, <2>1, <3>1 DEF IInv, PageOfThisGeneration, NothingOfEarlierSessions, Holds
    <3>2. QED
      BY <2>1, <2>2, <3>1 DEF PageOfThisGeneration, NothingOfEarlierSessions
  <2>10. ASSUME ~crossed'
         PROVE  /\ ~LoginInFlight(Slots)' /\ CookieIsExpected'
                /\ \A d \in Slots : ~Free(d)' => CallIsExpected(calls[d])'
                /\ \A e \in Elements : Holds(e)' => Expected(page[e].of)'
    <3>1. ~crossed /\ \A d \in Slots : d # c /\ ~Free(d) => calls[d].kind # "login"
      BY <2>1, <2>10 DEF LoginInFlight
    <3>2. ASSUME NEW u, Expected(u) PROVE u = y.who
      BY <1>1, <2>1, <3>1, <3>2 DEF Expected, LoggedIn
    <3>3. \A d \in Slots : ~Free(d)' => calls'[d].kind # "login"
      BY <2>3, <2>4, <3>1 DEF Free
    <3>4. \A u : u = y.who => Expected(u)'
      BY <2>1 DEF Expected
    <3>5. cookie # 0 => tokens[cookie].user = y.who
      <4>1. CASE y.kind = "login"
        <5>1. LoggedIn(calls[c]) /\ CookieIsExpected
          BY <1>1, <2>1, <3>1, <4>1 DEF LoggedIn, IInv, UncrossedIsExpected
        <5>2. QED
          BY <1>2, <3>2, <5>1 DEF CookieIsExpected
      <4>2. CASE y.kind = "me"
        BY <1>1, <2>1, <3>1, <3>2, <4>2 DEF CallIsExpected
      <4>3. QED
        BY <1>2, <4>1, <4>2
    <3>6. tokens'[cookie'].user = tokens[cookie].user /\ cookie' = cookie
      BY <1>2
    <3>7. cookie' # 0 => Expected(tokens[cookie].user)'
      BY <3>4, <3>5, <3>6
    <3>8. CookieIsExpected'
      BY <3>7 DEF CookieIsExpected
    <3>9. ASSUME NEW d \in Slots, ~Free(d)' PROVE CallIsExpected(calls[d])'
      <4>1. CASE d = c
        BY <2>3, <2>4, <3>6, <3>7, <4>1 DEF CallIsExpected
      <4>2. CASE d # c
        BY <2>7, <3>3, <3>9, <4>2 DEF CallIsExpected
      <4>3. QED
        BY <4>1, <4>2
    <3>10. ASSUME NEW e \in Elements, Holds(e)' PROVE Expected(page[e].of)'
      <4>1. PICK u : u = page[e].of
        OBVIOUS
      <4>2. Expected(u)
        BY <1>2, <3>1, <3>10, <4>1 DEF IInv, UncrossedIsExpected, Holds
      <4>3. page'[e].of = u /\ u = y.who
        BY <1>2, <3>2, <4>1, <4>2
      <4>4. QED
        BY <3>4, <4>3
    <3>11. QED
      BY <3>3, <3>8, <3>9, <3>10 DEF LoginInFlight
  <2>11. UncrossedIsExpected'
    BY <2>10 DEF UncrossedIsExpected
  <2>12. sessionGeneration' # 0
    BY <2>1, <2>2
  <2>13. QED
    BY <2>5, <2>8, <2>9, <2>11, <2>12 DEF IInv
<1>5. QED
  BY <1>3, <1>4

LEMMA InvResumeLogout ==
  ASSUME IInv, NEW c \in Slots, ResumeLogout(c) PROVE IInv'
<1>1. PICK y \in Call : calls[c] = y /\ CallFits(y) /\ (~crossed => CallIsExpected(y))
  BY CallFacts DEF ResumeLogout, Answered
<1>2. ~Free(c) /\ y.kind = "logout" /\ Done(c) /\ UNCHANGED <<tokens, cookie, tabs>>
  BY <1>1 DEF ResumeLogout, Answered, serverVars
<1>3. CASE ~Ok(c)
  <2>1. Here /\ UNCHANGED page
    BY <1>2, <1>3 DEF ResumeLogout, Here, jsVars
  <2>2. QED
    BY <1>2, <1>3, <2>1, SamePage, DoneStep
<1>4. CASE Ok(c)
  <2>1. /\ y.state = "ok" /\ y.gen = sessionGeneration
        /\ currentUser' = None /\ sessionGeneration' = sessionGeneration + 1
        /\ page' = [e \in Elements |-> None]
        /\ crossed' = (crossed \/ LoginInFlight(Slots))
    BY <1>1, <1>4 DEF ResumeLogout, Ok
  <2>2. sessionGeneration \in Nat /\ sessionGeneration' # 0
    BY <2>1 DEF IInv, TypeOK
  <2>3. /\ calls' \in [Slots -> Call \cup {None}] /\ calls'[c] = None
        /\ \A d \in Slots : d # c => calls'[d] = calls[d]
    BY <1>2 DEF Done, IInv, TypeOK
  <2>4. TypeOK'
    BY <1>2, <2>1, <2>2, <2>3 DEF IInv, TypeOK
  <2>5. ASSUME NEW d \in Slots, ~Free(d)'
        PROVE  \E z \in Call : /\ calls'[d] = z /\ calls[d] = z /\ CallFits(z) /\ ~Free(d)
                               /\ z.gen # sessionGeneration' /\ z.gen <= sessionGeneration'
    <3>1. PICK z \in Call : calls[d] = z /\ calls'[d] = z /\ CallFits(z) /\ ~Free(d)
      BY <2>3, <2>5, CallFacts DEF Free
    <3>2. QED
      BY <2>1, <2>2, <3>1, CallFields DEF CallFits
  <2>6. \A d \in Slots : ~Free(d)' => CallFits(calls[d])'
    BY <1>2, <2>2, <2>5 DEF CallFits
  <2>7. \A e \in Elements : ~Holds(e)'
    BY <2>1 DEF Holds
  <2>8. PageOfThisGeneration'
    BY <2>7 DEF PageOfThisGeneration, NothingOfEarlierSessions
  <2>9. ASSUME ~crossed'
        PROVE  /\ cookie' = 0
               /\ \A d \in Slots : ~Free(d)' => CallIsExpected(calls[d])'
    <3>1. ~crossed /\ \A d \in Slots : ~Free(d) => calls[d].kind # "login"
      BY <2>1, <2>9 DEF LoginInFlight
    <3>2. cookie' = 0
      BY <1>1, <1>2, <2>1, <3>1 DEF CallIsExpected
    <3>3. QED
      BY <2>5, <3>1, <3>2 DEF CallIsExpected
  <2>10. UncrossedIsExpected'
    BY <2>1, <2>7, <2>9 DEF UncrossedIsExpected, CookieIsExpected
  <2>11. QED
    BY <2>2, <2>4, <2>6, <2>8, <2>10 DEF IInv
<1>5. QED
  BY <1>3, <1>4

LEMMA InvStutter ==
  ASSUME IInv, UNCHANGED vars PROVE IInv'
<1>1. UNCHANGED <<tokens, cookie, calls, currentUser, sessionGeneration, page, crossed, tabs>>
  BY DEF vars
<1>2. TypeOK'
  BY <1>1 DEF IInv, TypeOK
<1>3. \A c \in Slots : ~Free(c)' => CallFits(calls[c])'
  BY <1>1 DEF IInv, Free, CallFits
<1>4. PageOfThisGeneration'
  BY <1>1 DEF IInv, PageOfThisGeneration, NothingOfEarlierSessions, Holds
<1>5. UncrossedIsExpected'
  BY <1>1 DEF IInv, UncrossedIsExpected, LoginInFlight, Free, CookieIsExpected, CallIsExpected,
     Expected, LoggedIn, Holds
<1>6. QED
  BY <1>1, <1>2, <1>3, <1>4, <1>5 DEF IInv

LEMMA InitInv == Init => IInv
<1> SUFFICES ASSUME Init PROVE IInv
  OBVIOUS
<1>1. /\ tokens \in Seq(Session) /\ cookie \in 0 .. Len(tokens)
  <2>1. CASE tokens = <<>> /\ cookie = 0
    BY <2>1
  <2>2. ASSUME NEW s \in Users, tokens = <<[user |-> s, live |-> TRUE]>>, cookie = 1
        PROVE  tokens \in Seq(Session) /\ cookie \in 0 .. Len(tokens)
    <3>1. PICK t \in Session : t = [user |-> s, live |-> TRUE]
      BY DEF Session
    <3>2. QED
      BY <2>2, <3>1
  <2>3. QED
    BY <2>1, <2>2 DEF Init
<1>2. "me" \in Kinds /\ cookie \in Nat
  BY <1>1, Places
<1>3. NewCall("me", 0, None, None) \in Call
  BY <1>2 DEF NewCall, Call
<1>4. PICK x \in Call : x = NewCall("me", 0, None, None)
  BY <1>3
<1>5. /\ x.kind = "me" /\ x.gen = 0 /\ x.by = None /\ x.token = cookie /\ x.state = "sent"
  BY <1>4 DEF NewCall
<1>6. /\ calls \in [Slots -> Call \cup {None}]
      /\ \A c \in Slots : calls[c] = None \/ calls[c] = x
  BY <1>4 DEF Init
<1>7. /\ currentUser = None /\ sessionGeneration = 0 /\ page = [e \in Elements |-> None]
      /\ crossed = FALSE /\ tabs = 0
  BY DEF Init
<1>8. TypeOK
  <2>1. page \in [Elements -> Content \cup {None}]
    BY <1>7
  <2>2. tabs \in 0 .. MaxTabs /\ sessionGeneration \in Nat /\ currentUser \in Users \cup {None}
    BY <1>7, FrontendAssumption
  <2>3. crossed \in BOOLEAN
    BY <1>7
  <2>4. QED
    BY <1>1, <1>6, <2>1, <2>2, <2>3 DEF TypeOK, Session
<1>9. cookie <= Len(tokens)
  BY <1>1
<1>10. \A c \in Slots : ~Free(c) => CallFits(calls[c])
  BY <1>5, <1>6, <1>7, <1>9 DEF Free, CallFits
<1>11. PageOfThisGeneration
  BY <1>7 DEF PageOfThisGeneration, NothingOfEarlierSessions, Holds
<1>12. \A c \in Slots : ~Free(c) => calls[c] = x
  BY <1>6 DEF Free
<1>13. UncrossedIsExpected
  BY <1>5, <1>7, <1>12 DEF UncrossedIsExpected, CookieIsExpected, CallIsExpected, Holds, LoggedIn
<1>14. QED
  BY <1>7, <1>8, <1>10, <1>11, <1>13 DEF IInv

LEMMA NextInv == IInv /\ [Next]_vars => IInv'
<1> SUFFICES ASSUME IInv, [Next]_vars PROVE IInv'
  OBVIOUS
<1>1. ASSUME NEW c \in Slots,
             \/ \E u \in Users : LoginClick(c, u)
             \/ \E b \in Clicks : Click(c, b)
             \/ LogoutClick(c)
      PROVE  IInv'
  BY <1>1, InvLoginClick, InvClick, InvLogoutClick
<1>2. ASSUME NEW c \in Slots,
             AnswerLogin(c) \/ AnswerLogout(c) \/ Answer(c) \/ Refuse(c) \/ Lose(c)
      PROVE  IInv'
  BY <1>2, InvAnswerLogin, InvAnswerLogout, InvAnswer, InvRefuse, InvLose
<1>3. ASSUME NEW c \in Slots,
             \/ ResumeEnter(c) \/ ResumeLogout(c) \/ ResumeLoad(c) \/ ResumeDetail(c)
             \/ ResumeComments(c) \/ ResumeUsers(c) \/ ResumeSave(c) \/ ResumeComment(c)
      PROVE  IInv'
  BY <1>3, InvResumeEnter, InvResumeLogout, InvResumeLoad, InvResumeDetail, InvResumeComments,
     InvResumeUsers, InvResumeSave, InvResumeComment
<1>4. QED
  BY <1>1, <1>2, <1>3, InvOtherTab, InvStutter DEF Next

\* The inductive invariant of calls in flight, the page and the cookie.
THEOREM Invariance == Spec => []IInv
<1>1. QED
  BY InitInv, NextInv, PTL DEF Spec

\* The sessions, the calls and the page keep their types.
THEOREM TypeCorrect == Spec => []TypeOK
<1>1. IInv => TypeOK
  BY DEF IInv
<1>2. QED
  BY <1>1, Invariance, PTL

\* However late answers come, nothing one session of the page asked for shows
\* in another.
THEOREM EarlierSessionsStayHidden == Spec => []NothingOfEarlierSessions
<1>1. IInv => NothingOfEarlierSessions
  BY DEF IInv, PageOfThisGeneration
<1>2. QED
  BY <1>1, Invariance, PTL

\* What shows is of the user on the page, unless the cookie was crossed.
THEOREM PageIsOfItsUser == Spec => []PageIsCurrentUsers
<1>1. IInv => PageIsCurrentUsers
  BY DEF IInv, UncrossedIsExpected, Expected, PageIsCurrentUsers
<1>2. QED
  BY <1>1, Invariance, PTL

\* After a logout no cookie is left, unless a login is under way or the cookie
\* was crossed.
THEOREM LogoutIsComplete == Spec => []LogoutLeavesNoCookie
<1>1. IInv => LogoutLeavesNoCookie
  BY DEF IInv, UncrossedIsExpected, CookieIsExpected, Expected, LoggedIn, LoginInFlight,
     LogoutLeavesNoCookie
<1>2. QED
  BY <1>1, Invariance, PTL
=============================================================================
