------------------------- MODULE TokenRefresh_proofs -------------------------
(***************************************************************************)
(* Proofs about TokenRefresh for any fetches, any number of retries and    *)
(* any number of disturbances.                                             *)
(***************************************************************************)
EXTENDS TokenRefresh, TLAPS, SequenceTheorems

(***************************************************************************)
(* The inductive invariant.                                                *)
(***************************************************************************)

(* The server has taken a token it has answered with a new one.            *)
Taken == \A p \in posts : p.answer = "new" => p.token.renewals < current[p.token.grant]

(* On the way to a sign-in, and showing one.                               *)
Asking(f)  == f.pc = "checked" \/ (f.pc \in {"looks", "waits", "got"} /\ f.kind = "check")
Showing(f) == f.pc \in {"shown", "code"}
Asks(f)    == Asking(f) \/ Showing(f)

(* One fetch at a time is on the way to a sign-in, and only while the      *)
(* prompt is marked; until it is shown it is not counted.                  *)
Prompting ==
  /\ prompts <= failures + 1
  /\ prompted = "no" => prompts <= failures
  /\ \A c \in Fetches : /\ Asks(fetch[c]) => prompted = "yes"
                        /\ Asking(fetch[c]) => prompts <= failures
  /\ \A c, d \in Fetches : Asks(fetch[c]) /\ Asks(fetch[d]) => c = d

(* The exchange under way is one of the stored token, and the server has   *)
(* taken that token when it has answered with a new one, and only then.    *)
Holds ==
  signedIn = "yes" /\ crossed = "no" =>
    /\ keychain # NoToken
    /\ posts = {} => Accepts(keychain)
    /\ \A p \in posts :
         /\ p.token = keychain /\ p.answer # "refused"
         /\ p.answer = "new" => current[keychain.grant] = keychain.renewals + 1
         /\ p.answer # "new" => Accepts(keychain)

(* Nothing is under way that could bring a token back.                     *)
SignedOut ==
  signedIn = "no" /\ crossed = "no" =>
    /\ keychain = NoToken /\ cache = None /\ posts = {}
    /\ \A c \in Fetches : /\ fetch[c].pc \in {"off", "looks", "got", "ask", "checked", "shown", "code"}
                          /\ fetch[c].token = None

(***************************************************************************)
(* Lemmas about the operators.                                             *)
(***************************************************************************)

LEMMA HappensType ==
  ASSUME TypeOK, Happens
  PROVE  count' \in 0..Limit
BY BoundsAssumption DEF TypeOK, Happens

LEMMA NoTokenIs ==
  /\ NoToken \in Tokens /\ NoToken.grant = 0
  /\ TypeOK => \A t : IsToken(t) => t # NoToken
<1>1. NoToken \in Tokens /\ NoToken.grant = 0
  BY DEF NoToken, Tokens
<1>2. ASSUME TypeOK, NEW t, IsToken(t) PROVE t # NoToken
  <2>1. 0 \notin DOMAIN current
    BY LenProperties DEF TypeOK
  <2> QED BY <1>1, <1>2, <2>1 DEF IsToken
<1> QED BY <1>1, <1>2

LEMMA RenewedIs ==
  ASSUME NEW t \in Tokens
  PROVE  Renewed(t) \in Tokens /\ Renewed(t).grant = t.grant /\ Renewed(t).renewals = t.renewals + 1
BY DEF Renewed, Tokens

(* There is one exchange at most. *)
LEMMA OnePost ==
  ASSUME TypeOK, NEW p \in posts
  PROVE  /\ posts = {p} /\ posts \ {p} = {} /\ \A q : (posts \ {p}) \union {q} = {q}
         /\ p \in Posts /\ p.token \in Tokens /\ IsToken(p.token)
<1>1. posts = {p}
  BY DEF TypeOK
<1>2. p \in Posts /\ IsToken(p.token)
  BY DEF TypeOK
<1>3. p.token \in Tokens
  BY <1>2 DEF Posts
<1> QED BY <1>1, <1>2, <1>3

(* What becomes of a fetch. *)
Puts(c, r) == /\ fetch' \in [Fetches -> Jobs] /\ fetch'[c] = r /\ r \in Jobs
              /\ \A d \in Fetches \ {c} : fetch'[d] = fetch[d]

LEMMA PutIs ==
  ASSUME TypeOK, NEW c \in Fetches, NEW r \in Jobs, fetch' = [fetch EXCEPT ![c] = r]
  PROVE  Puts(c, r)
BY DEF TypeOK, Puts

LEMMA OffIs == Off \in Jobs /\ Off.pc = "off" /\ Off.token = None
  BY BoundsAssumption DEF Off, Jobs, Pcs, YesNo, Access

(* A fetch moves on, and nothing else of it changes. *)
Moves(c, p) == \E r : /\ Puts(c, r) /\ r.pc = p /\ r.kind = fetch[c].kind
                      /\ r.token = fetch[c].token

LEMMA MoveIs ==
  ASSUME TypeOK, NEW c \in Fetches, NEW p \in Pcs, fetch' = [fetch EXCEPT ![c].pc = p]
  PROVE  Moves(c, p)
<1> DEFINE o == fetch[c]
           r == [o EXCEPT !.pc = p]
<1>1. o \in Jobs /\ fetch' = [fetch EXCEPT ![c] = r]
  BY DEF TypeOK
<1> HIDE DEF o
<1>2. r \in Jobs /\ r.pc = p /\ r.kind = o.kind /\ r.token = o.token
  BY <1>1 DEF Jobs
<1> HIDE DEF r
<1>3. Puts(c, r)
  BY <1>1, <1>2, PutIs
<1> QED BY <1>2, <1>3 DEF Moves, o

(* What a look for a token comes to. *)
Sought(c, kind) ==
  \E r : /\ Puts(c, r) /\ r.kind = kind
         /\ \/ /\ r.pc = "got" /\ (r.token = None \/ (cache = "fresh" /\ r.token = "fresh"))
               /\ UNCHANGED <<waiting, posts>>
            \/ /\ r.pc = "looks" /\ r.token = fetch[c].token
               /\ UNCHANGED <<waiting, posts>>
            \/ /\ r.pc = "waits" /\ r.token = fetch[c].token /\ keychain # NoToken
               /\ Refresh(c)

LEMMA FindsIs ==
  ASSUME TypeOK, NEW c \in Fetches, NEW kind \in {"poll", "again", "check"},
         NEW found \in BOOLEAN, Finds(c, kind, found)
  PROVE  Sought(c, kind)
<1> DEFINE o == fetch[c]
           r == [o EXCEPT !.pc = "got", !.kind = kind, !.token = None]
           s == [o EXCEPT !.pc = "waits", !.kind = kind]
<1>1. o \in Jobs /\ None \in Access
  BY DEF TypeOK, Access
<1>2. \/ fetch' = [fetch EXCEPT ![c] = r] /\ UNCHANGED <<waiting, posts>>
      \/ /\ keychain # NoToken
         /\ fetch' = [fetch EXCEPT ![c] = s] /\ Refresh(c)
  BY DEF Finds
<1> HIDE DEF o
<1>3. /\ r \in Jobs /\ r.pc = "got" /\ r.kind = kind /\ r.token = None
      /\ s \in Jobs /\ s.pc = "waits" /\ s.kind = kind /\ s.token = o.token
  BY <1>1 DEF Jobs, Pcs
<1> HIDE DEF r, s
<1>4. CASE fetch' = [fetch EXCEPT ![c] = r] /\ UNCHANGED <<waiting, posts>>
  <2>1. Puts(c, r)
    BY <1>3, <1>4, PutIs
  <2> QED BY <1>3, <1>4, <2>1 DEF Sought
<1>5. CASE fetch' = [fetch EXCEPT ![c] = s] /\ keychain # NoToken /\ Refresh(c)
  <2>1. Puts(c, s)
    BY <1>3, <1>5, PutIs
  <2> QED BY <1>3, <1>5, <2>1 DEF Sought, o
<1> QED BY <1>2, <1>4, <1>5

LEMMA ObtainIs ==
  ASSUME TypeOK, NEW c \in Fetches, NEW kind \in {"poll", "again", "check"}, Obtain(c, kind)
  PROVE  Sought(c, kind)
<1> DEFINE o == fetch[c]
           r == [o EXCEPT !.pc = "got", !.kind = kind, !.token = "fresh"]
           s == [o EXCEPT !.pc = "looks", !.kind = kind]
<1>1. o \in Jobs /\ "fresh" \in Access
  BY DEF TypeOK, Access
<1>2. \/ cache = "fresh" /\ fetch' = [fetch EXCEPT ![c] = r] /\ UNCHANGED <<waiting, posts>>
      \/ fetch' = [fetch EXCEPT ![c] = s] /\ UNCHANGED <<waiting, posts>>
      \/ Finds(c, kind, TRUE)
  BY DEF Obtain
<1> HIDE DEF o
<1>3. /\ r \in Jobs /\ r.pc = "got" /\ r.kind = kind /\ r.token = "fresh"
      /\ s \in Jobs /\ s.pc = "looks" /\ s.kind = kind /\ s.token = o.token
  BY <1>1 DEF Jobs, Pcs
<1> HIDE DEF r, s
<1>4. CASE cache = "fresh" /\ fetch' = [fetch EXCEPT ![c] = r] /\ UNCHANGED <<waiting, posts>>
  <2>1. Puts(c, r)
    BY <1>3, <1>4, PutIs
  <2> QED BY <1>3, <1>4, <2>1 DEF Sought
<1>5. CASE fetch' = [fetch EXCEPT ![c] = s] /\ UNCHANGED <<waiting, posts>>
  <2>1. Puts(c, s)
    BY <1>3, <1>5, PutIs
  <2> QED BY <1>3, <1>5, <2>1 DEF Sought, o
<1> QED BY <1>2, <1>4, <1>5, FindsIs

LEMMA LooksIs ==
  ASSUME TypeOK, NEW c \in Fetches, Looks(c)
  PROVE  fetch[c].kind \in {"poll", "again", "check"} /\ Sought(c, fetch[c].kind)
<1>1. fetch[c].kind \in {"poll", "again", "check"}
  BY DEF TypeOK, Jobs
<1> QED BY <1>1, FindsIs DEF Looks

-----------------------------------------------------------------------------
(* Type correctness. *)

LEMMA InitType == Init => TypeOK
<1> SUFFICES ASSUME Init PROVE TypeOK
  OBVIOUS
<1>1. current \in Seq(Nat) /\ (current = <<0>> => 1 \in DOMAIN current /\ current[1] = 0)
  <2>1. <<0>> \in Seq(Nat) /\ DOMAIN <<0>> = {1} /\ <<0>>[1] = 0
    BY Z3
  <2> QED BY <2>1, EmptySeq DEF Init
<1>2. /\ keychain \in Tokens /\ (keychain # NoToken => IsToken(keychain))
      /\ web = NoToken /\ web \in Tokens
  BY <1>1 DEF Init, NoToken, Tokens, IsToken
<1>3. fetch \in [Fetches -> Jobs] /\ \A c \in Fetches : fetch[c].pc = "off"
  BY OffIs DEF Init
<1>4. count \in 0..Limit
  BY BoundsAssumption DEF Init
<1>5. /\ \A flag \in {active, inFlight, prompted, spent, signedIn, crossed} : flag \in YesNo
      /\ known \in {"always", "yes", "no"}
      /\ posts = {} /\ waiting = {} /\ cache \in Access /\ prompts \in Nat /\ failures \in Nat
  BY DEF Init, YesNo, Access
<1> QED BY <1>1, <1>2, <1>3, <1>4, <1>5 DEF TypeOK

LEMMA InitTaken == Init => Taken
BY DEF Init, Taken

(* The server renews tokens and never takes a renewal back. *)
Grows == /\ current' \in Seq(Nat)
         /\ \A g \in DOMAIN current : g \in DOMAIN current' /\ current[g] <= current'[g]

LEMMA BumpIs ==
  ASSUME TypeOK, NEW g \in DOMAIN current, current' = [current EXCEPT ![g] = @ + 1]
  PROVE  /\ Grows /\ g \in DOMAIN current' /\ current'[g] = current[g] + 1
         /\ \A h \in DOMAIN current : h # g => current'[h] = current[h]
<1>1. current \in Seq(Nat) /\ DOMAIN current = 1..Len(current)
  BY LenProperties DEF TypeOK
<1>2. current' \in Seq(Nat) /\ Len(current') = Len(current)
  BY <1>1, ExceptSeq
<1>3. DOMAIN current' = DOMAIN current /\ \A h \in DOMAIN current : current[h] \in Nat
  BY <1>1, ElementOfSeq
<1> QED BY <1>2, <1>3 DEF Grows

LEMMA AppendIs ==
  ASSUME TypeOK, current' = Append(current, 0)
  PROVE  /\ Grows /\ NextSignIn \in Tokens
         /\ NextSignIn.grant \in DOMAIN current' /\ NextSignIn.renewals = 0
         /\ current'[NextSignIn.grant] = 0
         /\ \A h \in DOMAIN current : current'[h] = current[h]
<1>1. /\ current \in Seq(Nat) /\ DOMAIN current = 1..Len(current) /\ Len(current) \in Nat
      /\ \A h \in DOMAIN current : current[h] \in Nat
  BY LenProperties, ElementOfSeq DEF TypeOK
<1>2. /\ current' \in Seq(Nat) /\ Len(current') = Len(current) + 1
      /\ \A h \in 1..Len(current) : current'[h] = current[h]
      /\ current'[Len(current) + 1] = 0
  BY <1>1, AppendProperties
<1>3. DOMAIN current' = 1..Len(current) + 1
  BY <1>2, LenProperties
<1>4. NextSignIn \in Tokens /\ NextSignIn.grant = Len(current) + 1 /\ NextSignIn.renewals = 0
  BY <1>1 DEF NextSignIn, Tokens
<1> QED BY <1>1, <1>2, <1>3, <1>4 DEF Grows

LEMMA CrashGrows ==
  ASSUME TypeOK, Crash
  PROVE  Grows /\ (posts = {} => current' = current)
<1>1. PICK T \in SUBSET posts :
        current' = [g \in DOMAIN current |->
                      IF \E p \in T : p.token.grant = g THEN current[g] + 1 ELSE current[g]]
  BY DEF Crash
<1>2. /\ current \in Seq(Nat) /\ DOMAIN current = 1..Len(current) /\ Len(current) \in Nat
      /\ \A h \in DOMAIN current : current[h] \in Nat
  BY LenProperties, ElementOfSeq DEF TypeOK
<1>3. current' \in [1..Len(current) -> Nat]
  BY <1>1, <1>2
<1>4. current' \in Seq(Nat)
  BY <1>2, <1>3, SeqDef
<1>5. posts = {} => current' = current
  BY <1>1, <1>2
<1> QED BY <1>1, <1>2, <1>4, <1>5 DEF Grows

LEMMA SameGrows ==
  ASSUME TypeOK, UNCHANGED current
  PROVE  Grows
<1>1. current \in Seq(Nat) /\ \A h \in DOMAIN current : current[h] \in Nat
  BY ElementOfSeq, LenProperties DEF TypeOK
<1> QED BY <1>1 DEF Grows

LEMMA StillToken ==
  ASSUME TypeOK, Grows, NEW t \in Tokens, IsToken(t)
  PROVE  t.grant \in DOMAIN current' /\ t.renewals <= current'[t.grant]
<1>1. t.grant \in DOMAIN current /\ t.renewals \in Nat /\ current[t.grant] \in Nat
  BY ElementOfSeq, LenProperties DEF TypeOK, Tokens, IsToken
<1>2. t.grant \in DOMAIN current' /\ current'[t.grant] \in Nat
  BY <1>1, ElementOfSeq, LenProperties DEF Grows
<1> QED BY <1>1, <1>2 DEF IsToken, Grows

(* The parts of TypeOK. *)
TokensOK == /\ current \in Seq(Nat)
            /\ keychain \in Tokens /\ (keychain # NoToken => IsToken(keychain))
            /\ web \in Tokens /\ (web # NoToken => IsToken(web))
PostsOK  == /\ posts \subseteq Posts /\ \A p \in posts : IsToken(p.token)
            /\ \A p, q \in posts : p = q
            /\ waiting \subseteq Fetches \union {Web} /\ (waiting = {} <=> posts = {})
FetchOK  == fetch \in [Fetches -> Jobs] /\ \A c \in Fetches : fetch[c].pc = "waits" <=> c \in waiting
RestOK   == /\ known \in {"always", "yes", "no"}
            /\ \A flag \in {active, inFlight, prompted, spent, signedIn, crossed} : flag \in YesNo
            /\ cache \in Access /\ count \in 0..Limit
            /\ prompts \in Nat /\ failures \in Nat

LEMMA TypeParts == TypeOK <=> TokensOK /\ PostsOK /\ FetchOK /\ RestOK
BY DEF TypeOK, TokensOK, PostsOK, FetchOK, RestOK

LEMMA TokensKept ==
  ASSUME TypeOK, UNCHANGED <<current, keychain, web>>
  PROVE  TokensOK'
BY DEF TypeOK, TokensOK, IsToken

LEMMA PostsKept ==
  ASSUME TypeOK, UNCHANGED <<current, posts, waiting>>
  PROVE  PostsOK'
BY DEF TypeOK, PostsOK, IsToken

LEMMA FetchKept ==
  ASSUME TypeOK, UNCHANGED waiting, NEW c \in Fetches, NEW r, Puts(c, r),
         r.pc # "waits", fetch[c].pc # "waits"
  PROVE  FetchOK'
BY DEF TypeOK, FetchOK, Puts

LEMMA RefreshType ==
  ASSUME TypeOK, NEW who \in Fetches \union {Web}, Refresh(who), keychain # NoToken,
         UNCHANGED current
  PROVE  /\ PostsOK' /\ waiting' = waiting \union {who}
         /\ \A p \in posts' : p \in posts \/ (posts = {} /\ p.token = keychain /\ p.answer = "none")
         /\ \A p \in posts : p \in posts'
<1> DEFINE p == [by |-> who, token |-> keychain, answer |-> "none"]
<1>1. p \in Posts /\ p.token = keychain /\ p.answer = "none"
  BY DEF TypeOK, Posts
<1>2. waiting' = waiting \union {who} /\ posts' = IF waiting # {} THEN posts ELSE posts \union {p}
  BY DEF Refresh
<1> HIDE DEF p
<1>3. IsToken(keychain)
  BY DEF TypeOK
<1>4. \A t : IsToken(t) => IsToken(t)'
  BY DEF IsToken
<1>5. CASE waiting # {}
  BY <1>2, <1>4, <1>5 DEF TypeOK, PostsOK, IsToken
<1>6. CASE waiting = {}
  <2>1. posts = {} /\ posts' = {p}
    BY <1>2, <1>6 DEF TypeOK
  <2>2. posts' \subseteq Posts /\ \A q \in posts' : IsToken(q.token)'
    BY <1>1, <1>3, <2>1 DEF IsToken
  <2> QED BY <1>1, <1>2, <2>1, <2>2 DEF TypeOK, PostsOK
<1> QED BY <1>5, <1>6

LEMMA SoughtType ==
  ASSUME TypeOK, NEW c \in Fetches, NEW kind, Sought(c, kind),
         fetch[c].pc # "waits", UNCHANGED <<current, keychain>>
  PROVE  PostsOK' /\ FetchOK'
<1>1. PICK r : /\ Puts(c, r) /\ r.kind = kind
               /\ \/ r.pc \in {"got", "looks"} /\ UNCHANGED <<waiting, posts>>
                  \/ r.pc = "waits" /\ keychain # NoToken /\ Refresh(c)
  BY DEF Sought
<1>2. CASE r.pc \in {"got", "looks"} /\ UNCHANGED <<waiting, posts>>
  BY <1>1, <1>2, PostsKept, FetchKept
<1>3. CASE r.pc = "waits" /\ keychain # NoToken /\ Refresh(c)
  <2>1. PostsOK' /\ waiting' = waiting \union {c}
    BY <1>3, RefreshType
  <2>2. FetchOK'
    BY <1>1, <1>3, <2>1 DEF TypeOK, FetchOK, Puts
  <2> QED BY <2>1, <2>2
<1> QED BY <1>1, <1>2, <1>3

(* What each action makes of the fetch it moves. *)
LEMMA GotNothingIs ==
  ASSUME TypeOK, NEW c \in Fetches, GotNothing(c)
  PROVE  \E r : /\ Puts(c, r) /\ r.token = None
                /\ fetch[c].kind = "poll"  => r.pc = "ask"
                /\ fetch[c].kind = "again" => r.pc = "off"
                /\ fetch[c].kind = "check" => r.pc = "checked"
<1>1. fetch[c].kind \in {"poll", "again", "check"} /\ fetch[c].token = None
  BY DEF TypeOK, Jobs, GotNothing
<1>2. CASE fetch[c].kind = "poll"
  <2>1. fetch' = [fetch EXCEPT ![c].pc = "ask"]
    BY <1>2 DEF GotNothing
  <2>2. Moves(c, "ask")
    BY <2>1, MoveIs DEF Pcs
  <2> QED BY <1>1, <1>2, <2>2 DEF Moves
<1>3. CASE fetch[c].kind = "again"
  <2>1. fetch' = [fetch EXCEPT ![c] = Off]
    BY <1>3 DEF GotNothing
  <2> QED BY <1>3, <2>1, PutIs, OffIs
<1>4. CASE fetch[c].kind = "check"
  <2>1. fetch' = [fetch EXCEPT ![c].pc = "checked"]
    BY <1>4 DEF GotNothing
  <2>2. Moves(c, "checked")
    BY <2>1, MoveIs DEF Pcs
  <2> QED BY <1>1, <1>4, <2>2 DEF Moves
<1> QED BY <1>1, <1>2, <1>3, <1>4

LEMMA GotTokenIs ==
  ASSUME TypeOK, NEW c \in Fetches, GotToken(c)
  PROVE  \E r : /\ Puts(c, r) /\ r.token = fetch[c].token /\ r.kind = fetch[c].kind
                /\ r.pc = IF fetch[c].kind = "check" THEN "checked" ELSE "get"
<1> DEFINE o == fetch[c]
           a == IF fetch[c].kind = "poll" THEN "yes" ELSE "no"
           r == [o EXCEPT !.pc = "get", !.tries = 0, !.again = a]
<1>1. o \in Jobs /\ a \in YesNo /\ 0 \in 0..Retries
  BY BoundsAssumption DEF TypeOK, YesNo
<1>2. CASE fetch[c].kind = "check"
  <2>1. fetch' = [fetch EXCEPT ![c].pc = "checked"]
    BY <1>2 DEF GotToken
  <2>2. Moves(c, "checked")
    BY <2>1, MoveIs DEF Pcs
  <2> HIDE DEF o, a, r
  <2> QED BY <1>2, <2>2 DEF Moves
<1>3. CASE fetch[c].kind # "check"
  <2>1. fetch' = [fetch EXCEPT ![c] = r]
    BY <1>3 DEF GotToken
  <2> HIDE DEF o, a
  <2>2. r \in Jobs /\ r.pc = "get" /\ r.token = o.token /\ r.kind = o.kind
    BY <1>1 DEF Jobs, Pcs
  <2> HIDE DEF r
  <2>3. Puts(c, r)
    BY <2>1, <2>2, PutIs
  <2> QED BY <1>3, <2>2, <2>3 DEF o
<1> QED BY <1>2, <1>3

LEMMA GetFailsIs ==
  ASSUME TypeOK, NEW c \in Fetches, GetFails(c)
  PROVE  \E r : Puts(c, r) /\ r.pc \in {"retry", "off"}
<1>1. CASE fetch[c].tries < Retries
  <2> DEFINE o == fetch[c]
             n == fetch[c].tries + 1
             r == [o EXCEPT !.pc = "retry", !.tries = n]
  <2>1. o \in Jobs /\ n \in 0..Retries
    BY <1>1, BoundsAssumption DEF TypeOK, Jobs
  <2>2. fetch' = [fetch EXCEPT ![c] = r]
    BY <1>1 DEF GetFails, TypeOK
  <2> HIDE DEF o, n
  <2>3. r \in Jobs /\ r.pc = "retry"
    BY <2>1 DEF Jobs, Pcs
  <2> HIDE DEF r
  <2> QED BY <2>2, <2>3, PutIs
<1>2. CASE ~ (fetch[c].tries < Retries)
  <2>1. fetch' = [fetch EXCEPT ![c] = Off]
    BY <1>2 DEF GetFails, Ends
  <2> QED BY <2>1, PutIs, OffIs
<1> QED BY <1>1, <1>2

LEMMA ReplyIs ==
  ASSUME TypeOK, NEW p \in posts, Reply(p)
  PROVE  /\ fetch' \in [Fetches -> Jobs] /\ posts' = {} /\ waiting' = {}
         /\ \A c \in Fetches : c \in waiting =>
              /\ fetch[c].pc = "waits" /\ fetch'[c].pc = "got" /\ fetch'[c].kind = fetch[c].kind
              /\ fetch'[c].token = IF p.answer = "new" THEN "fresh" ELSE None
         /\ \A c \in Fetches : c \notin waiting => fetch'[c] = fetch[c]
<1> DEFINE a == IF p.answer = "new" THEN "fresh" ELSE None
           f(c) == [fetch[c] EXCEPT !.pc = "got", !.token = a]
<1>1. fetch' = [c \in Fetches |-> IF c \in waiting THEN f(c) ELSE fetch[c]]
  BY DEF Reply
<1>2. a \in Access /\ \A o \in Jobs : o = o
  BY DEF Access
<1>3. a = IF p.answer = "new" THEN "fresh" ELSE None
  OBVIOUS
<1> HIDE DEF a
<1>4. ASSUME NEW c \in Fetches
      PROVE  f(c) \in Jobs /\ f(c).pc = "got" /\ f(c).kind = fetch[c].kind /\ f(c).token = a
  <2>1. fetch[c] \in Jobs
    BY DEF TypeOK
  <2> QED BY <1>2, <2>1 DEF Jobs, Pcs
<1> HIDE DEF f
<1>5. posts' = {} /\ waiting' = {}
  BY OnePost DEF Reply
<1> QED BY <1>1, <1>3, <1>4, <1>5 DEF TypeOK

LEMMA ExpireIs ==
  ASSUME TypeOK, Expire
  PROVE  /\ fetch' \in [Fetches -> Jobs]
         /\ \A c \in Fetches : fetch'[c].pc = fetch[c].pc /\ fetch'[c].kind = fetch[c].kind
<1> DEFINE f(c) == [fetch[c] EXCEPT !.token = "stale"]
<1>1. fetch' = [c \in Fetches |-> IF fetch[c].token = "fresh" THEN f(c) ELSE fetch[c]]
  BY DEF Expire
<1>2. ASSUME NEW c \in Fetches
      PROVE  f(c) \in Jobs /\ f(c).pc = fetch[c].pc /\ f(c).kind = fetch[c].kind
  <2>1. fetch[c] \in Jobs
    BY DEF TypeOK
  <2> QED BY <2>1 DEF Jobs, Access
<1> HIDE DEF f
<1> QED BY <1>1, <1>2 DEF TypeOK

LEMMA NextGrows ==
  ASSUME TypeOK, [Next]_vars
  PROVE  Grows
<1>1. ASSUME NEW c \in Fetches, Poll(c) \/ Goes(c) \/ Answers(c) \/ UserSigns(c)
                                  \/ UserCancels(c) \/ SignInFails(c)
      PROVE  Grows
  <2>1. UNCHANGED current \/ current' = Append(current, 0)
    BY <1>1 DEF Poll, Goes, Answers, UserSigns, UserCancels, SignInFails, Looks, GotNothing, GotToken,
                Again, Retry, Ask, Checked, SignsIn, Signed, GetSucceeds, GetRefused, GetFails,
                serverVars
  <2> QED BY <2>1, SameGrows, AppendIs
<1>2. ASSUME NEW p \in posts, ServerAnswers(p) PROVE Grows
  <2>1. CASE current' = [current EXCEPT ![p.token.grant] = @ + 1]
    BY <2>1, OnePost, BumpIs DEF IsToken
  <2> QED BY <1>2, <2>1, SameGrows DEF ServerAnswers
<1>3. ASSUME NEW p \in posts, Loses(p) \/ Reply(p) PROVE Grows
  BY <1>3, SameGrows DEF Loses, Reply
<1>4. CASE WebRenews
  <2>1. CASE web # NoToken /\ current' = [current EXCEPT ![web.grant] = @ + 1]
    BY <2>1, BumpIs DEF TypeOK, IsToken
  <2> QED BY <1>4, <2>1, AppendIs DEF WebRenews
<1>5. CASE Crash
  BY <1>5, CrashGrows
<1>6. CASE WebAsks \/ WebStores \/ Clear \/ Expire \/ Switch \/ UNCHANGED vars
  BY <1>6, SameGrows DEF WebAsks, WebStores, Clear, Expire, Switch, vars, serverVars
<1> QED BY <1>1, <1>2, <1>3, <1>4, <1>5, <1>6 DEF Next

(* The tokens the app and the web app hold have been given out. *)
LEMMA NextTokens ==
  ASSUME TypeOK, Taken, [Next]_vars
  PROVE  TokensOK'
<1>1. Grows
  BY NextGrows
<1>2. current' \in Seq(Nat) /\ keychain \in Tokens /\ web \in Tokens
  BY <1>1 DEF Grows, TypeOK
<1>3. \A t \in Tokens : IsToken(t) => t.grant \in DOMAIN current' /\ t.renewals <= current'[t.grant]
  BY <1>1, StillToken
<1>4. ASSUME NEW t \in Tokens, NEW u \in Tokens, keychain' = t, web' = u,
             t # NoToken => t.grant \in DOMAIN current' /\ t.renewals <= current'[t.grant],
             u # NoToken => u.grant \in DOMAIN current' /\ u.renewals <= current'[u.grant]
      PROVE  TokensOK'
  BY <1>2, <1>4 DEF TokensOK, IsToken, NoToken
<1>5. /\ keychain # NoToken => keychain.grant \in DOMAIN current' /\ keychain.renewals <= current'[keychain.grant]
      /\ web # NoToken => web.grant \in DOMAIN current' /\ web.renewals <= current'[web.grant]
  BY <1>2, <1>3 DEF TypeOK
<1>6. CASE UNCHANGED <<keychain, web>>
  BY <1>2, <1>4, <1>5, <1>6
<1>7. CASE keychain' \in {NoToken, web} /\ UNCHANGED web
  BY <1>2, <1>4, <1>5, <1>7, NoTokenIs
<1>8. ASSUME NEW c \in Fetches, SignsIn(c) PROVE TokensOK'
  <2>1. current' = Append(current, 0) /\ keychain' \in {NextSignIn, NoToken} /\ UNCHANGED web
    BY <1>8 DEF SignsIn, Stores
  <2>2. /\ NextSignIn \in Tokens /\ NextSignIn.grant \in DOMAIN current'
        /\ NextSignIn.renewals <= current'[NextSignIn.grant]
    BY <2>1, AppendIs
  <2> QED BY <1>2, <1>4, <1>5, <2>1, <2>2, NoTokenIs
<1>9. CASE WebRenews
  <2>1. CASE web # NoToken /\ current' = [current EXCEPT ![web.grant] = @ + 1]
             /\ Accepts(web) /\ web' = Renewed(web)
    <3>1. Renewed(web) \in Tokens /\ Renewed(web).grant = web.grant /\ Renewed(web).renewals = web.renewals + 1
      BY <1>2, RenewedIs
    <3>2. web.grant \in DOMAIN current' /\ current'[web.grant] = current[web.grant] + 1
      BY <2>1, BumpIs DEF TypeOK, IsToken
    <3>3. web.renewals + 1 <= current'[web.grant]
      BY <1>2, <2>1, <3>2 DEF Accepts, Tokens
    <3> QED BY <1>2, <1>4, <1>5, <1>9, <3>1, <3>2, <3>3, <2>1 DEF WebRenews
  <2>2. CASE current' = Append(current, 0) /\ web' = NextSignIn
    <3>1. /\ NextSignIn \in Tokens /\ NextSignIn.grant \in DOMAIN current'
          /\ NextSignIn.renewals <= current'[NextSignIn.grant]
      BY <2>2, AppendIs
    <3> QED BY <1>2, <1>4, <1>5, <1>9, <2>2, <3>1 DEF WebRenews
  <2> QED BY <1>9, <2>1, <2>2 DEF WebRenews
<1>10. ASSUME NEW p \in posts, Reply(p) PROVE TokensOK'
  <2> DEFINE n == Renewed(p.token)
  <2>1. p.token \in Tokens /\ IsToken(p.token) /\ UNCHANGED current
    BY <1>10, OnePost DEF Reply
  <2>2. n \in Tokens /\ n.grant = p.token.grant /\ n.renewals = p.token.renewals + 1
    BY <2>1, RenewedIs
  <2>3. p.answer = "new" => n.grant \in DOMAIN current' /\ n.renewals <= current'[n.grant]
    <3>1. p.answer = "new" => p.token.renewals < current[p.token.grant]
      BY DEF Taken
    <3>2. current[p.token.grant] \in Nat /\ p.token.renewals \in Nat /\ p.token.grant \in DOMAIN current
      BY <2>1, ElementOfSeq, LenProperties DEF TypeOK, Tokens, IsToken
    <3> QED BY <2>1, <2>2, <3>1, <3>2
  <2>4. /\ keychain' \in {keychain, NoToken} \/ (p.answer = "new" /\ keychain' = n)
        /\ web' = web \/ (p.answer = "new" /\ web' = n)
    BY <1>10 DEF Reply, Stores
  <2> HIDE DEF n
  <2> QED BY <1>2, <1>4, <1>5, <2>2, <2>3, <2>4, NoTokenIs
<1>11. CASE Crash
  BY <1>6, <1>7, <1>11 DEF Crash
<1>12. CASE WebStores \/ Clear
  BY <1>6, <1>7, <1>12 DEF WebStores, Clear, ClearsTokens
<1>13. ASSUME NEW p \in posts, ServerAnswers(p) \/ Loses(p) PROVE TokensOK'
  BY <1>6, <1>13 DEF ServerAnswers, Loses
<1>14. ASSUME NEW c \in Fetches, ~ SignsIn(c),
              Poll(c) \/ Goes(c) \/ Answers(c) \/ UserSigns(c) \/ UserCancels(c) \/ SignInFails(c)
       PROVE  TokensOK'
  BY <1>6, <1>14 DEF Poll, Goes, Answers, UserSigns, UserCancels, SignInFails, Looks, GotNothing, GotToken,
                Again, Retry, Ask, Checked, Signed, GetSucceeds, GetRefused, GetFails
<1>15. CASE WebAsks \/ Expire \/ Switch \/ UNCHANGED vars
  BY <1>6, <1>15 DEF WebAsks, Expire, Switch, vars
<1> QED BY <1>8, <1>9, <1>10, <1>11, <1>12, <1>13, <1>14, <1>15 DEF Next

(* An answer is the answer to the one exchange there is. *)
Answered(p, a) == \E q \in Posts : /\ posts' = {q} /\ q.by = p.by /\ q.token = p.token /\ q.answer = a

LEMMA AnsweredIs ==
  ASSUME TypeOK, NEW p \in posts, NEW a \in {"none", "new", "refused", "error"},
         posts' = (posts \ {p}) \union {[p EXCEPT !.answer = a]}
  PROVE  Answered(p, a)
<1> DEFINE q == [p EXCEPT !.answer = a]
<1>1. posts' = {q} /\ p \in Posts
  BY OnePost
<1>2. q \in Posts /\ q.by = p.by /\ q.token = p.token /\ q.answer = a
  BY <1>1 DEF Posts
<1> HIDE DEF q
<1> QED BY <1>1, <1>2 DEF Answered

LEMMA ServerAnswersIs ==
  ASSUME TypeOK, NEW p \in posts, ServerAnswers(p)
  PROVE  /\ Answered(p, IF Accepts(p.token) THEN "new" ELSE "refused")
         /\ Accepts(p.token) => /\ current'[p.token.grant] = p.token.renewals + 1
                                /\ p.token.grant \in DOMAIN current'
         /\ ~ Accepts(p.token) => UNCHANGED current
<1>1. Answered(p, IF Accepts(p.token) THEN "new" ELSE "refused")
  BY AnsweredIs DEF ServerAnswers
<1>2. CASE Accepts(p.token)
  <2>1. current' = [current EXCEPT ![p.token.grant] = @ + 1] /\ p.token.grant \in DOMAIN current
    BY <1>2, OnePost DEF ServerAnswers, IsToken
  <2> QED BY <1>1, <1>2, <2>1, BumpIs DEF Accepts
<1> QED BY <1>1, <1>2 DEF ServerAnswers

LEMMA AnsweredType ==
  ASSUME TypeOK, Grows, NEW p \in posts, NEW a, Answered(p, a), UNCHANGED waiting
  PROVE  PostsOK'
<1>1. PICK q \in Posts : posts' = {q} /\ q.token = p.token
  BY DEF Answered
<1>2. q.token.grant \in DOMAIN current' /\ q.token.renewals <= current'[q.token.grant]
  BY <1>1, OnePost, StillToken
<1> QED BY <1>1, <1>2 DEF TypeOK, PostsOK, IsToken

LEMMA GrownPosts ==
  ASSUME TypeOK, Grows, UNCHANGED <<posts, waiting>>
  PROVE  PostsOK'
<1>1. \A p \in posts : p.token.grant \in DOMAIN current' /\ p.token.renewals <= current'[p.token.grant]
  BY OnePost, StillToken
<1> QED BY <1>1 DEF TypeOK, PostsOK, IsToken

(* There is one exchange at most, of a token that has been given out, and  *)
(* whoever waits for it is waiting.                                        *)
LEMMA NextPosts ==
  ASSUME TypeOK, [Next]_vars
  PROVE  PostsOK' /\ FetchOK'
<1>1. Grows
  BY NextGrows
<1>2. ASSUME UNCHANGED <<posts, waiting, fetch>> PROVE PostsOK' /\ FetchOK'
  BY <1>1, <1>2, GrownPosts DEF TypeOK, FetchOK
<1>3. ASSUME UNCHANGED <<posts, waiting>>, NEW c \in Fetches, NEW r, Puts(c, r),
             r.pc # "waits", fetch[c].pc # "waits"
      PROVE  PostsOK' /\ FetchOK'
  BY <1>1, <1>3, GrownPosts, FetchKept
<1>4. ASSUME UNCHANGED <<posts, waiting>>, NEW c \in Fetches, NEW p \in Pcs,
             fetch' = [fetch EXCEPT ![c].pc = p], p # "waits", fetch[c].pc # "waits"
      PROVE  PostsOK' /\ FetchOK'
  <2>1. PICK r : Puts(c, r) /\ r.pc = p
    BY <1>4, MoveIs DEF Moves
  <2> QED BY <1>3, <1>4, <2>1
<1>5. ASSUME UNCHANGED <<posts, waiting>>, NEW c \in Fetches,
             fetch' = [fetch EXCEPT ![c] = Off], fetch[c].pc # "waits"
      PROVE  PostsOK' /\ FetchOK'
  BY <1>3, <1>5, PutIs, OffIs
<1>6. ASSUME NEW c \in Fetches, Poll(c) PROVE PostsOK' /\ FetchOK'
  BY <1>6, ObtainIs, SoughtType, OffIs DEF Poll
<1>7. ASSUME NEW c \in Fetches, Again(c) \/ Looks(c) PROVE PostsOK' /\ FetchOK'
  BY <1>7, ObtainIs, LooksIs, SoughtType DEF Again, Looks
<1>8. ASSUME NEW c \in Fetches, Ask(c) PROVE PostsOK' /\ FetchOK'
  <2>1. CASE Obtain(c, "check")
    BY <1>8, <2>1, ObtainIs, SoughtType DEF Ask
  <2>2. CASE fetch' = [fetch EXCEPT ![c] = Off] /\ UNCHANGED <<waiting, posts>>
    BY <1>5, <1>8, <2>2 DEF Ask
  <2> QED BY <1>8, <2>1, <2>2 DEF Ask, AsksNobody
<1>9. ASSUME NEW c \in Fetches, GotNothing(c) PROVE PostsOK' /\ FetchOK'
  <2>1. PICK r : /\ Puts(c, r) /\ fetch[c].kind = "poll"  => r.pc = "ask"
                 /\ fetch[c].kind = "again" => r.pc = "off"
                 /\ fetch[c].kind = "check" => r.pc = "checked"
    BY <1>9, GotNothingIs
  <2>2. fetch[c].kind \in {"poll", "again", "check"}
    BY DEF TypeOK, Jobs
  <2> QED BY <1>3, <1>9, <2>1, <2>2, GotNothingIs DEF GotNothing, serverVars
<1>10. ASSUME NEW c \in Fetches, GotToken(c) PROVE PostsOK' /\ FetchOK'
  BY <1>3, <1>10, GotTokenIs DEF GotToken, serverVars
<1>11. ASSUME NEW c \in Fetches, GetSucceeds(c) PROVE PostsOK' /\ FetchOK'
  BY <1>5, <1>11 DEF GetSucceeds, Ends, serverVars
<1>12. ASSUME NEW c \in Fetches, GetRefused(c) PROVE PostsOK' /\ FetchOK'
  <2> DEFINE r == [Off EXCEPT !.pc = "again"]
  <2>1. CASE fetch' = [fetch EXCEPT ![c] = r]
    <3>1. r \in Jobs /\ r.pc = "again"
      BY OffIs DEF Jobs, Pcs
    <3> HIDE DEF r
    <3>2. Puts(c, r)
      BY <2>1, <3>1, PutIs
    <3> QED BY <1>3, <1>12, <3>1, <3>2 DEF GetRefused, serverVars
  <2>2. CASE fetch' = [fetch EXCEPT ![c] = Off]
    BY <1>5, <1>12, <2>2 DEF GetRefused, serverVars
  <2> QED BY <1>12, <2>1, <2>2 DEF GetRefused, Ends
<1>13. ASSUME NEW c \in Fetches, GetFails(c) PROVE PostsOK' /\ FetchOK'
  BY <1>3, <1>13, GetFailsIs DEF GetFails, serverVars
<1>14. ASSUME NEW c \in Fetches, Retry(c) \/ UserSigns(c) PROVE PostsOK' /\ FetchOK'
  BY <1>4, <1>14 DEF Retry, UserSigns, serverVars, Pcs
<1>15. ASSUME NEW c \in Fetches, UserCancels(c) \/ SignInFails(c) PROVE PostsOK' /\ FetchOK'
  BY <1>5, <1>15 DEF UserCancels, SignInFails, serverVars
<1>16. ASSUME NEW c \in Fetches, Checked(c) PROVE PostsOK' /\ FetchOK'
  BY <1>4, <1>5, <1>16 DEF Checked, serverVars, Pcs
<1>17. ASSUME NEW c \in Fetches, SignsIn(c) PROVE PostsOK' /\ FetchOK'
  BY <1>4, <1>17 DEF SignsIn, Pcs
<1>18. ASSUME NEW c \in Fetches, Signed(c) PROVE PostsOK' /\ FetchOK'
  <2> DEFINE r == [Off EXCEPT !.pc = "get", !.token = "fresh"]
  <2>1. fetch' = [fetch EXCEPT ![c] = r]
    BY <1>18 DEF Signed
  <2>2. r \in Jobs /\ r.pc = "get"
    BY OffIs DEF Jobs, Pcs, Access
  <2> HIDE DEF r
  <2>3. Puts(c, r)
    BY <2>1, <2>2, PutIs
  <2> QED BY <1>3, <1>18, <2>2, <2>3 DEF Signed, serverVars
<1>19. ASSUME NEW p \in posts, ServerAnswers(p) \/ Loses(p) PROVE PostsOK' /\ FetchOK'
  <2>1. \E a : Answered(p, a)
    BY <1>19, ServerAnswersIs, AnsweredIs DEF Loses
  <2>2. UNCHANGED <<waiting, fetch>>
    BY <1>19 DEF ServerAnswers, Loses, fetchVars
  <2> QED BY <1>1, <2>1, <2>2, AnsweredType DEF TypeOK, FetchOK
<1>20. ASSUME NEW p \in posts, Reply(p) PROVE PostsOK' /\ FetchOK'
  <2>1. /\ fetch' \in [Fetches -> Jobs] /\ posts' = {} /\ waiting' = {}
        /\ \A c \in Fetches : c \in waiting => fetch'[c].pc = "got"
        /\ \A c \in Fetches : c \notin waiting => fetch'[c] = fetch[c]
    BY <1>20, ReplyIs
  <2> QED BY <2>1 DEF TypeOK, FetchOK, PostsOK
<1>21. CASE WebAsks
  <2>1. Refresh(Web) /\ keychain # NoToken /\ UNCHANGED <<current, fetch>>
    BY <1>21 DEF WebAsks
  <2>2. PostsOK' /\ waiting' = waiting \union {Web}
    BY <2>1, RefreshType
  <2> QED BY <2>1, <2>2, FetchesAssumption DEF TypeOK, FetchOK
<1>22. CASE Expire
  BY <1>1, <1>22, ExpireIs, GrownPosts DEF Expire, serverVars, TypeOK, FetchOK
<1>23. CASE Crash
  <2>1. posts' = {} /\ waiting' = {} /\ fetch' = [c \in Fetches |-> Off]
    BY <1>23 DEF Crash
  <2> QED BY <2>1, OffIs DEF PostsOK, FetchOK
<1>24. CASE WebRenews \/ WebStores \/ Clear \/ Switch \/ UNCHANGED vars
  BY <1>2, <1>24 DEF WebRenews, WebStores, Clear, Switch, vars, serverVars, fetchVars
<1> QED BY <1>6, <1>7, <1>8, <1>9, <1>10, <1>11, <1>12, <1>13, <1>14, <1>15, <1>16, <1>17, <1>18,
           <1>19, <1>20, <1>21, <1>22, <1>23, <1>24 DEF Next, Goes, Answers

LEMMA NextRest ==
  ASSUME TypeOK, [Next]_vars
  PROVE  RestOK'
<1>1. RestOK /\ "yes" \in YesNo /\ "no" \in YesNo
  BY TypeParts DEF YesNo
<1>2. ASSUME Happens PROVE count' \in 0..Limit
  BY <1>2, HappensType
<1>3. \A c \in Fetches : fetch[c].token \in Access
  BY DEF TypeOK, Jobs
<1> USE DEF RestOK
<1>4. ASSUME NEW c \in Fetches, Poll(c) \/ GotNothing(c) \/ Again(c) \/ UserSigns(c)
                                  \/ UserCancels(c) \/ GetSucceeds(c) \/ GetFails(c)
      PROVE  RestOK'
  BY <1>1, <1>4 DEF Poll, GotNothing, Again, UserSigns, UserCancels, GetSucceeds, GetFails, Ends,
                    promptVars, pastVars
<1>5. ASSUME NEW c \in Fetches, GotToken(c) \/ Retry(c) \/ Looks(c)
      PROVE  RestOK'
  BY <1>1, <1>3, <1>5 DEF GotToken, Retry, Looks, promptVars, pastVars
<1>18. ASSUME NEW c \in Fetches, Ask(c)
       PROVE  RestOK'
  <2>1. spent' \in {"yes", spent} /\ prompted' \in {"yes", prompted}
    BY <1>18 DEF Ask, AsksNobody
  <2> QED BY <1>1, <1>18, <2>1 DEF Ask, pastVars
<1>6. ASSUME NEW c \in Fetches, Signed(c) \/ Checked(c)
      PROVE  RestOK'
  BY <1>1, <1>3, <1>6 DEF Signed, Checked, promptVars, pastVars, Access
<1>7. ASSUME NEW c \in Fetches, SignsIn(c) PROVE RestOK'
  <2>1. count' \in 0..Limit /\ crossed' \in {"yes", crossed}
    BY <1>1, <1>2, <1>7 DEF SignsIn, Stores, Crosses
  <2> QED BY <1>1, <1>7, <2>1 DEF SignsIn, promptVars
<1>8. ASSUME NEW c \in Fetches, GetRefused(c) PROVE RestOK'
  <2>1. count' \in 0..Limit
    BY <1>1, <1>2, <1>8 DEF GetRefused
  <2> QED BY <1>1, <1>8, <2>1 DEF GetRefused, Ends, promptVars, pastVars, Access
<1>9. ASSUME NEW c \in Fetches, SignInFails(c) PROVE RestOK'
  BY <1>1, <1>2, <1>9 DEF SignInFails, pastVars
<1>10. ASSUME NEW p \in posts, ServerAnswers(p) \/ Reply(p) PROVE RestOK'
  <2>1. CASE ServerAnswers(p)
    BY <1>1, <2>1 DEF ServerAnswers, fetchVars, promptVars, pastVars
  <2>2. CASE Reply(p)
    <3>1. count' \in 0..Limit /\ crossed' \in {"yes", crossed}
      BY <1>1, <1>2, <2>2 DEF Reply, Stores, Crosses
    <3> QED BY <1>1, <2>2, <3>1 DEF Reply, promptVars
  <2> QED BY <1>10, <2>1, <2>2
<1>11. ASSUME NEW p \in posts, Loses(p) PROVE RestOK'
  BY <1>1, <1>2, <1>11 DEF Loses, Crosses, fetchVars, promptVars
<1>12. CASE WebAsks
  BY <1>1, <1>2, <1>12 DEF WebAsks, promptVars, pastVars
<1>13. CASE WebRenews
  <2>1. crossed' \in {"yes", crossed}
    BY <1>13 DEF WebRenews, Crosses
  <2> QED BY <1>1, <1>2, <1>13, <2>1 DEF WebRenews, fetchVars, promptVars
<1>14. CASE WebStores \/ Clear
  <2>1. crossed' \in {"yes", crossed} /\ known' \in {"no", known}
    BY <1>14 DEF WebStores, Clear, ClearsTokens, Crosses
  <2> QED BY <1>1, <1>2, <1>14, <2>1 DEF WebStores, Clear, fetchVars, promptVars, Access
<1>15. CASE Expire
  BY <1>1, <1>2, <1>15 DEF Expire, promptVars, pastVars, Access
<1>16. CASE Switch \/ UNCHANGED vars
  BY <1>1, <1>16 DEF Switch, vars, fetchVars, promptVars, pastVars
<1>17. CASE Crash
  <2>1. crossed' \in {"yes", crossed}
    BY <1>17 DEF Crash, Crosses
  <2> QED BY <1>1, <1>2, <1>17, <2>1 DEF Crash, Access
<1> QED BY <1>4, <1>5, <1>6, <1>7, <1>8, <1>9, <1>10, <1>11, <1>12, <1>13, <1>14, <1>15, <1>16,
           <1>17, <1>18 DEF Next, Goes, Answers

LEMMA NextType == TypeOK /\ Taken /\ [Next]_vars => TypeOK'
<1> SUFFICES ASSUME TypeOK, Taken, [Next]_vars PROVE TypeOK'
  OBVIOUS
<1>1. TokensOK' /\ PostsOK' /\ FetchOK' /\ RestOK'
  BY NextTokens, NextPosts, NextRest
<1> QED BY <1>1 DEF TypeOK, TokensOK, PostsOK, FetchOK, RestOK

(* An exchange of the stored token is begun. *)
Begins == /\ posts = {} /\ keychain # NoToken /\ UNCHANGED <<current, keychain, signedIn, crossed>>
          /\ \A p \in posts' : p.token = keychain /\ p.answer = "none"

LEMMA RefreshBegins ==
  ASSUME TypeOK, NEW who \in Fetches \union {Web}, Refresh(who), keychain # NoToken,
         UNCHANGED <<current, keychain, signedIn, crossed>>
  PROVE  Begins \/ UNCHANGED posts
<1>1. CASE posts = {}
  BY <1>1, RefreshType DEF Begins
<1>2. CASE posts # {}
  BY <1>2, RefreshType DEF TypeOK
<1> QED BY <1>1, <1>2

LEMMA AsksExchange ==
  ASSUME TypeOK, NEW c \in Fetches, Poll(c) \/ Looks(c) \/ Again(c) \/ Ask(c)
  PROVE  /\ UNCHANGED <<current, keychain, signedIn, crossed>>
         /\ Begins \/ UNCHANGED posts
<1>1. UNCHANGED <<current, keychain, signedIn, crossed>>
  BY DEF Poll, Looks, Again, Ask, pastVars
<1>2. UNCHANGED posts \/ \E kind \in {"poll", "again", "check"} : Sought(c, kind)
  BY ObtainIs, LooksIs DEF Poll, Again, Ask, AsksNobody
<1>3. UNCHANGED posts \/ (keychain # NoToken /\ Refresh(c))
  BY <1>2 DEF Sought
<1> QED BY <1>1, <1>3, RefreshBegins

(* How the exchange changes: one is begun, answered, or over.              *)
LEMMA NextExchange ==
  ASSUME TypeOK, [Next]_vars
  PROVE  \/ UNCHANGED posts
         \/ posts' = {}
         \/ Begins
         \/ \E p \in posts : ServerAnswers(p) \/ Loses(p)
<1>1. ASSUME NEW c \in Fetches, Poll(c) \/ Looks(c) \/ Again(c) \/ Ask(c) PROVE Begins \/ UNCHANGED posts
  BY <1>1, AsksExchange
<1>2. ASSUME WebAsks PROVE Begins \/ UNCHANGED posts
  <2>1. Web \in Fetches \union {Web} /\ UNCHANGED <<current, keychain, signedIn, crossed>>
    BY <1>2 DEF WebAsks, pastVars
  <2> QED BY <1>2, <2>1, RefreshBegins DEF WebAsks
<1>3. ASSUME NEW c \in Fetches, GotNothing(c) \/ GotToken(c) \/ Retry(c) \/ Checked(c) \/ SignsIn(c)
                \/ Signed(c) \/ Answers(c) \/ UserSigns(c) \/ UserCancels(c) \/ SignInFails(c)
      PROVE  UNCHANGED posts
  BY <1>3 DEF GotNothing, GotToken, Retry, Checked, SignsIn, Signed, Answers, UserSigns, UserCancels,
              SignInFails, GetSucceeds, GetRefused, GetFails, serverVars
<1>4. ASSUME NEW p \in posts, Reply(p) PROVE posts' = {}
  BY <1>4, ReplyIs
<1>5. ASSUME Crash PROVE posts' = {}
  BY <1>5 DEF Crash
<1>6. ASSUME WebRenews \/ WebStores \/ Clear \/ Expire \/ Switch \/ UNCHANGED vars PROVE UNCHANGED posts
  BY <1>6 DEF WebRenews, WebStores, Clear, Expire, Switch, vars, serverVars
<1> QED BY <1>1, <1>2, <1>3, <1>4, <1>5, <1>6 DEF Next, Goes

LEMMA NextTaken == TypeOK /\ Taken /\ [Next]_vars => Taken'
<1> SUFFICES ASSUME TypeOK, Taken, [Next]_vars PROVE Taken'
  OBVIOUS
<1>1. CASE UNCHANGED posts
  <2>1. ASSUME NEW p \in posts
        PROVE  /\ current[p.token.grant] \in Nat /\ p.token.renewals \in Nat
               /\ current'[p.token.grant] \in Nat
               /\ current[p.token.grant] <= current'[p.token.grant]
    <3>1. p.token.grant \in DOMAIN current /\ p.token.renewals \in Nat
      BY OnePost DEF IsToken, Tokens
    <3>2. current \in Seq(Nat) /\ Grows
      BY NextGrows DEF TypeOK
    <3> QED BY <3>1, <3>2, ElementOfSeq, LenProperties DEF Grows
  <2> QED BY <1>1, <2>1 DEF Taken
<1>2. ASSUME NEW p \in posts, ServerAnswers(p) PROVE Taken'
  <2>1. PICK q : /\ posts' = {q} /\ q.token = p.token
                 /\ q.answer = "new" => current'[p.token.grant] = p.token.renewals + 1
    BY <1>2, ServerAnswersIs DEF Answered
  <2>2. p.token.renewals \in Nat
    BY OnePost DEF Tokens
  <2> QED BY <2>1, <2>2 DEF Taken
<1>3. ASSUME NEW p \in posts, Loses(p) PROVE Taken'
  <2>1. PICK q : posts' = {q} /\ q.answer = "error"
    BY <1>3, AnsweredIs DEF Loses, Answered
  <2> QED BY <2>1 DEF Taken
<1> QED BY <1>1, <1>2, <1>3, NextExchange DEF Taken, Begins

(* Every variable keeps its type: there is one exchange at most, it is of a*)
(* token the server has given out, and who waits is waiting for it.        *)
THEOREM TypeCorrect == SafeSpec => []TypeOK
  BY InitType, InitTaken, NextType, NextTaken, PTL DEF SafeSpec

-----------------------------------------------------------------------------
(* The prompt. *)

LEMMA InitPrompting == Init => Prompting
  BY OffIs DEF Init, Prompting, Asks, Asking, Showing

(* Nobody begins to ask. *)
LEMMA PromptKept ==
  ASSUME Prompting, UNCHANGED <<prompted, prompts, failures>>,
         \A c \in Fetches : /\ Asks(fetch'[c]) => Asks(fetch[c])
                            /\ Asking(fetch'[c]) => Asking(fetch[c])
  PROVE  Prompting'
BY DEF Prompting

LEMMA PutQuietly ==
  ASSUME Prompting, UNCHANGED <<prompted, prompts, failures>>, NEW c \in Fetches, NEW r, Puts(c, r),
         Asks(r) => Asks(fetch[c]), Asking(r) => Asking(fetch[c])
  PROVE  Prompting'
<1>1. fetch'[c] = r /\ \A d \in Fetches \ {c} : fetch'[d] = fetch[d]
  BY DEF Puts
<1> QED BY <1>1, PromptKept

LEMMA AskPrompting ==
  ASSUME TypeOK, Prompting, NEW c \in Fetches, Ask(c)
  PROVE  Prompting'
<1>1. UNCHANGED <<prompts, failures>> /\ prompted \in YesNo /\ prompts \in Nat /\ failures \in Nat
  BY DEF Ask, TypeOK
<1>2. CASE fetch' = [fetch EXCEPT ![c] = Off] /\ UNCHANGED prompted
  <2>1. Puts(c, Off) /\ ~ Asks(Off)
    BY <1>2, PutIs, OffIs DEF Asks, Asking, Showing
  <2> QED BY <1>1, <1>2, <2>1, PutQuietly DEF Asks
<1>3. CASE /\ Sought(c, "check") \/ fetch' = [fetch EXCEPT ![c] = Off]
           /\ prompted = "no" /\ prompted' = "yes"
  <2>1. PICK r : Puts(c, r)
    BY <1>3, PutIs, OffIs DEF Sought
  <2>2. \A d \in Fetches : d # c => ~ Asks(fetch'[d])
    BY <1>3, <2>1 DEF Prompting, Puts
  <2>3. prompts <= failures
    BY <1>3 DEF Prompting
  <2>4. \A d \in Fetches : Asks(fetch'[d]) => d = c
    BY <2>2
  <2> QED BY <1>1, <1>3, <2>3, <2>4 DEF Prompting
<1> QED BY <1>1, <1>2, <1>3, ObtainIs DEF Ask, AsksNobody, YesNo

LEMMA CheckedPrompting ==
  ASSUME TypeOK, Prompting, NEW c \in Fetches, Checked(c)
  PROVE  Prompting'
<1>1. UNCHANGED <<prompted, failures>> /\ prompts \in Nat /\ failures \in Nat /\ fetch[c].pc = "checked"
  BY DEF Checked, TypeOK
<1>2. Asking(fetch[c]) /\ Asks(fetch[c]) /\ ~ Showing(fetch[c])
  BY <1>1 DEF Asks, Asking, Showing
<1>3. CASE fetch' = [fetch EXCEPT ![c].pc = "shown"] /\ prompts' = prompts + 1
  <2>1. "shown" \in Pcs
    BY DEF Pcs
  <2>2. Moves(c, "shown")
    BY <1>3, <2>1, MoveIs
  <2>3. PICK r : Puts(c, r) /\ r.pc = "shown"
    BY <2>2 DEF Moves
  <2>4. /\ \A d \in Fetches \ {c} : fetch'[d] = fetch[d]
        /\ fetch'[c] = r /\ ~ Asking(r)
    BY <2>3 DEF Puts, Asking
  <2>5. /\ prompts <= failures /\ prompted = "yes"
        /\ \A d \in Fetches : d # c => ~ Asks(fetch[d])
    BY <1>2 DEF Prompting
  <2>6. \A d \in Fetches : d # c => ~ Asks(fetch'[d])
    BY <2>4, <2>5
  <2>7. \A d \in Fetches : ~ Asking(fetch'[d])
    BY <2>4, <2>6 DEF Asks
  <2> QED BY <1>1, <1>3, <2>5, <2>6, <2>7 DEF Prompting
<1>4. CASE prompts' = prompts /\ (fetch' = [fetch EXCEPT ![c].pc = "get"] \/ fetch' = [fetch EXCEPT ![c] = Off])
  <2>1. \E r : Puts(c, r) /\ r.pc \in {"get", "off"}
    BY <1>4, MoveIs, PutIs, OffIs DEF Moves, Pcs
  <2>2. \A r : r.pc \in {"get", "off"} => ~ Asks(r) /\ ~ Asking(r)
    BY DEF Asks, Asking, Showing
  <2> QED BY <1>1, <1>4, <2>1, <2>2, PutQuietly
<1> QED BY <1>3, <1>4 DEF Checked

LEMMA FailsPrompting ==
  ASSUME TypeOK, Prompting, NEW c \in Fetches, SignInFails(c)
  PROVE  Prompting'
<1>1. /\ fetch' = [fetch EXCEPT ![c] = Off] /\ fetch[c].pc \in {"shown", "code"}
      /\ prompted' = "no" /\ failures' = failures + 1 /\ UNCHANGED prompts
      /\ prompts \in Nat /\ failures \in Nat
  BY DEF SignInFails, TypeOK
<1>2. /\ \A d \in Fetches \ {c} : fetch'[d] = fetch[d]
      /\ fetch'[c] = Off /\ ~ Asks(Off)
  BY <1>1, PutIs, OffIs DEF Puts, Asks, Asking, Showing
<1>3. Asks(fetch[c])
  BY <1>1 DEF Asks, Showing
<1>4. \A d \in Fetches : ~ Asks(fetch'[d])
  BY <1>2, <1>3 DEF Prompting
<1>5. prompts <= failures + 1
  BY DEF Prompting
<1> QED BY <1>1, <1>4, <1>5 DEF Prompting, Asks

LEMMA NextPrompting == TypeOK /\ Prompting /\ [Next]_vars => Prompting'
<1> SUFFICES ASSUME TypeOK, Prompting, [Next]_vars PROVE Prompting'
  OBVIOUS
<1>1. \A r : r.pc \in {"off", "get", "again", "retry", "ask", "signed"} => ~ Asks(r) /\ ~ Asking(r)
  BY DEF Asks, Asking, Showing
<1>2. \A r : r.kind \in {"poll", "again"} /\ r.pc \in {"got", "looks", "waits"} => ~ Asks(r) /\ ~ Asking(r)
  BY DEF Asks, Asking, Showing
<1>3. ASSUME UNCHANGED promptVars, NEW c \in Fetches, NEW r, Puts(c, r), ~ Asks(r) /\ ~ Asking(r)
      PROVE  Prompting'
  BY <1>3, PutQuietly DEF promptVars
<1>4. ASSUME UNCHANGED promptVars, NEW c \in Fetches, fetch' = [fetch EXCEPT ![c] = Off]
      PROVE  Prompting'
  <2>1. Puts(c, Off)
    BY <1>4, PutIs, OffIs
  <2>2. ~ Asks(Off) /\ ~ Asking(Off)
    BY <1>1, OffIs
  <2> QED BY <1>3, <1>4, <2>1, <2>2
<1>5. ASSUME UNCHANGED promptVars, NEW c \in Fetches, NEW p \in Pcs, fetch' = [fetch EXCEPT ![c].pc = p],
             p \in {"off", "get", "again", "retry", "ask", "signed"}
      PROVE  Prompting'
  <2>1. PICK r : Puts(c, r) /\ r.pc = p
    BY <1>5, MoveIs DEF Moves
  <2> QED BY <1>1, <1>3, <1>5, <2>1
<1>6. ASSUME NEW c \in Fetches, Poll(c) \/ Again(c) PROVE Prompting'
  <2>1. PICK kind \in {"poll", "again"} : Obtain(c, kind)
    BY <1>6 DEF Poll, Again
  <2>2. PICK r : Puts(c, r) /\ r.kind = kind /\ r.pc \in {"got", "looks", "waits"}
    BY <2>1, ObtainIs DEF Sought
  <2> QED BY <1>2, <1>3, <1>6, <2>2 DEF Poll, Again
<1>20. ASSUME NEW c \in Fetches, Looks(c) PROVE Prompting'
  <2>1. PICK r : Puts(c, r) /\ r.kind = fetch[c].kind /\ r.pc \in {"got", "looks", "waits"}
    BY <1>20, LooksIs DEF Sought
  <2>2. fetch[c].pc = "looks" /\ UNCHANGED promptVars
    BY <1>20 DEF Looks
  <2> QED BY <2>1, <2>2, PutQuietly DEF Asks, Asking, Showing, promptVars
<1>7. ASSUME NEW c \in Fetches, GotNothing(c) PROVE Prompting'
  <2>1. PICK r : /\ Puts(c, r)
                 /\ fetch[c].kind = "poll"  => r.pc = "ask"
                 /\ fetch[c].kind = "again" => r.pc = "off"
                 /\ fetch[c].kind = "check" => r.pc = "checked"
    BY <1>7, GotNothingIs
  <2>2. fetch[c].pc = "got" /\ fetch[c].kind \in {"poll", "again", "check"} /\ UNCHANGED promptVars
    BY <1>7 DEF GotNothing, TypeOK, Jobs
  <2>3. CASE fetch[c].kind = "check"
    BY <2>1, <2>2, <2>3, PutQuietly DEF Asks, Asking, promptVars
  <2> QED BY <1>1, <1>3, <2>1, <2>2, <2>3
<1>8. ASSUME NEW c \in Fetches, GotToken(c) PROVE Prompting'
  <2>1. PICK r : /\ Puts(c, r) /\ r.pc = IF fetch[c].kind = "check" THEN "checked" ELSE "get"
    BY <1>8, GotTokenIs
  <2>2. fetch[c].pc = "got" /\ UNCHANGED promptVars
    BY <1>8 DEF GotToken
  <2>3. CASE fetch[c].kind = "check"
    BY <2>1, <2>2, <2>3, PutQuietly DEF Asks, Asking, promptVars
  <2>4. CASE fetch[c].kind # "check"
    BY <1>1, <1>3, <2>1, <2>2, <2>4
  <2> QED BY <2>3, <2>4
<1>9. ASSUME NEW c \in Fetches, Retry(c) \/ SignsIn(c) PROVE Prompting'
  BY <1>5, <1>9 DEF Retry, SignsIn, Pcs
<1>10. ASSUME NEW c \in Fetches, Signed(c) PROVE Prompting'
  <2> DEFINE r == [Off EXCEPT !.pc = "get", !.token = "fresh"]
  <2>1. fetch' = [fetch EXCEPT ![c] = r] /\ UNCHANGED promptVars
    BY <1>10 DEF Signed
  <2>2. r \in Jobs /\ r.pc = "get"
    BY OffIs DEF Jobs, Pcs, Access
  <2> HIDE DEF r
  <2>3. Puts(c, r)
    BY <2>1, <2>2, PutIs
  <2>4. ~ Asks(r) /\ ~ Asking(r)
    BY <1>1, <2>2
  <2> QED BY <1>3, <2>1, <2>3, <2>4
<1>11. ASSUME NEW c \in Fetches, GetSucceeds(c) \/ UserCancels(c) PROVE Prompting'
  BY <1>4, <1>11 DEF GetSucceeds, Ends, UserCancels
<1>12. ASSUME NEW c \in Fetches, GetRefused(c) PROVE Prompting'
  <2> DEFINE r == [Off EXCEPT !.pc = "again"]
  <2>1. CASE fetch' = [fetch EXCEPT ![c] = r]
    <3>1. r \in Jobs /\ r.pc = "again"
      BY OffIs DEF Jobs, Pcs
    <3> HIDE DEF r
    <3>2. Puts(c, r)
      BY <2>1, <3>1, PutIs
    <3>3. ~ Asks(r) /\ ~ Asking(r)
      BY <1>1, <3>1
    <3> QED BY <1>3, <1>12, <3>2, <3>3 DEF GetRefused
  <2>2. CASE fetch' = [fetch EXCEPT ![c] = Off]
    BY <1>4, <1>12, <2>2 DEF GetRefused
  <2> QED BY <1>12, <2>1, <2>2 DEF GetRefused, Ends
<1>13. ASSUME NEW c \in Fetches, GetFails(c) PROVE Prompting'
  BY <1>1, <1>3, <1>13, GetFailsIs DEF GetFails
<1>14. ASSUME NEW c \in Fetches, UserSigns(c) PROVE Prompting'
  <2>1. "code" \in Pcs
    BY DEF Pcs
  <2>2. Moves(c, "code")
    BY <1>14, <2>1, MoveIs DEF UserSigns
  <2>3. PICK r : Puts(c, r) /\ r.pc = "code"
    BY <2>2 DEF Moves
  <2>4. fetch[c].pc = "shown" /\ UNCHANGED promptVars
    BY <1>14 DEF UserSigns
  <2> QED BY <2>3, <2>4, PutQuietly DEF Asks, Asking, Showing, promptVars
<1>15. ASSUME NEW p \in posts, Reply(p) PROVE Prompting'
  <2>1. /\ \A c \in Fetches : c \in waiting =>
              fetch[c].pc = "waits" /\ fetch'[c].pc = "got" /\ fetch'[c].kind = fetch[c].kind
        /\ \A c \in Fetches : c \notin waiting => fetch'[c] = fetch[c]
    BY <1>15, ReplyIs
  <2>2. \A c \in Fetches : /\ Asks(fetch'[c]) => Asks(fetch[c])
                           /\ Asking(fetch'[c]) => Asking(fetch[c])
    BY <2>1 DEF Asks, Asking, Showing
  <2> QED BY <1>15, <2>2, PromptKept DEF Reply, promptVars
<1>16. CASE Expire
  <2>1. \A c \in Fetches : /\ Asks(fetch'[c]) => Asks(fetch[c])
                           /\ Asking(fetch'[c]) => Asking(fetch[c])
    BY <1>16, ExpireIs DEF Asks, Asking, Showing
  <2> QED BY <1>16, <2>1, PromptKept DEF Expire, promptVars
<1>17. CASE Crash
  <2>1. \A c \in Fetches : fetch'[c] = Off
    BY <1>17 DEF Crash
  <2> QED BY <1>1, <1>17, <2>1, OffIs DEF Crash, Prompting
<1>18. ASSUME NEW p \in posts, ServerAnswers(p) \/ Loses(p) PROVE Prompting'
  BY <1>18, PromptKept DEF ServerAnswers, Loses, fetchVars, promptVars
<1>19. CASE WebAsks \/ WebRenews \/ WebStores \/ Clear \/ Switch \/ UNCHANGED vars
  BY <1>19, PromptKept DEF WebAsks, WebRenews, WebStores, Clear, Switch, vars, fetchVars, promptVars
<1> QED BY <1>6, <1>7, <1>8, <1>9, <1>10, <1>11, <1>12, <1>13, <1>14, <1>15, <1>16, <1>17, <1>18,
           <1>19, <1>20, AskPrompting, CheckedPrompting, FailsPrompting DEF Next, Goes, Answers

(* A re-auth prompt appears at most once per session, whatever polls, tabs,*)
(* retries and resets do: only a sign-in that has failed makes room for    *)
(* another.                                                                *)
THEOREM PromptedOnce == SafeSpec => []PromptOnce
<1>1. Prompting => PromptOnce
  BY DEF Prompting, PromptOnce
<1> QED BY <1>1, InitType, InitTaken, NextType, NextTaken, InitPrompting, NextPrompting, PTL
        DEF SafeSpec

-----------------------------------------------------------------------------
(* The stored token. *)

LEMMA InitHolds == Init => Holds
<1>1. DOMAIN <<0>> = {1} /\ <<0>>[1] = 0
  BY Z3
<1> QED BY <1>1 DEF Init, Holds, Accepts, NoToken

LEMMA HoldsKept ==
  ASSUME Holds, UNCHANGED <<current, keychain, signedIn, crossed>>, Begins \/ UNCHANGED posts
  PROVE  Holds'
BY DEF Holds, Begins, Accepts

(* The server answers with a new token, for it has been sent the stored    *)
(* one, which it accepts.                                                  *)
LEMMA AnswerHolds ==
  ASSUME TypeOK, Holds, NEW p \in posts, ServerAnswers(p) \/ Loses(p)
  PROVE  Holds'
<1>1. SUFFICES ASSUME signedIn' = "yes", crossed' = "no" PROVE Holds'
  BY DEF Holds
<1>2. signedIn = "yes" /\ crossed = "no" /\ UNCHANGED keychain
  BY <1>1 DEF ServerAnswers, Loses, Crosses, pastVars
<1>3. keychain # NoToken /\ p.token = keychain /\ (p.answer # "new" => Accepts(keychain))
  BY <1>2 DEF Holds
<1>4. CASE ServerAnswers(p)
  <2>1. Accepts(keychain) /\ Accepts(p.token)
    BY <1>3, <1>4 DEF ServerAnswers
  <2>2. Answered(p, "new") /\ current'[keychain.grant] = keychain.renewals + 1
    BY <1>3, <1>4, <2>1, ServerAnswersIs
  <2>3. PICK q : posts' = {q} /\ q.token = keychain /\ q.answer = "new"
    BY <1>3, <2>2 DEF Answered
  <2> QED BY <1>2, <1>3, <2>2, <2>3 DEF Holds
<1>5. CASE Loses(p)
  <2>1. p.answer = "none" /\ UNCHANGED current
    BY <1>1, <1>5 DEF Loses, Crosses
  <2>2. Answered(p, "error")
    BY <1>5, AnsweredIs DEF Loses
  <2>3. PICK q : posts' = {q} /\ q.token = keychain /\ q.answer = "error"
    BY <1>3, <2>2 DEF Answered
  <2> QED BY <1>2, <1>3, <2>1, <2>3 DEF Holds, Accepts
<1> QED BY <1>4, <1>5

(* What is stored then is what the server takes next. *)
LEMMA ReplyHolds ==
  ASSUME TypeOK, Holds, NEW p \in posts, Reply(p)
  PROVE  Holds'
<1>1. SUFFICES ASSUME signedIn' = "yes", crossed' = "no" PROVE Holds'
  BY DEF Holds
<1>2. signedIn = "yes" /\ crossed = "no" /\ UNCHANGED current /\ posts' = {}
  BY <1>1, ReplyIs DEF Reply, Crosses
<1>3. /\ keychain # NoToken /\ p.token = keychain /\ p.answer # "refused"
      /\ p.answer = "new" => current[keychain.grant] = keychain.renewals + 1
      /\ p.answer # "new" => Accepts(keychain)
  BY <1>2 DEF Holds
<1>4. CASE p.answer = "new"
  <2>1. keychain' = Renewed(keychain) /\ keychain \in Tokens /\ IsToken(keychain)
    BY <1>1, <1>3, <1>4 DEF Reply, Stores, Crosses, TypeOK
  <2>2. keychain'.grant = keychain.grant /\ keychain'.renewals = keychain.renewals + 1
    BY <2>1, RenewedIs
  <2>3. keychain' # NoToken
    BY <2>1, <2>2, NoTokenIs, LenProperties DEF IsToken, TypeOK
  <2> QED BY <1>2, <1>3, <1>4, <2>2, <2>3 DEF Holds, Accepts
<1>5. CASE p.answer # "new"
  BY <1>2, <1>3, <1>5 DEF Reply, Holds, Accepts
<1> QED BY <1>4, <1>5

LEMMA SignsInHolds ==
  ASSUME TypeOK, NEW c \in Fetches, SignsIn(c)
  PROVE  Holds'
<1>1. SUFFICES ASSUME crossed' = "no" PROVE Holds'
  BY DEF Holds
<1>2. posts' = {} /\ keychain' = NextSignIn /\ current' = Append(current, 0)
  BY <1>1 DEF SignsIn, Stores, Crosses
<1>3. /\ NextSignIn.grant \in DOMAIN current' /\ current'[NextSignIn.grant] = NextSignIn.renewals
      /\ current' \in Seq(Nat)
  BY <1>2, AppendIs DEF Grows
<1>4. NextSignIn # NoToken
  BY <1>3, NoTokenIs, LenProperties
<1> QED BY <1>2, <1>3, <1>4 DEF Holds, Accepts

LEMMA WebRenewsHolds ==
  ASSUME TypeOK, Holds, WebRenews
  PROVE  Holds'
<1>1. SUFFICES ASSUME signedIn' = "yes", crossed' = "no" PROVE Holds'
  BY DEF Holds
<1>2. /\ current' = Append(current, 0) /\ UNCHANGED <<keychain, posts>>
      /\ signedIn = "yes" /\ crossed = "no"
  BY <1>1 DEF WebRenews, Crosses
<1>3. keychain # NoToken /\ IsToken(keychain)
  BY <1>2 DEF Holds, TypeOK
<1>4. current'[keychain.grant] = current[keychain.grant]
  BY <1>2, <1>3, AppendIs DEF IsToken
<1> QED BY <1>2, <1>4 DEF Holds, Accepts

LEMMA NextHolds == TypeOK /\ Holds /\ [Next]_vars => Holds'
<1> SUFFICES ASSUME TypeOK, Holds, [Next]_vars PROVE Holds'
  OBVIOUS
<1>1. ASSUME NEW c \in Fetches, Poll(c) \/ Looks(c) \/ Again(c) \/ Ask(c) PROVE Holds'
  BY <1>1, AsksExchange, HoldsKept
<1>2. CASE WebAsks
  <2>1. UNCHANGED <<current, keychain, signedIn, crossed>>
    BY <1>2 DEF WebAsks, pastVars
  <2>2. Begins \/ UNCHANGED posts
    BY <1>2, <2>1, RefreshBegins DEF WebAsks
  <2> QED BY <2>1, <2>2, HoldsKept
<1>3. ASSUME NEW c \in Fetches, GotNothing(c) \/ GotToken(c) \/ Retry(c) \/ Checked(c)
                \/ Signed(c) \/ Answers(c) \/ UserSigns(c) \/ UserCancels(c) \/ SignInFails(c)
      PROVE  Holds'
  <2>1. UNCHANGED <<current, keychain, signedIn, crossed, posts>>
    BY <1>3 DEF GotNothing, GotToken, Retry, Checked, Signed, Answers, UserSigns, UserCancels,
                SignInFails, GetSucceeds, GetRefused, GetFails, serverVars, pastVars
  <2> QED BY <2>1, HoldsKept
<1>4. CASE WebStores
  <2>1. crossed' = "no" => posts' = {} /\ Accepts(web) /\ keychain' # NoToken
    BY <1>4 DEF WebStores, Crosses, serverVars
  <2>2. keychain' \in {web, NoToken} /\ web # NoToken /\ UNCHANGED current
    BY <1>4 DEF WebStores, serverVars
  <2> QED BY <2>1, <2>2 DEF Holds, Accepts
<1>5. CASE Clear
  BY <1>5 DEF Clear, Holds
<1>6. CASE Expire \/ Switch \/ UNCHANGED vars
  <2>1. UNCHANGED <<current, keychain, signedIn, crossed, posts>>
    BY <1>6 DEF Expire, Switch, vars, serverVars, pastVars
  <2> QED BY <2>1, HoldsKept
<1>7. CASE Crash
  <2>1. /\ posts' = {} /\ UNCHANGED signedIn
        /\ crossed' = "no" => posts = {} /\ crossed = "no" /\ UNCHANGED keychain
    BY <1>7 DEF Crash, Crosses
  <2>2. posts = {} => UNCHANGED current
    BY <1>7, CrashGrows
  <2> QED BY <2>1, <2>2 DEF Holds, Accepts
<1> QED BY <1>1, <1>2, <1>3, <1>4, <1>5, <1>6, <1>7, AnswerHolds, ReplyHolds, SignsInHolds,
           WebRenewsHolds DEF Next, Goes

(* Whatever polls, 401s, retries, tabs and prompts do together, an app that*)
(* has signed in keeps a token the server takes, or is about to be told the*)
(* next one, as long as no answer is lost and nothing comes between a token*)
(* and its renewal.                                                        *)
THEOREM SignInLasts == SafeSpec => []StaysSignedIn
<1>1. TypeOK /\ Holds => StaysSignedIn
  <2> SUFFICES ASSUME TypeOK, Holds, signedIn = "yes", crossed = "no"
               PROVE  /\ keychain # NoToken
                      /\ Accepts(keychain) \/ \E p \in posts : p.answer = "new" /\ p.token = keychain
    BY DEF StaysSignedIn
  <2> QED BY DEF Holds
<1> QED BY <1>1, InitType, InitTaken, NextType, NextTaken, InitHolds, NextHolds, PTL DEF SafeSpec

-----------------------------------------------------------------------------
(* Signed out. *)

LEMMA InitSignedOut == Init => SignedOut
  BY OffIs DEF Init, SignedOut

LEMMA OutKept ==
  ASSUME SignedOut, UNCHANGED <<keychain, cache, posts, fetch, signedIn, crossed>>
  PROVE  SignedOut'
BY DEF SignedOut

LEMMA OutPut ==
  ASSUME SignedOut, UNCHANGED <<keychain, cache, posts, signedIn, crossed>>,
         NEW c \in Fetches, NEW r, Puts(c, r), r.token = None,
         r.pc \in {"off", "looks", "got", "ask", "checked", "shown", "code"}
  PROVE  SignedOut'
BY DEF SignedOut, Puts

(* A fetch finds neither a cached token nor one to exchange. *)
LEMMA SoughtOut ==
  ASSUME TypeOK, SignedOut, UNCHANGED <<keychain, cache, signedIn, crossed>>,
         NEW c \in Fetches, NEW kind, Sought(c, kind)
  PROVE  SignedOut'
<1>1. SUFFICES ASSUME signedIn = "no", crossed = "no" PROVE SignedOut'
  BY DEF SignedOut
<1>2. keychain = NoToken /\ cache = None /\ fetch[c].token = None
  BY <1>1 DEF SignedOut
<1>3. PICK r : Puts(c, r) /\ r.pc \in {"got", "looks"} /\ r.token = None /\ UNCHANGED posts
  BY <1>2 DEF None, Sought
<1> QED BY <1>3, OutPut

LEMMA GoesOut ==
  ASSUME TypeOK, SignedOut, NEW c \in Fetches,
         Poll(c) \/ Goes(c) \/ Answers(c) \/ UserSigns(c) \/ UserCancels(c) \/ SignInFails(c)
  PROVE  SignedOut'
<1>1. CASE SignsIn(c)
  BY <1>1 DEF SignsIn, SignedOut
<1>2. SUFFICES ASSUME ~ SignsIn(c), signedIn = "no", crossed = "no" PROVE SignedOut'
  <2>1. ~ SignsIn(c) => UNCHANGED <<signedIn, crossed>>
    BY DEF Poll, Goes, Answers, UserSigns, UserCancels, SignInFails, Looks, GotNothing, GotToken,
           Again, Retry, Ask, Checked, Signed, GetSucceeds, GetRefused, GetFails, pastVars
  <2> QED BY <1>1, <2>1 DEF SignedOut
<1>3. /\ fetch[c].pc \in {"off", "looks", "got", "ask", "checked", "shown", "code"}
      /\ fetch[c].token = None
  BY <1>2 DEF SignedOut
<1>4. CASE Poll(c)
  BY <1>4, ObtainIs, SoughtOut DEF Poll, pastVars
<1>11. CASE Looks(c)
  BY <1>11, LooksIs, SoughtOut DEF Looks, pastVars
<1>5. CASE Ask(c)
  <2>1. CASE fetch' = [fetch EXCEPT ![c] = Off] /\ UNCHANGED posts
    <3>1. Puts(c, Off)
      BY <2>1, PutIs, OffIs
    <3> QED BY <1>5, <2>1, <3>1, OutPut, OffIs DEF Ask, pastVars
  <2>2. CASE Obtain(c, "check")
    BY <1>5, <2>2, ObtainIs, SoughtOut DEF Ask, pastVars
  <2> QED BY <1>5, <2>1, <2>2 DEF Ask, AsksNobody
<1>6. CASE GotNothing(c)
  <2>1. PICK r : Puts(c, r) /\ r.token = None /\ r.pc \in {"ask", "off", "checked"}
    <3>1. fetch[c].kind \in {"poll", "again", "check"}
      BY DEF TypeOK, Jobs
    <3> QED BY <1>6, <3>1, GotNothingIs
  <2>2. UNCHANGED <<keychain, cache, posts, signedIn, crossed>>
    BY <1>6 DEF GotNothing, serverVars, pastVars
  <2> QED BY <2>1, <2>2, OutPut
<1>7. CASE Checked(c)
  <2>1. fetch' = [fetch EXCEPT ![c].pc = "shown"] /\ UNCHANGED <<keychain, cache, posts, signedIn, crossed>>
    BY <1>3, <1>7 DEF Checked, serverVars, pastVars
  <2>2. "shown" \in Pcs
    BY DEF Pcs
  <2>3. Moves(c, "shown")
    BY <2>1, <2>2, MoveIs
  <2>4. PICK r : Puts(c, r) /\ r.pc = "shown" /\ r.token = None
    BY <1>3, <2>3 DEF Moves
  <2> QED BY <2>1, <2>4, OutPut
<1>8. CASE UserSigns(c)
  <2>1. fetch' = [fetch EXCEPT ![c].pc = "code"] /\ UNCHANGED <<keychain, cache, posts, signedIn, crossed>>
    BY <1>8 DEF UserSigns, serverVars, pastVars
  <2>2. "code" \in Pcs
    BY DEF Pcs
  <2>3. Moves(c, "code")
    BY <2>1, <2>2, MoveIs
  <2>4. PICK r : Puts(c, r) /\ r.pc = "code" /\ r.token = None
    BY <1>3, <2>3 DEF Moves
  <2> QED BY <2>1, <2>4, OutPut
<1>9. CASE UserCancels(c) \/ SignInFails(c)
  <2>1. fetch' = [fetch EXCEPT ![c] = Off] /\ UNCHANGED <<keychain, cache, posts, signedIn, crossed>>
    BY <1>9 DEF UserCancels, SignInFails, serverVars, pastVars
  <2>2. Puts(c, Off)
    BY <2>1, PutIs, OffIs
  <2> QED BY <2>1, <2>2, OutPut, OffIs
<1>10. ~ GotToken(c) /\ ~ Again(c) /\ ~ Retry(c) /\ ~ Signed(c) /\ ~ Answers(c)
  BY <1>3 DEF GotToken, Again, Retry, Signed, Answers, GetSucceeds, GetRefused, GetFails
<1> QED BY <1>2, <1>4, <1>5, <1>6, <1>7, <1>8, <1>9, <1>10, <1>11 DEF Goes

LEMMA NextSignedOut == TypeOK /\ SignedOut /\ [Next]_vars => SignedOut'
<1> SUFFICES ASSUME TypeOK, SignedOut, [Next]_vars PROVE SignedOut'
  OBVIOUS
<1>1. ASSUME NEW c \in Fetches,
             Poll(c) \/ Goes(c) \/ Answers(c) \/ UserSigns(c) \/ UserCancels(c) \/ SignInFails(c)
      PROVE  SignedOut'
  BY <1>1, GoesOut
<1>2. ASSUME NEW p \in posts, ServerAnswers(p) \/ Loses(p) \/ Reply(p) PROVE SignedOut'
  <2>1. UNCHANGED signedIn /\ (crossed' = "no" => crossed = "no")
    BY <1>2 DEF ServerAnswers, Loses, Reply, Crosses, pastVars
  <2> QED BY <1>2, <2>1 DEF SignedOut
<1>3. CASE WebAsks
  BY <1>3 DEF WebAsks, SignedOut, pastVars
<1>4. CASE WebRenews
  <2>1. UNCHANGED <<keychain, cache, posts, fetch, signedIn>> /\ (crossed' = "no" => crossed = "no")
    BY <1>4 DEF WebRenews, Crosses, fetchVars
  <2> QED BY <2>1 DEF SignedOut
<1>5. CASE WebStores
  BY <1>5 DEF WebStores, SignedOut
<1>6. CASE Clear
  <2>1. cache' = None /\ UNCHANGED <<posts, fetch>>
    BY <1>6 DEF Clear, serverVars
  <2>2. crossed' = "no" => keychain' = NoToken /\ posts = {} /\ \A c \in Fetches : fetch[c] = Off
    BY <1>6 DEF Clear, Crosses
  <2> QED BY <2>1, <2>2, OffIs DEF SignedOut
<1>7. CASE Expire
  BY <1>7 DEF Expire, SignedOut, None, pastVars
<1>8. CASE Switch \/ UNCHANGED vars
  BY <1>8, OutKept DEF Switch, vars, serverVars, fetchVars, pastVars
<1>9. CASE Crash
  <2>1. /\ posts' = {} /\ cache' = None /\ UNCHANGED signedIn
        /\ crossed' = "no" => posts = {} /\ crossed = "no" /\ UNCHANGED keychain
        /\ \A c \in Fetches : fetch'[c] = Off
    BY <1>9 DEF Crash, Crosses
  <2> QED BY <2>1, OffIs DEF SignedOut
<1> QED BY <1>1, <1>2, <1>3, <1>4, <1>5, <1>6, <1>7, <1>8, <1>9 DEF Next

(* After a reset with nothing under way no poll, prompt, tab or restart    *)
(* brings a token back: only a sign-in does.                               *)
THEOREM ResetSignsOut == SafeSpec => []SignedOutStaysOut
<1>1. SignedOut => SignedOutStaysOut
  BY DEF SignedOut, SignedOutStaysOut
<1> QED BY <1>1, InitType, InitTaken, NextType, NextTaken, InitSignedOut, NextSignedOut, PTL
        DEF SafeSpec
=============================================================================
