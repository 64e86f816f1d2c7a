---------------------------- MODULE TokenRefresh ----------------------------
(***************************************************************************)
(* The sign-in of the app: WebAppAuthHelper keeps one refresh token in the *)
(* Keychain and exchanges it for access tokens; LocationAPISyncService     *)
(* fetches GET /api/location with them and asks the user to sign in when   *)
(* there is no token. The server makes a refresh token invalid at its first*)
(* use and returns the next one. The web app in a tab may be handed the    *)
(* token, renew it on its own and hand it back.                            *)
(*                                                                         *)
(* All of it runs on the main thread but for the answers to a GET, which   *)
(* come on a background queue. One Keychain account stands for the ones the*)
(* code looks up in turn; whether its client id is known then is part of   *)
(* the model. A refresh token is the pair of a sign-in and the number of   *)
(* times it has been renewed since.                                        *)
(***************************************************************************)
EXTENDS Naturals, Sequences

CONSTANTS
  Fetches,  \* fetches that may be at work together, from the poll to its end
  Retries,  \* how often a GET is tried again after a passing failure: 3
  Limit     \* how many disturbances there may be, a bound

(* Each of these, marked by Happens, is a disturbance:                     *)
(*   Expire                the access tokens reach their last minute       *)
(*   Loses                 the answer to an exchange is lost, or no token  *)
(*   GetRefused            the API refuses a valid access token            *)
(*   Web*                  the web app asks for, renews or hands over one  *)
(*   Clear                 the user resets the app                         *)
(*   SignInFails           a sign-in fails, the user not having cancelled  *)
(*   Crash                 the process is killed and started again         *)
(*   Stores, WebStores     the Keychain does not take a token              *)
ASSUME BoundsAssumption == Retries \in Nat /\ Limit \in Nat

None == "none"
Web  == "web"

ASSUME FetchesAssumption == Web \notin Fetches

NoToken == [grant |-> 0, renewals |-> 0]

VARIABLES
  active,     \* "yes" while the app is in the foreground
  keychain,   \* the stored refresh token, or NoToken
  known,      \* whether the client id of its account is known: "always", or
              \* "yes" or "no" as cachedOAuthClientIdFromDiscovery tells it
  current,    \* the server's valid token of each sign-in so far
  posts,      \* exchanges under way and what has become of them
  waiting,    \* pendingRefreshCallbacks: who waits for the exchange
  cache,      \* cachedAccessToken: "fresh", "stale" or None
  inFlight,   \* fetchInFlight
  prompted,   \* gLocationAPIOAuthPromptScheduledThisSession
  fetch,      \* what each fetch is doing
  web,        \* the refresh token the web app has, or NoToken
  count,      \* how many disturbances there have been
  prompts,    \* history: sign-ins shown since the last start
  failures,   \* history: sign-ins of them that have failed
  spent,      \* history: "yes" once this start's prompt was used up unshown
  signedIn,   \* history: "yes" from a sign-in to the next reset
  crossed     \* history: what has come between a token and its renewal

serverVars == <<current, posts>>
fetchVars  == <<waiting, cache, inFlight, fetch>>
promptVars == <<prompted, prompts, failures, spent>>
pastVars   == <<signedIn, crossed>>
vars == <<active, keychain, known, serverVars, fetchVars, promptVars, web, count, pastVars>>

Off == [pc |-> "off", kind |-> "poll", token |-> None, again |-> "yes", tries |-> 0]

Happens == count < Limit /\ count' = count + 1

(* While a completion is being called the main thread does nothing else.   *)
MainIdle == \A c \in Fetches : fetch[c].pc # "got"

Accepts(token) == current[token.grant] = token.renewals
Renewed(token) == [token EXCEPT !.renewals = @ + 1]
NextSignIn     == [grant |-> Len(current) + 1, renewals |-> 0]

Crosses(case) == crossed' = IF case THEN "yes" ELSE crossed

-----------------------------------------------------------------------------
Init ==
  /\ active \in {"yes", "no"}
  /\ \/ keychain = NoToken /\ current = <<>> /\ signedIn = "no"
     \/ keychain = [grant |-> 1, renewals |-> 0] /\ current = <<0>> /\ signedIn = "yes"
  /\ known \in {"always", "no"}
  /\ posts = {} /\ waiting = {} /\ cache = None /\ inFlight = "no"
  /\ fetch = [c \in Fetches |-> Off]
  /\ prompted = "no" /\ prompts = 0 /\ failures = 0 /\ spent = "no"
  /\ web = NoToken /\ crossed = "no"
  /\ count = 0

(* Mutant: everybody posts the stored token. *)
Refresh_Alone(who) ==
  /\ waiting' = waiting \union {who}
  /\ posts' = posts \union {[by |-> who, token |-> keychain, answer |-> "none"]}

(* performRefresh: one exchange at a time; who comes later waits for it.   *)
Refresh(who) ==
  /\ waiting' = waiting \union {who}
  /\ posts' = IF waiting # {} THEN posts
              ELSE posts \union {[by |-> who, token |-> keychain, answer |-> "none"]}

(* storeRefreshToken deletes the old entry and adds the new one, which the *)
(* Keychain may refuse.                                                    *)
Stores(token) ==
  \/ keychain' = token /\ count' = count
  \/ keychain' = NoToken /\ Happens

(* The Keychain is looked up under the client ids there are.               *)
Finds(c, kind, found) ==
  IF found /\ keychain # NoToken
    THEN /\ fetch' = [fetch EXCEPT ![c] = [@ EXCEPT !.pc = "waits", !.kind = kind]]
         /\ Refresh(c)
    ELSE /\ fetch' = [fetch EXCEPT ![c] = [@ EXCEPT !.pc = "got", !.kind = kind, !.token = None]]
         /\ UNCHANGED <<waiting, posts>>

(* obtainAccessTokenForLocationAPI: the cache, or the Keychain, before or  *)
(* after the client id has been fetched from the discovery document.       *)
Obtain(c, kind) ==
  \/ /\ cache = "fresh"
     /\ fetch' = [fetch EXCEPT ![c] = [@ EXCEPT !.pc = "got", !.kind = kind, !.token = "fresh"]]
     /\ UNCHANGED <<waiting, posts>>
  \/ cache # "fresh" /\ known # "no" /\ Finds(c, kind, TRUE)
  \/ /\ cache # "fresh" /\ known = "no"
     /\ fetch' = [fetch EXCEPT ![c] = [@ EXCEPT !.pc = "looks", !.kind = kind]]
     /\ UNCHANGED <<waiting, posts>>

(* The discovery document has come, or has not.                            *)
Looks(c) ==
  /\ MainIdle /\ fetch[c].pc = "looks"
  /\ \/ known' = "yes" /\ Finds(c, fetch[c].kind, TRUE)
     \/ known' = known /\ Finds(c, fetch[c].kind, FALSE)
  /\ UNCHANGED <<active, keychain, current, cache, inFlight, promptVars, web, count, pastVars>>

(* fetchAndApply, by the timer, at a wake-up or when the app comes up.     *)
Poll(c) ==
  /\ MainIdle /\ fetch[c] = Off
  /\ inFlight = "no"
  /\ inFlight' = "yes"
  /\ Obtain(c, "poll")
  /\ UNCHANGED <<active, keychain, known, current, cache, promptVars, web, count, pastVars>>

(* Mutant: a fetch that finds no token after a 401 stays in flight. *)
GotNothing_KeepsFlag(c) ==
  /\ fetch[c].pc = "got" /\ fetch[c].token = None
  /\ fetch' = [fetch EXCEPT ![c] = CASE fetch[c].kind = "poll"  -> [@ EXCEPT !.pc = "ask"]
                                     [] fetch[c].kind = "again" -> Off
                                     [] fetch[c].kind = "check" -> [@ EXCEPT !.pc = "checked"]]
  /\ inFlight' = IF fetch[c].kind = "poll" THEN "no" ELSE inFlight
  /\ UNCHANGED <<active, keychain, known, serverVars, waiting, cache, promptVars, web, count, pastVars>>

(* No token: a poll goes on to ask the user; after a 401 the fetch ends.   *)
GotNothing(c) ==
  /\ fetch[c].pc = "got" /\ fetch[c].token = None
  /\ fetch' = [fetch EXCEPT ![c] = CASE fetch[c].kind = "poll"  -> [@ EXCEPT !.pc = "ask"]
                                     [] fetch[c].kind = "again" -> Off
                                     [] fetch[c].kind = "check" -> [@ EXCEPT !.pc = "checked"]]
  /\ inFlight' = IF fetch[c].kind = "check" THEN inFlight ELSE "no"
  /\ UNCHANGED <<active, keychain, known, serverVars, waiting, cache, promptVars, web, count, pastVars>>

(* A token is cached, and used. After a 401 there is no second retry.      *)
GotToken(c) ==
  /\ fetch[c].pc = "got" /\ fetch[c].token # None
  /\ cache' = fetch[c].token
  /\ fetch' = [fetch EXCEPT ![c] =
                 IF @.kind = "check" THEN [@ EXCEPT !.pc = "checked"]
                 ELSE [@ EXCEPT !.pc = "get", !.tries = 0,
                                !.again = IF fetch[c].kind = "poll" THEN "yes" ELSE "no"]]
  /\ UNCHANGED <<active, keychain, known, serverVars, waiting, inFlight, promptVars, web, count, pastVars>>

-----------------------------------------------------------------------------
(* The server takes a token once.                                          *)
ServerAnswers(p) ==
  /\ p.answer = "none"
  /\ current' = IF Accepts(p.token) THEN [current EXCEPT ![p.token.grant] = @ + 1] ELSE current
  /\ posts' = (posts \ {p}) \union
                {[p EXCEPT !.answer = IF Accepts(p.token) THEN "new" ELSE "refused"]}
  /\ UNCHANGED <<active, keychain, known, fetchVars, promptVars, web, count, pastVars>>

(* A network error or another status, before or after the server has taken *)
(* the token.                                                              *)
Loses(p) ==
  /\ p.answer \in {"none", "new"} /\ Happens
  /\ posts' = (posts \ {p}) \union {[p EXCEPT !.answer = "error"]}
  /\ Crosses(p.answer = "new")
  /\ UNCHANGED <<active, keychain, known, current, fetchVars, promptVars, web, signedIn>>

(* Mutant: the callbacks stay in the table after they have been called. *)
Reply_KeepsCallbacks(p) ==
  /\ MainIdle /\ p.answer # "none"
  /\ posts' = posts \ {p}
  /\ IF p.answer = "new"
       THEN Stores(Renewed(p.token)) /\ Crosses(keychain' = NoToken)
       ELSE /\ keychain' = IF p.answer = "refused" /\ active = "yes" THEN NoToken ELSE keychain
            /\ UNCHANGED <<count, crossed>>
  /\ web' = IF p.answer = "new" /\ Web \in waiting /\ keychain' # NoToken THEN keychain' ELSE web
  /\ waiting' = waiting
  /\ fetch' = [c \in Fetches |->
                 IF c \in waiting
                   THEN [fetch[c] EXCEPT !.pc = "got",
                                         !.token = IF p.answer = "new" THEN "fresh" ELSE None]
                   ELSE fetch[c]]
  /\ UNCHANGED <<active, known, current, cache, inFlight, promptVars, signedIn>>

(* The answer on the main thread: the new token is stored, a refused one   *)
(* deleted in the foreground, and all who wait are called.                 *)
Reply(p) ==
  /\ MainIdle /\ p.answer # "none"
  /\ posts' = posts \ {p}
  /\ IF p.answer = "new"
       THEN Stores(Renewed(p.token)) /\ Crosses(keychain' = NoToken)
       ELSE /\ keychain' = IF p.answer = "refused" /\ active = "yes" THEN NoToken ELSE keychain
            /\ UNCHANGED <<count, crossed>>
  /\ web' = IF p.answer = "new" /\ Web \in waiting /\ keychain' # NoToken THEN keychain' ELSE web
  /\ waiting' = {}
  /\ fetch' = [c \in Fetches |->
                 IF c \in waiting
                   THEN [fetch[c] EXCEPT !.pc = "got",
                                         !.token = IF p.answer = "new" THEN "fresh" ELSE None]
                   ELSE fetch[c]]
  /\ UNCHANGED <<active, known, current, cache, inFlight, promptVars, signedIn>>

-----------------------------------------------------------------------------
Ends(c) == fetch' = [fetch EXCEPT ![c] = Off] /\ inFlight' = "no"

GetSucceeds(c) ==
  /\ fetch[c].pc = "get"
  /\ Ends(c)
  /\ UNCHANGED <<active, keychain, known, serverVars, waiting, cache, promptVars, web, count, pastVars>>

(* 401: drop the cached token and obtain another one, once.                *)
GetRefused(c) ==
  /\ fetch[c].pc = "get"
  /\ IF fetch[c].token = "stale" THEN count' = count ELSE Happens
  /\ IF fetch[c].again = "yes"
       THEN /\ fetch' = [fetch EXCEPT ![c] = [Off EXCEPT !.pc = "again"]] /\ inFlight' = inFlight
            /\ cache' = None
       ELSE Ends(c) /\ cache' = cache
  /\ UNCHANGED <<active, keychain, known, serverVars, waiting, promptVars, web, pastVars>>

Again(c) ==
  /\ MainIdle /\ fetch[c].pc = "again"
  /\ Obtain(c, "again")
  /\ UNCHANGED <<active, keychain, known, current, cache, inFlight, promptVars, web, count, pastVars>>

(* Another failure: wait and try again, or give up.                        *)
GetFails(c) ==
  /\ fetch[c].pc = "get"
  /\ IF fetch[c].tries < Retries
       THEN /\ fetch' = [fetch EXCEPT ![c].pc = "retry", ![c].tries = @ + 1]
            /\ inFlight' = inFlight
       ELSE Ends(c)
  /\ UNCHANGED <<active, keychain, known, serverVars, waiting, cache, promptVars, web, count, pastVars>>

(* performGET caches the token it was given, whatever has happened since.  *)
Retry(c) ==
  /\ MainIdle /\ fetch[c].pc = "retry"
  /\ fetch' = [fetch EXCEPT ![c].pc = "get"]
  /\ cache' = fetch[c].token
  /\ UNCHANGED <<active, keychain, known, serverVars, waiting, inFlight, promptVars, web, count, pastVars>>

-----------------------------------------------------------------------------
(* There is nowhere to show a sign-in: no web app is set up, or no window. *)
AsksNobody(c) ==
  fetch' = [fetch EXCEPT ![c] = Off] /\ spent' = "yes" /\ UNCHANGED <<waiting, posts>>

(* Mutant: the prompt is marked only when it is shown. *)
Ask_MarksLate(c) ==
  /\ MainIdle /\ fetch[c].pc = "ask"
  /\ IF prompted = "yes" \/ active = "no"
       THEN fetch' = [fetch EXCEPT ![c] = Off] /\ UNCHANGED <<prompted, spent, waiting, posts>>
       ELSE /\ prompted' = prompted
            /\ (Obtain(c, "check") /\ spent' = spent) \/ AsksNobody(c)
  /\ UNCHANGED <<active, keychain, known, current, cache, inFlight, prompts, failures, web,
                 count, pastVars>>

(* Mutant: the prompt is marked before the app is known to be active. *)
Ask_MarksEarly(c) ==
  /\ MainIdle /\ fetch[c].pc = "ask"
  /\ prompted' = "yes"
  /\ IF prompted = "yes" \/ active = "no"
       THEN fetch' = [fetch EXCEPT ![c] = Off] /\ UNCHANGED <<spent, waiting, posts>>
       ELSE (Obtain(c, "check") /\ spent' = spent) \/ AsksNobody(c)
  /\ UNCHANGED <<active, keychain, known, current, cache, inFlight, prompts, failures, web,
                 count, pastVars>>

(* scheduleInteractiveOAuth: once per start, in the foreground, and after  *)
(* another look for a token. The mark is set before anything else is known.*)
Ask(c) ==
  /\ MainIdle /\ fetch[c].pc = "ask"
  /\ IF prompted = "yes" \/ active = "no"
       THEN fetch' = [fetch EXCEPT ![c] = Off] /\ UNCHANGED <<prompted, spent, waiting, posts>>
       ELSE /\ prompted' = "yes"
            /\ (Obtain(c, "check") /\ spent' = spent) \/ AsksNobody(c)
  /\ UNCHANGED <<active, keychain, known, current, cache, inFlight, prompts, failures, web,
                 count, pastVars>>

(* Still no token: the sign-in is shown. Otherwise the token is used.      *)
Checked(c) ==
  /\ MainIdle /\ fetch[c].pc = "checked"
  /\ IF fetch[c].token = None
       THEN /\ fetch' = [fetch EXCEPT ![c].pc = "shown"] /\ prompts' = prompts + 1
            /\ UNCHANGED <<inFlight, cache, spent>>
       ELSE /\ spent' = "yes" /\ prompts' = prompts
            /\ IF inFlight = "no"
                 THEN /\ fetch' = [fetch EXCEPT ![c].pc = "get"] /\ inFlight' = "yes"
                      /\ cache' = fetch[c].token
                 ELSE /\ fetch' = [fetch EXCEPT ![c] = Off] /\ UNCHANGED <<inFlight, cache>>
  /\ UNCHANGED <<active, keychain, known, serverVars, waiting, prompted, failures, web, count, pastVars>>

UserSigns(c) ==
  /\ MainIdle /\ fetch[c].pc = "shown"
  /\ fetch' = [fetch EXCEPT ![c].pc = "code"]
  /\ UNCHANGED <<active, keychain, known, serverVars, waiting, cache, inFlight, promptVars, web, count,
                 pastVars>>

(* The mark stays: the user's choice holds until the next start.           *)
UserCancels(c) ==
  /\ MainIdle /\ fetch[c].pc = "shown"
  /\ fetch' = [fetch EXCEPT ![c] = Off]
  /\ UNCHANGED <<active, keychain, known, serverVars, waiting, cache, inFlight, promptVars, web, count,
                 pastVars>>

SignInFails(c) ==
  /\ MainIdle /\ fetch[c].pc \in {"shown", "code"} /\ Happens
  /\ fetch' = [fetch EXCEPT ![c] = Off]
  /\ prompted' = "no" /\ failures' = failures + 1
  /\ UNCHANGED <<active, keychain, known, serverVars, waiting, cache, inFlight, prompts, spent, web,
                 pastVars>>

(* The code is exchanged and the refresh token stored.                     *)
SignsIn(c) ==
  /\ MainIdle /\ fetch[c].pc = "code"
  /\ current' = Append(current, 0) /\ Stores(NextSignIn)
  /\ fetch' = [fetch EXCEPT ![c].pc = "signed"]
  /\ signedIn' = "yes" /\ Crosses(posts # {} \/ keychain' = NoToken)
  /\ UNCHANGED <<active, known, posts, waiting, cache, inFlight, promptVars, web>>

(* The completion fetches whether a fetch is in flight or not.             *)
Signed(c) ==
  /\ MainIdle /\ fetch[c].pc = "signed"
  /\ fetch' = [fetch EXCEPT ![c] = [Off EXCEPT !.pc = "get", !.token = "fresh"]]
  /\ inFlight' = "yes" /\ cache' = "fresh"
  /\ UNCHANGED <<active, keychain, known, serverVars, waiting, promptVars, web, count, pastVars>>

-----------------------------------------------------------------------------
(* A tab asks for a refresh, and is given the renewed token with the       *)
(* access token.                                                           *)
WebAsks ==
  /\ MainIdle /\ keychain # NoToken /\ Web \notin waiting /\ Happens
  /\ Refresh(Web)
  /\ UNCHANGED <<active, keychain, known, current, cache, inFlight, fetch, promptVars, web, pastVars>>

(* The web app renews its token, or signs in itself.                       *)
WebRenews ==
  /\ Happens
  /\ \/ /\ web # NoToken /\ Accepts(web)
        /\ current' = [current EXCEPT ![web.grant] = @ + 1] /\ web' = Renewed(web)
        /\ Crosses(TRUE)
     \/ current' = Append(current, 0) /\ web' = NextSignIn /\ crossed' = crossed
  /\ UNCHANGED <<active, keychain, known, posts, fetchVars, promptVars, signedIn>>

(* auth_tokens: the web app hands its token to the Keychain.               *)
WebStores ==
  /\ MainIdle /\ web # NoToken
  /\ \/ keychain' = web /\ Happens
     \/ keychain' = NoToken /\ Happens
  /\ signedIn' = "yes" /\ Crosses(posts # {} \/ keychain' = NoToken \/ ~Accepts(web))
  /\ UNCHANGED <<active, known, serverVars, fetchVars, promptVars, web>>

(* clearStoredTokens deletes the accounts of the client ids known at that  *)
(* moment. One from the discovery document not fetched yet is not among    *)
(* them, nor one from the settings, which have just been reset.            *)
ClearsTokens ==
  \/ keychain' = NoToken /\ known # "no" /\ known' = IF known = "always" THEN known ELSE "no"
  \/ keychain' = keychain /\ known # "yes" /\ known' = "no"

(* Mutant: the access token outlives the reset. *)
Clear_KeepsCache ==
  /\ MainIdle /\ Happens
  /\ ClearsTokens /\ cache' = cache /\ inFlight' = "no"
  /\ signedIn' = "no"
  /\ Crosses(keychain' # NoToken \/ posts # {} \/ \E c \in Fetches : fetch[c] # Off)
  /\ UNCHANGED <<active, serverVars, waiting, fetch, promptVars, web>>

(* The reset, with invalidateOAuthCredentialCache. What is under way goes  *)
(* on.                                                                     *)
Clear ==
  /\ MainIdle /\ Happens
  /\ ClearsTokens /\ cache' = None /\ inFlight' = "no"
  /\ signedIn' = "no"
  /\ Crosses(keychain' # NoToken \/ posts # {} \/ \E c \in Fetches : fetch[c] # Off)
  /\ UNCHANGED <<active, serverVars, waiting, fetch, promptVars, web>>

(* Five minutes have passed for whatever access token there is. The server *)
(* still takes it for a minute.                                            *)
Expire ==
  /\ cache = "fresh" /\ Happens
  /\ cache' = "stale"
  /\ fetch' = [c \in Fetches |->
                 IF fetch[c].token = "fresh" THEN [fetch[c] EXCEPT !.token = "stale"] ELSE fetch[c]]
  /\ UNCHANGED <<active, keychain, known, serverVars, waiting, inFlight, promptVars, web, pastVars>>

Switch ==
  /\ MainIdle
  /\ active' = IF active = "yes" THEN "no" ELSE "yes"
  /\ UNCHANGED <<keychain, known, serverVars, fetchVars, promptVars, web, count, pastVars>>

(* A token is being stored: renewed, handed over, or of a sign-in.         *)
Storing == \/ \E p \in posts : p.answer = "new"
           \/ web # NoToken
           \/ \E c \in Fetches : fetch[c].pc = "code"

(* The process dies, perhaps after the server has taken the token, or when *)
(* storeRefreshToken has deleted the old entry and not added the new one.  *)
Crash ==
  /\ Happens
  /\ \E taken \in SUBSET {p \in posts : p.answer = "none" /\ Accepts(p.token)} :
       current' = [g \in DOMAIN current |->
                     IF \E p \in taken : p.token.grant = g THEN current[g] + 1 ELSE current[g]]
  /\ \/ keychain' = keychain
     \/ keychain' = NoToken /\ Storing
  /\ known' = IF known = "always" THEN known ELSE "no"
  /\ posts' = {} /\ waiting' = {} /\ cache' = None /\ inFlight' = "no"
  /\ fetch' = [c \in Fetches |-> Off]
  /\ prompted' = "no" /\ prompts' = 0 /\ failures' = 0 /\ spent' = "no"
  /\ active' \in {"yes", "no"}
  /\ Crosses(posts # {} \/ keychain' # keychain)
  /\ UNCHANGED <<web, signedIn>>

-----------------------------------------------------------------------------
Answers(c) == GetSucceeds(c) \/ GetRefused(c) \/ GetFails(c)
Goes(c) == \/ Looks(c) \/ GotNothing(c) \/ GotToken(c) \/ Again(c) \/ Retry(c) \/ Ask(c)
           \/ Checked(c) \/ SignsIn(c) \/ Signed(c)

Next ==
  \/ \E c \in Fetches : \/ Poll(c) \/ Goes(c) \/ Answers(c)
                        \/ UserSigns(c) \/ UserCancels(c) \/ SignInFails(c)
  \/ \E p \in posts : ServerAnswers(p) \/ Loses(p) \/ Reply(p)
  \/ WebAsks \/ WebRenews \/ WebStores \/ Clear \/ Expire \/ Switch \/ Crash

SafeSpec == Init /\ [][Next]_vars

(* Blocks wait in the queue of the main thread, so none is passed over for *)
(* ever by others that make it busy. Requests are answered or time out, and*)
(* the timer polls while the app is in the foreground. Nothing is assumed  *)
(* of the user and of the web app.                                         *)
Spec == /\ SafeSpec
        /\ \A c \in Fetches : SF_vars(Goes(c)) /\ WF_vars(Answers(c))
        /\ WF_vars(\E p \in posts : ServerAnswers(p)) /\ SF_vars(\E p \in posts : Reply(p))
        /\ WF_vars(active = "yes" /\ \E c \in Fetches : Poll(c))

-----------------------------------------------------------------------------
Pcs    == {"off", "looks", "waits", "got", "get", "again", "retry", "ask", "checked", "shown", "code",
           "signed"}
YesNo  == {"yes", "no"}
Access == {None, "fresh", "stale"}
Tokens == [grant : Nat, renewals : Nat]
Posts  == [by : Fetches \union {Web}, token : Tokens, answer : {"none", "new", "refused", "error"}]
Jobs   == [pc : Pcs, kind : {"poll", "again", "check"}, token : Access, again : YesNo,
           tries : 0..Retries]

IsToken(token) == token.grant \in DOMAIN current /\ token.renewals <= current[token.grant]

TypeOK ==
  /\ \A flag \in {active, inFlight, prompted, spent, signedIn, crossed} : flag \in YesNo
  /\ known \in {"always", "yes", "no"} /\ current \in Seq(Nat)
  /\ keychain \in Tokens /\ (keychain # NoToken => IsToken(keychain))
  /\ web \in Tokens /\ (web # NoToken => IsToken(web))
  /\ posts \subseteq Posts /\ \A p \in posts : IsToken(p.token)
  /\ \A p, q \in posts : p = q
  /\ waiting \subseteq Fetches \union {Web} /\ (waiting = {} <=> posts = {})
  /\ cache \in Access
  /\ fetch \in [Fetches -> Jobs] /\ \A c \in Fetches : fetch[c].pc = "waits" <=> c \in waiting
  /\ count \in 0..Limit
  /\ prompts \in Nat /\ failures \in Nat

(* Once signed in the app stays so: no interleaving of polls, retries, tabs*)
(* and prompts makes it lose the token or use one up twice, unless an      *)
(* answer was lost, the web app renewed behind its back, a reset, a new    *)
(* sign-in, a handed-over token or a kill came while an exchange was under *)
(* way, or a token could not be stored, by a kill or by the Keychain.      *)
StaysSignedIn ==
  signedIn = "yes" /\ crossed = "no" =>
    /\ keychain # NoToken
    /\ Accepts(keychain) \/ \E p \in posts : p.answer = "new" /\ p.token = keychain

(* After a reset there is no token, and nothing brings one back but a      *)
(* sign-in, unless a fetch or an exchange was under way, whose end stores  *)
(* what it holds, or the token was stored under a client id not known then.*)
SignedOutStaysOut ==
  signedIn = "no" /\ crossed = "no" => keychain = NoToken /\ cache = None

(* claud-authissues.md, Current Status: a re-auth prompt appears at most   *)
(* once per session; only a sign-in that has failed makes room for another.*)
PromptOnce == prompts <= failures + 1

(* No fetch stays in flight, so polling never stops.                       *)
FetchEnds == []<>(inFlight = "no")

(* An app that stays in the foreground without a usable token asks the     *)
(* user in the end, unless the prompt of this session has been used up     *)
(* unshown: a token turned up, or there was nowhere to show it.            *)
AsksUser ==
  <>[](active = "yes") =>
    []<>(\/ cache = "fresh"
         \/ keychain # NoToken /\ Accepts(keychain)
         \/ prompts > failures
         \/ spent = "yes")
=============================================================================
