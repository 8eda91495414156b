------------------------------- MODULE Accounts -------------------------------
(***************************************************************************)
(* Accounts: from the sign-up form over the table users to the login form. *)
(*                                                                         *)
(* A user's id is born as text (generateUUID), stored as TEXT and shown as *)
(* text, but travels as a number: the page parses it, JSON carries it, the *)
(* server reads it into an int and prints that to look the user up.        *)
(*                                                                         *)
(* One connection per page carries messages in order both ways (see        *)
(* FifoChannel); whether a user is logged in already is decided by         *)
(* LoginService and a choice here.  User names are left out.               *)
(***************************************************************************)
EXTENDS Integers, Sequences, SequencesExt

CONSTANTS
  Pages,
  Passwords,
  Blank,       \* a password of white space
  Salts,
  Digits,      \* the characters of an id
  IdLength,
  Ints,        \* the number of values of an int, a power of two
  Typed,       \* what parseInt makes of the ids users type
  NaN, None,
  MaxRequests  \* bound on the forms ever submitted

ASSUME DigitsAssumption == Digits \subseteq 1..9
ASSUME IntsAssumption == 10 ^ IdLength <= Ints \div 2
ASSUME TypedAssumption == Typed \ {NaN} \subseteq Int
ASSUME MaxRequestsAssumption == MaxRequests \in Nat

VARIABLES
  users,      \* the table users: for each id, password_hash and salt
  toServer, toClient,
  form,       \* per page, the form displayed: "login", "register" or "none"
  chat,       \* per page, whether the chat is displayed
  userId,     \* per page, the variable userId
  shown,      \* per page, the text of uuidText, or None
  requests,   \* history: the forms submitted
  registered, \* history: for each account its page, id and password
  password,   \* history: per page, the password of the last login submitted
  submitted,  \* history: per page, the ids and passwords of all its logins
  raced,      \* history: pages on which a login overtook another
  awaiting    \* history: per page, the requests the server owes an answer

display == <<form, chat, userId, shown>>
history == <<requests, registered, password, submitted, raced, awaiting>>
vars == <<users, toServer, toClient, display, history>>

MessageTypes == {
  "SIGN_UP", "SIGN_UP_RESPONSE", "LOGIN", "LOGIN_RESPONSE", "LOGOUT", "TEXT", "ADD_FRIEND",
  "FRIEND_REQUEST", "FRIEND_REQUEST_RESPONSE", "FRIEND_LIST", "PRIVATE_CHAT", "GROUP_CHAT",
  "PULL_MESSAGE"}

ResponseTo(type) == IF type = "LOGIN" THEN "LOGIN_RESPONSE" ELSE "SIGN_UP_RESPONSE"

Ids == [1..IdLength -> 1..9]

TypeOK ==
  /\ DOMAIN users \subseteq Ids
  /\ \A id \in DOMAIN users :
       users[id] \in [password_hash : Passwords \X Salts, salt : Salts]
  /\ \A p \in Pages :
       /\ \A i \in DOMAIN toServer[p] :
            /\ toServer[p][i].messageType \in MessageTypes
            /\ toServer[p][i].fromUserId \in Typed \cup {-1}
       /\ \A i \in DOMAIN toClient[p] :
            /\ toClient[p][i].messageType \in MessageTypes
            /\ toClient[p][i].content \in Ids \cup {None}
  /\ form \in [Pages -> {"login", "register", "none"}]
  /\ chat \in [Pages -> BOOLEAN]
  /\ userId \in [Pages -> Typed \cup {0}]
  /\ shown \in [Pages -> Ids \cup {None}]
  /\ requests \in 0..MaxRequests
  /\ registered \subseteq [page : Pages, id : Ids, password : Passwords]
  /\ password \in [Pages -> Passwords \cup {None}]
  /\ submitted \in [Pages -> SUBSET (Typed \X Passwords)]
  /\ raced \subseteq Pages
  /\ awaiting \in [Pages -> SUBSET {"SIGN_UP", "LOGIN"}]

Init ==
  /\ users = <<>>
  /\ toServer = [p \in Pages |-> <<>>]
  /\ toClient = [p \in Pages |-> <<>>]
  /\ form = [p \in Pages |-> "login"]
  /\ chat = [p \in Pages |-> FALSE]
  /\ userId = [p \in Pages |-> 0]
  /\ shown = [p \in Pages |-> None]
  /\ requests = 0
  /\ registered = {}
  /\ password = [p \in Pages |-> None]
  /\ submitted = [p \in Pages |-> {}]
  /\ raced = {}
  /\ awaiting = [p \in Pages |-> {}]

-----------------------------------------------------------------------------
(* Ids as texts and as numbers. *)

\* parseInt(text, 10).
ParseInt(text) == FoldLeft(LAMBDA n, digit : 10 * n + digit, 0, text)

\* A JSON number read into an int.
ToInt(n) == ((n + Ints \div 2) % Ints) - Ints \div 2

\* std::to_string of an int; a minus sign stands before the digits as -1.
IntToString(int) ==
  LET n == IF int < 0 THEN -int ELSE int
      width == CHOOSE w \in 1..(n + 1) : n < 10 ^ w /\ (w > 1 => 10 ^ (w - 1) <= n)
      digits == [i \in 1..width |-> (n \div 10 ^ (width - i)) % 10]
  IN  IF int < 0 THEN <<-1>> \o digits ELSE digits

\* The texts generateUUID may return.
GenerateUUID == [1..IdLength -> Digits]

\* Mutant: the salt is left out.
HashUnsalted(pw, salt) == pw

\* SHA-256 of the password followed by a salt, whose length is fixed.
HashPassword(pw, salt) == <<pw, salt>>

-----------------------------------------------------------------------------
(* The pages. *)

\* The links between the two forms.
ShowForm(p, from, to) ==
  /\ form[p] = from
  /\ form' = [form EXCEPT ![p] = to]
  /\ UNCHANGED <<users, toServer, toClient, chat, userId, shown, history>>

\* sendMessage.  JSON has no NaN: stringify writes null.
SendMessage(p, type, from, content) ==
  /\ requests < MaxRequests
  /\ requests' = requests + 1
  /\ toServer' = [toServer EXCEPT ![p] =
       Append(@, [messageType |-> type, fromUserId |-> from, content |-> content])]
  /\ awaiting' = IF from = NaN THEN awaiting ELSE [awaiting EXCEPT ![p] = @ \cup {type}]

\* registerForm, the two passwords being equal.
Register(p, pw) ==
  /\ form[p] = "register"
  /\ SendMessage(p, "SIGN_UP", -1, pw)
  /\ UNCHANGED <<users, toClient, display, registered, password, submitted, raced>>

\* A request of this type, or its answer, is on the way.
UnderWay(p, type) ==
  \/ \E i \in DOMAIN toServer[p] : toServer[p][i].messageType = type
  \/ \E i \in DOMAIN toClient[p] : toClient[p][i].messageType = ResponseTo(type)

\* What loginForm takes for a password; registerForm takes any.
FormTakes(pw) == pw # Blank

\* loginForm: userId is set before the server has answered.
SubmitLogin(p, n, pw) ==
  /\ form[p] = "login" /\ FormTakes(pw)
  /\ SendMessage(p, "LOGIN", n, pw)
  /\ userId' = [userId EXCEPT ![p] = n]
  /\ password' = [password EXCEPT ![p] = pw]
  /\ submitted' = [submitted EXCEPT ![p] = @ \cup {<<n, pw>>}]
  /\ raced' = IF UnderWay(p, "LOGIN") \/ chat[p] THEN raced \cup {p} ELSE raced
  /\ UNCHANGED <<users, toClient, form, chat, shown, registered>>

\* handleMessage.  A login that succeeds hides the login form, but not the
\* other one; the user name of the answer is left out.  JSON.parse drops a frame
\* that arrives torn (see Session).
Receive(p, torn) ==
  /\ toClient[p] # <<>>
  /\ LET msg == Head(toClient[p])
         welcome == msg.messageType = "LOGIN_RESPONSE" /\ msg.status = "success" /\ ~torn
     IN  /\ shown' = IF msg.messageType = "SIGN_UP_RESPONSE" /\ ~torn
                     THEN [shown EXCEPT ![p] = msg.content] ELSE shown
         /\ chat' = [chat EXCEPT ![p] = @ \/ welcome]
         /\ form' = [form EXCEPT ![p] = IF welcome /\ @ = "login" THEN "none" ELSE @]
         /\ awaiting' = [awaiting EXCEPT ![p] = {t \in @ : ResponseTo(t) # msg.messageType}]
  /\ toClient' = [toClient EXCEPT ![p] = Tail(@)]
  /\ UNCHANGED <<users, toServer, userId, requests, registered, password, submitted, raced>>

\* The connection is lost, or the server restarts, and the page connects again;
\* what was on its way is lost.
Lose(p) ==
  /\ toServer' = [toServer EXCEPT ![p] = <<>>]
  /\ toClient' = [toClient EXCEPT ![p] = <<>>]
  /\ awaiting' = [awaiting EXCEPT ![p] = {}]

Reconnect(p) ==
  /\ Lose(p)
  /\ UNCHANGED <<users, display, requests, registered, password, submitted, raced>>

\* The page is left, and the user comes back with a new one.
Reload(p) ==
  /\ Lose(p)
  /\ form' = [form EXCEPT ![p] = "login"]
  /\ chat' = [chat EXCEPT ![p] = FALSE]
  /\ userId' = [userId EXCEPT ![p] = 0]
  /\ shown' = [shown EXCEPT ![p] = None]
  /\ password' = [password EXCEPT ![p] = None]
  /\ submitted' = [submitted EXCEPT ![p] = {}]
  /\ raced' = raced \ {p}
  /\ UNCHANGED <<users, requests, registered>>

-----------------------------------------------------------------------------
(* The server. *)

\* Mutant: a line of stringToMessageType is missing.
KnownButLogin == MessageTypes \ {"LOGIN"}

\* The texts stringToMessageType knows, those of messageTypeToString.
KnownTypes == MessageTypes

\* fromJson throws on a type it does not know, and on null for an int.
Throws(json) == json.messageType \notin KnownTypes \/ json.fromUserId = NaN

\* A message of this type was read, parsed and dispatched.
Read(p, type) ==
  /\ toServer[p] # <<>>
  /\ ~Throws(Head(toServer[p])) /\ Head(toServer[p]).messageType = type
  /\ toServer' = [toServer EXCEPT ![p] = Tail(@)]

\* readMessage catches what fromJson throws, and drops the message.
Discard(p) ==
  /\ toServer[p] # <<>> /\ Throws(Head(toServer[p]))
  /\ toServer' = [toServer EXCEPT ![p] = Tail(@)]
  /\ UNCHANGED <<users, toClient, display, history>>

Answer(p, type, content, status) ==
  toClient' = [toClient EXCEPT ![p] =
    Append(@, [messageType |-> type, content |-> content, status |-> status])]

\* Mutant: INSERT OR REPLACE.
Replaces(id) == TRUE

\* The insertion violates no constraint: user_id is the primary key.
Inserts(id) == id \notin DOMAIN users

\* registerUser.
RegisterUser(id, pw, salt) ==
  LET row == [password_hash |-> HashPassword(pw, salt), salt |-> salt]
  IN  users' = [i \in DOMAIN users \cup {id} |-> IF i = id THEN row ELSE users[i]]

\* signUp: a statement that fails, or an id that exists, is not answered.
HandleSignUp(p, id, salt, fails) ==
  /\ Read(p, "SIGN_UP")
  /\ LET pw == Head(toServer[p]).content IN
       IF Inserts(id) /\ ~fails
       THEN /\ RegisterUser(id, pw, salt)
            /\ Answer(p, "SIGN_UP_RESPONSE", id, None)
            /\ registered' = registered \cup {[page |-> p, id |-> id, password |-> pw]}
            /\ UNCHANGED awaiting
       ELSE /\ awaiting' = [awaiting EXCEPT ![p] = @ \ {"SIGN_UP"}]
            /\ UNCHANGED <<users, toClient, registered>>
  /\ UNCHANGED <<display, requests, password, submitted, raced>>

\* Mutant: the stored hash is not compared.
AuthenticateAnybody(id, pw) == id \in DOMAIN users

\* authenticateUser, its statement not failing.
AuthenticateUser(id, pw) ==
  id \in DOMAIN users /\ HashPassword(pw, users[id].salt) = users[id].password_hash

\* loginUser: refused also if taken, for a repeated login, or if a statement
\* fails.
HandleLogin(p, refused) ==
  /\ Read(p, "LOGIN")
  /\ LET msg == Head(toServer[p])
         auth == AuthenticateUser(IntToString(ToInt(msg.fromUserId)), msg.content)
     IN  Answer(p, "LOGIN_RESPONSE", None, IF auth /\ ~refused THEN "success" ELSE "fail")
  /\ UNCHANGED <<users, display, history>>

-----------------------------------------------------------------------------
Handle(p) ==
  \/ Discard(p)
  \/ \E id \in GenerateUUID, salt \in Salts, fails \in BOOLEAN : HandleSignUp(p, id, salt, fails)
  \/ \E refused \in BOOLEAN : HandleLogin(p, refused)

PageStep(p) ==
  \/ ShowForm(p, "login", "register") \/ ShowForm(p, "register", "login")
  \/ \E pw \in Passwords : Register(p, pw)
  \/ \E n \in Typed, pw \in Passwords : SubmitLogin(p, n, pw)
  \/ Reconnect(p)
  \/ Reload(p)

Next ==
  \E p \in Pages :
    PageStep(p) \/ (\E torn \in BOOLEAN : Receive(p, torn)) \/ Handle(p)

Spec == Init /\ [][Next]_vars

-----------------------------------------------------------------------------
\* An id comes out of parseInt, int and to_string as it was, and is none of the
\* numbers the code uses for nobody.
IdsSurvive ==
  \A id \in GenerateUUID :
    LET int == ToInt(ParseInt(id)) IN IntToString(int) = id /\ int \notin {0, -1}

\* The id a page shows is that of an account it registered, and logs in through
\* the form: it comes out as the stored text, through parseInt, int and to_string,
\* whoever else has registered since.  It is none of the numbers the code uses for
\* nobody.  Only with a password of white space, which registerForm takes, the
\* account is of no use: loginForm refuses it.
ShownLogsIn ==
  \A p \in Pages : shown[p] # None =>
    LET int == ToInt(ParseInt(shown[p])) IN
    /\ int \notin {0, -1}
    /\ \E account \in registered :
         /\ account.page = p /\ account.id = shown[p]
         /\ account.password # Blank =>
              /\ FormTakes(account.password)
              /\ AuthenticateUser(IntToString(int), account.password)

\* The account that a number and a password log in to.
AccountOf(n, pw) ==
  /\ n # NaN
  /\ \E account \in registered : account.id = IntToString(ToInt(n)) /\ account.password = pw

\* The chat is open only to who typed an id and a password that are registered,
\* the two together and on this page since it was loaded.  They are those that
\* the page keeps, unless another login was submitted before the answer: the
\* answer does not say to whom it is.
ChatIsOwned ==
  \A p \in Pages : chat[p] =>
    /\ \E login \in submitted[p] : AccountOf(login[1], login[2])
    /\ p \notin raced => AccountOf(userId[p], password[p])

\* Every form submitted gets its answer: while one is owed, the request or an
\* answer to a request like it is on the way.  Only an id that is no number, a
\* sign-up that fails, a torn frame, and the loss of the connection leave a page
\* without.
OwedIsUnderWay ==
  \A p \in Pages : \A type \in awaiting[p] : UnderWay(p, type)
=============================================================================
