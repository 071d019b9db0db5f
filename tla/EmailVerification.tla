------------------------- MODULE EmailVerification --------------------------
(***************************************************************************)
(* Proving an email address: EmailVerificationService on the server, and   *)
(* the form of useEmailVerification that the signup and the password page  *)
(* share.                                                                  *)
(*                                                                         *)
(* The server keeps one row per code it has sent.  sendCode and verifyCode *)
(* are sequences of statements without a transaction.  A form has at most  *)
(* one call of each kind under way, as its buttons are disabled meanwhile, *)
(* but it gives a call up after fifteen seconds while the server goes on.  *)
(*                                                                         *)
(* A request sends one code at most, so the key of its row, and the code   *)
(* itself, are named by the request.                                       *)
(***************************************************************************)
EXTENDS Integers, FiniteSets

CONSTANTS Requests,         \* the calls of one behaviour; each is made once
          Emails,           \* addresses, each read by one person
          Forms,            \* pages on which a person proves an address
          MaxFail,          \* MAX_FAIL_COUNT, 5 in the code
          DailySendLimit,   \* DAILY_SEND_LIMIT, 5 in the code
          CodeLife,         \* units of time a code is valid, 3 minutes in the code
          TokenLife,        \* units of time a token is valid, 10 minutes in the code
          DayLength,        \* units of time of a day
          MaxClock,         \* the last unit of time of a behaviour
          NoRow,            \* no row of email_verifications
          NoCall,           \* no call, no token
          Wrong,            \* a code that was sent to nobody
          Ok, Failed        \* the answers that bring no token

ASSUME EmailBounds == /\ IsFiniteSet(Requests)
                      /\ MaxFail \in Nat \ {0} /\ DailySendLimit \in Nat \ {0}
                      /\ CodeLife \in Nat /\ TokenLife \in Nat
                      /\ DayLength \in Nat \ {0} /\ MaxClock \in Nat

VARIABLES
    rows,      \* table email_verifications
    kind,      \* how the user of an address signs in, or that there is none
    mail,      \* the codes in the mailbox of an address
    now,
    forms,     \* the state of the hook, and the calls it waits for
    pc,        \* the next statement of a request
    call,      \* the endpoint and the arguments a request serves
    found,     \* the row a verification has read
    \* History, read by properties only.
    crossed,   \* addresses of which a code was deleted while another was about to be saved
    raced,     \* codes of which two guesses were compared at once
    misses,    \* how many wrong guesses of a code were answered
    issued,    \* how many tokens a code has brought
    proofs     \* the uses of tokens that the server accepted

server  == <<rows, kind, mail>>
history == <<crossed, raced, misses, issued, proofs>>
vars    == <<server, now, forms, pc, call, found, history>>

-----------------------------------------------------------------------------
Purposes == {"SIGNUP", "RESET_PASSWORD"}
Keys     == Requests
Address  == [email : Emails, purpose : Purposes]

Row   == [email : Emails, purpose : Purposes, createdAt : 0..MaxClock,
          isUsed : BOOLEAN, failCount : 0..MaxFail]
Token == [email : Emails, purpose : Purposes, iat : 0..MaxClock]
Mail  == [code : Keys, purpose : Purposes]
Form  == [person : Emails, purpose : Purposes, step : {"email", "code", "done", "left"},
          email : Emails \cup {NoCall}, token : Token \cup {NoCall},
          sending : Requests \cup {NoCall}, verifying : Requests \cup {NoCall}]
Proof == [person : Emails, email : Emails, purpose : Purposes]

Call == [op : {"send"}, form : Forms, email : Emails, purpose : Purposes]
   \cup [op : {"verify"}, form : Forms, email : Emails, purpose : Purposes,
         code : Keys \cup {Wrong}]

Found   == [id : Keys, failCount : 0..(MaxFail - 1)]

ASSUME EmailNulls == /\ NoRow \notin Row /\ Wrong \notin Keys
                     /\ NoRow \notin Found /\ Ok # Failed /\ {Ok, Failed} \cap Token = {}
                     /\ NoCall \notin Call \cup Token \cup Requests \cup Emails

PC == {"idle", "limit", "delete", "save", "mail", "find", "count", "use", "done"}

Live      == {id \in Keys : rows[id] # NoRow}
AddressOf(c) == [email |-> c.email, purpose |-> c.purpose]
RowsOf(a) == {id \in Live : AddressOf(rows[id]) = a}
Day(t)    == t \div DayLength

-----------------------------------------------------------------------------
Init ==
    /\ rows = [id \in Keys |-> NoRow]
    /\ kind \in [Emails -> {"none", "google", "password"}]
    /\ mail = [e \in Emails |-> {}]
    /\ now = 0
    /\ forms \in [Forms -> [person : Emails, purpose : Purposes, step : {"email"},
                            email : {NoCall}, token : {NoCall},
                            sending : {NoCall}, verifying : {NoCall}]]
    /\ pc = [q \in Requests |-> "idle"]
    /\ call = [q \in Requests |-> NoCall]
    /\ found = [q \in Requests |-> NoRow]
    /\ crossed = {} /\ raced = {} /\ proofs = {}
    /\ misses = [id \in Keys |-> 0]
    /\ issued = [id \in Keys |-> 0]

(***************************************************************************)
(* What the hook does with an answer.                                      *)
(***************************************************************************)
SendAnswered(form, e, r) ==
    [form EXCEPT !.sending = NoCall,
                 !.email = IF r = Ok /\ form.step = "email" THEN e ELSE @,
                 !.step  = IF r = Ok /\ form.step = "email" THEN "code" ELSE @]

VerifyAnswered(form, r) ==
    [form EXCEPT !.verifying = NoCall,
                 !.token = IF r # Failed THEN r ELSE @,
                 !.step  = IF r # Failed THEN "done" ELSE @]

\* A request answers; nobody reads it if the form has given the call up.
Answer(q, r) ==
    LET f == call[q].form IN
    /\ forms' = CASE forms[f].sending = q   -> [forms EXCEPT ![f] = SendAnswered(@, call[q].email, r)]
                  [] forms[f].verifying = q -> [forms EXCEPT ![f] = VerifyAnswered(@, r)]
                  [] OTHER -> forms
    /\ pc' = [pc EXCEPT ![q] = "done"]
    /\ UNCHANGED <<now, call>>

Continue(q, next) ==
    /\ pc' = [pc EXCEPT ![q] = next]
    /\ UNCHANGED <<now, forms, call>>

-----------------------------------------------------------------------------
(***************************************************************************)
(* sendCode                                                                *)
(***************************************************************************)

\* The form asks for a code: for any address, right or mistyped, at its first
\* step, for the same address again at its second.  A password can only be
\* reset where there is one; otherwise the answer is the same and no code sent.
StartSend(q, f, e) ==
    /\ pc[q] = "idle"
    /\ forms[f].sending = NoCall
    /\ \/ forms[f].step = "email"
       \/ forms[f].step = "code" /\ e = forms[f].email
    /\ call' = [call EXCEPT ![q] = [op |-> "send", form |-> f, email |-> e,
                                    purpose |-> forms[f].purpose]]
    /\ IF forms[f].purpose = "RESET_PASSWORD" /\ kind[e] # "password"
       THEN /\ forms' = [forms EXCEPT ![f] = SendAnswered(@, e, Ok)]
            /\ pc' = [pc EXCEPT ![q] = "done"]
       ELSE /\ forms' = [forms EXCEPT ![f].sending = q]
            /\ pc' = [pc EXCEPT ![q] = "limit"]
    /\ UNCHANGED <<server, now, found, history>>

Today(a) == {id \in RowsOf(a) : Day(rows[id].createdAt) = Day(now)}

CheckDailyLimit(q) ==
    /\ pc[q] = "limit"
    /\ IF Cardinality(Today(AddressOf(call[q]))) >= DailySendLimit
       THEN Answer(q, Failed)
       ELSE Continue(q, "delete")
    /\ UNCHANGED <<server, found, history>>

\* Requests that have deleted the codes of an address and not yet saved theirs.
Saving(a) == {q \in Requests : pc[q] = "save" /\ AddressOf(call[q]) = a}

\* Mutant: a new code leaves the earlier codes of the address in place.
DeleteNothing(q) ==
    /\ pc[q] = "delete"
    /\ crossed' = IF Saving(AddressOf(call[q])) = {} THEN crossed \ {AddressOf(call[q])}
                                                     ELSE crossed \cup {AddressOf(call[q])}
    /\ Continue(q, "save")
    /\ UNCHANGED <<server, found, raced, misses, issued, proofs>>

DeleteCodes(q) ==
    LET a == AddressOf(call[q]) IN
    /\ pc[q] = "delete"
    /\ rows' = [id \in Keys |-> IF id \in RowsOf(a) THEN NoRow ELSE rows[id]]
    /\ crossed' = IF Saving(a) = {} THEN crossed \ {a} ELSE crossed \cup {a}
    /\ Continue(q, "save")
    /\ UNCHANGED <<kind, mail, found, raced, misses, issued, proofs>>

SaveCode(q) ==
    /\ pc[q] = "save"
    /\ rows' = [rows EXCEPT ![q] = [email |-> call[q].email, purpose |-> call[q].purpose,
                                    createdAt |-> now, isUsed |-> FALSE, failCount |-> 0]]
    /\ Continue(q, "mail")
    /\ UNCHANGED <<kind, mail, found, history>>

SendMail(q) ==
    /\ pc[q] = "mail"
    /\ mail' = [mail EXCEPT ![call[q].email] =
                    @ \cup {[code |-> q, purpose |-> call[q].purpose]}]
    /\ Answer(q, Ok)
    /\ UNCHANGED <<rows, kind, found, history>>

-----------------------------------------------------------------------------
(***************************************************************************)
(* verifyCode                                                              *)
(***************************************************************************)
Known(f) == {m.code : m \in mail[forms[f].person]}

\* The person types a code of their mailbox, of this or another purpose, or a
\* wrong one.
StartVerify(q, f, c) ==
    /\ pc[q] = "idle"
    /\ forms[f].step = "code" /\ forms[f].verifying = NoCall
    /\ c \in Known(f) \cup {Wrong}
    /\ forms' = [forms EXCEPT ![f].verifying = q]
    /\ call' = [call EXCEPT ![q] = [op |-> "verify", form |-> f, email |-> forms[f].email,
                                    purpose |-> forms[f].purpose, code |-> c]]
    /\ pc' = [pc EXCEPT ![q] = "find"]
    /\ UNCHANGED <<server, now, found, history>>

\* Verifications that have read a row and not yet written what follows.
Comparing(id) == {q \in Requests : pc[q] \in {"count", "use"} /\ found[q].id = id}

\* Mutant: the row is looked for without its address.
UnusedAnyEmail(a) == {id \in Live : rows[id].purpose = a.purpose /\ ~rows[id].isUsed}

Unused(a) == {id \in RowsOf(a) : ~rows[id].isUsed}

\* Mutant: an off-by-one in the number of guesses.
GuessableOnceMore(id) == now <= rows[id].createdAt + CodeLife /\ rows[id].failCount <= MaxFail

Guessable(id) == now <= rows[id].createdAt + CodeLife /\ rows[id].failCount < MaxFail

\* findOne without an order, the checks of the row it read, and the comparison.
FindCode(q) ==
    /\ pc[q] = "find"
    /\ LET a == AddressOf(call[q]) IN
       \/ /\ Unused(a) = {}
          /\ Answer(q, Failed)
          /\ UNCHANGED <<found, raced>>
       \/ \E id \in Unused(a) :
            IF Guessable(id)
            THEN /\ Continue(q, IF call[q].code = id THEN "use" ELSE "count")
                 /\ found' = [found EXCEPT ![q] = [id |-> id, failCount |-> rows[id].failCount]]
                 /\ raced' = IF Comparing(id) = {} THEN raced ELSE raced \cup {id}
            ELSE Answer(q, Failed) /\ UNCHANGED <<found, raced>>
    /\ UNCHANGED <<server, crossed, misses, issued, proofs>>

\* A row that was deleted meanwhile is not updated.
Update(id, row) == rows' = IF id \in Live THEN [rows EXCEPT ![id] = row] ELSE rows

\* Mutant: the wrong guess is answered before it is counted.
CountNothing(q) ==
    /\ pc[q] = "count"
    /\ misses' = [misses EXCEPT ![found[q].id] = @ + 1]
    /\ Answer(q, Failed)
    /\ UNCHANGED <<server, found, crossed, raced, issued, proofs>>

\* A wrong guess: the count that was read, plus one.
CountFailure(q) ==
    LET id == found[q].id IN
    /\ pc[q] = "count"
    /\ Update(id, [rows[id] EXCEPT !.failCount = found[q].failCount + 1])
    /\ misses' = [misses EXCEPT ![id] = @ + 1]
    /\ Answer(q, Failed)
    /\ UNCHANGED <<kind, mail, found, crossed, raced, issued, proofs>>

Signed(q) == [email |-> call[q].email, purpose |-> call[q].purpose, iat |-> now]

\* Mutant: a code that was right may be used again.
KeepCode(q) ==
    /\ pc[q] = "use"
    /\ issued' = [issued EXCEPT ![found[q].id] = @ + 1]
    /\ Answer(q, Signed(q))
    /\ UNCHANGED <<server, found, crossed, raced, misses, proofs>>

\* The right code: it is used up, and its address has a token.
UseCode(q) ==
    LET id == found[q].id IN
    /\ pc[q] = "use"
    /\ Update(id, [rows[id] EXCEPT !.isUsed = TRUE])
    /\ issued' = [issued EXCEPT ![id] = @ + 1]
    /\ Answer(q, Signed(q))
    /\ UNCHANGED <<kind, mail, found, crossed, raced, misses, proofs>>

\* A statement or the sending of the mail fails: the call ends where it stands.
Fail(q) ==
    /\ pc[q] \notin {"idle", "done"}
    /\ Answer(q, Failed)
    /\ UNCHANGED <<server, found, history>>

-----------------------------------------------------------------------------
(***************************************************************************)
(* The form                                                                *)
(***************************************************************************)
\* The client's timeout of fifteen seconds: an error for the form, while the
\* server goes on with the call.
GiveUp(f) ==
    /\ \/ /\ forms[f].sending # NoCall
          /\ forms' = [forms EXCEPT ![f].sending = NoCall]
       \/ /\ forms[f].verifying # NoCall
          /\ forms' = [forms EXCEPT ![f].verifying = NoCall]
    /\ UNCHANGED <<server, now, pc, call, found, history>>

\* validateVerificationToken; a token is not used up.
Valid(token, p) == now < token.iat + TokenLife /\ token.purpose = p

\* The last page of the form: signup creates the user of a new address,
\* resetPassword sets the password of one that has a password.
UseToken(f) ==
    LET t == forms[f].token IN
    /\ forms[f].step = "done"
    /\ Valid(t, forms[f].purpose)
    /\ \/ t.purpose = "SIGNUP" /\ t.email = forms[f].email /\ kind[t.email] = "none"
       \/ t.purpose = "RESET_PASSWORD" /\ kind[t.email] = "password"
    /\ kind' = [kind EXCEPT ![t.email] = "password"]
    /\ proofs' = proofs \cup {[person |-> forms[f].person, email |-> t.email, purpose |-> t.purpose]}
    /\ forms' = [forms EXCEPT ![f].step = "left"]
    /\ UNCHANGED <<rows, mail, now, pc, call, found, crossed, raced, misses, issued>>

Tick ==
    /\ now < MaxClock
    /\ now' = now + 1
    /\ UNCHANGED <<server, forms, pc, call, found, history>>

-----------------------------------------------------------------------------
Begin(q) == \E f \in Forms :
    \/ \E e \in Emails : StartSend(q, f, e)
    \/ \E c \in Keys \cup {Wrong} : StartVerify(q, f, c)

Advance(q) ==
    \/ CheckDailyLimit(q) \/ DeleteCodes(q) \/ SaveCode(q) \/ SendMail(q)
    \/ FindCode(q) \/ CountFailure(q) \/ UseCode(q)

\* A behaviour may end once no request is running.
Quiet == (\A q \in Requests : pc[q] \in {"idle", "done"}) /\ UNCHANGED vars

Next == \/ \E q \in Requests : Begin(q) \/ Advance(q) \/ Fail(q)
        \/ \E f \in Forms : GiveUp(f) \/ UseToken(f)
        \/ Tick \/ Quiet

Spec == Init /\ [][Next]_vars

-----------------------------------------------------------------------------
(***************************************************************************)
(* Properties                                                              *)
(***************************************************************************)

\* Every table, form and request has a value of its kind; no count of failures
\* passes the limit.
TypeOK ==
    /\ rows \in [Keys -> Row \cup {NoRow}]
    /\ kind \in [Emails -> {"none", "google", "password"}]
    /\ mail \in [Emails -> SUBSET Mail]
    /\ now \in 0..MaxClock
    /\ forms \in [Forms -> Form]
    /\ pc \in [Requests -> PC]
    /\ call \in [Requests -> Call \cup {NoCall}]
    /\ found \in [Requests -> Found \cup {NoRow}]
    /\ crossed \subseteq Address
    /\ raced \subseteq Keys
    /\ misses \in [Keys -> Nat]
    /\ issued \in [Keys -> Nat]
    /\ proofs \subseteq Proof

\* An address has one code, unless two calls had both deleted the old codes
\* before either saved its own; a send after that leaves one again
\* (email-verification.service.ts:53-68).
OneLiveCode == \A a \in Address : a \notin crossed => Cardinality(RowsOf(a)) <= 1

\* A code brings one token, unless two guesses of it were compared at once
\* (email-verification.service.ts:85-111).
OneTokenPerCode == \A id \in Keys \ raced : issued[id] <= 1

\* A code outlives MaxFail wrong guesses at most, and its row says how many,
\* unless two guesses of it were compared at once
\* (email-verification.service.ts:97-107).
EveryMissCounts ==
    \A id \in Keys \ raced : /\ misses[id] <= MaxFail
                             /\ id \in Live => rows[id].failCount = misses[id]

\* Who has an account made for an address, or its password reset, has read a
\* mail to that address for that purpose: whatever is mistyped, given up,
\* repeated or answered late (auth.service.ts:52-65, auth-password.service.ts:34-41).
OnlyTheReaderProves ==
    \A p \in proofs : /\ p.person = p.email
                      /\ \E m \in mail[p.email] : m.purpose = p.purpose
=============================================================================
