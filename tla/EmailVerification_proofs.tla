---------------------- MODULE EmailVerification_proofs ----------------------
(***************************************************************************)
(* Proofs about EmailVerification, for every number of requests, forms and *)
(* addresses and every limit.                                              *)
(*                                                                         *)
(* The inductive invariant follows a code from the request that saves it,  *)
(* by the mail that brings it to a person, to the guess, the token and the *)
(* use of the token (MailOK to ProofOK), and says of a code that no two    *)
(* guesses have met on how its row and its guess agree (RaceOK).           *)
(***************************************************************************)
EXTENDS EmailVerification, TLAPS, FiniteSetTheorems

\* The handler of a statement.
CallOK ==
    \A q \in Requests :
        /\ pc[q] = "idle" <=> call[q] = NoCall
        /\ pc[q] \in {"limit", "delete", "save", "mail"} => call[q].op = "send"
        /\ pc[q] \in {"find", "count", "use"} => call[q].op = "verify"
        /\ pc[q] \in {"count", "use"} => found[q] # NoRow

\* A form waits for its own calls.
FormOK ==
    \A f \in Forms :
        /\ \A q \in Requests : forms[f].sending = q =>
              call[q] # NoCall /\ call[q].op = "send" /\ call[q].form = f
        /\ \A q \in Requests : forms[f].verifying = q =>
              call[q] # NoCall /\ call[q].op = "verify" /\ call[q].form = f
        /\ forms[f].step = "code" => forms[f].email # NoCall

\* A key is new until its request has saved the row, which is the row of its call.
KeyOK ==
    \A q \in Requests :
        /\ pc[q] \in {"idle", "limit", "delete", "save"} =>
              /\ rows[q] = NoRow /\ q \notin raced /\ misses[q] = 0 /\ issued[q] = 0
              /\ \A p \in Requests : pc[p] \in {"count", "use"} => found[p].id # q
        /\ rows[q] # NoRow => /\ call[q] # NoCall /\ call[q].op = "send"
                              /\ AddressOf(rows[q]) = AddressOf(call[q])

\* A mail brings the code of a request to the address it named.
MailOK ==
    \A e \in Emails : \A m \in mail[e] :
        /\ call[m.code] # NoCall /\ call[m.code].op = "send"
        /\ call[m.code].email = e /\ call[m.code].purpose = m.purpose

\* Who types a code has read it.
Reader(q) == forms[call[q].form].person

CodeOK ==
    \A q \in Requests : call[q] # NoCall /\ call[q].op = "verify" /\ call[q].code # Wrong =>
        \E m \in mail[Reader(q)] : m.code = call[q].code

\* A right guess is the reader's.
Read(e, purpose) == \E m \in mail[e] : m.purpose = purpose

UseOK ==
    \A q \in Requests : pc[q] = "use" =>
        Reader(q) = call[q].email /\ Read(call[q].email, call[q].purpose)

TokenOK ==
    \A f \in Forms :
        /\ forms[f].step = "done" => forms[f].token # NoCall
        /\ forms[f].token # NoCall => /\ forms[f].token.email = forms[f].person
                                      /\ Read(forms[f].token.email, forms[f].token.purpose)

ProofOK == \A p \in proofs : p.person = p.email /\ Read(p.email, p.purpose)

\* A code no two guesses have met on.
RaceOK ==
    \A id \in Keys \ raced :
        /\ \A q \in Requests : pc[q] \in {"count", "use"} /\ found[q].id = id =>
              /\ issued[id] = 0 /\ found[q].failCount = misses[id]
              /\ \A p \in Requests : pc[p] \in {"count", "use"} /\ found[p].id = id => p = q
        /\ issued[id] <= 1 /\ misses[id] <= MaxFail
        /\ rows[id] # NoRow => /\ rows[id].failCount = misses[id]
                               /\ issued[id] = 1 => rows[id].isUsed

\* An address of which no two sends have met has one code, and none while one
\* is about to be saved.
SaveOK ==
    \A a \in Address \ crossed :
        /\ \A i, j \in RowsOf(a) : i = j
        /\ \A q \in Saving(a) : RowsOf(a) = {} /\ Saving(a) = {q}

IInv == TypeOK /\ CallOK /\ FormOK /\ KeyOK /\ MailOK
        /\ CodeOK /\ UseOK /\ TokenOK /\ ProofOK /\ RaceOK /\ SaveOK

-----------------------------------------------------------------------------
(* The data.                                                                *)

\* The fields of a call.
LEMMA CallFields ==
    ASSUME NEW c \in Call
    PROVE  /\ c.op \in {"send", "verify"} /\ c.form \in Forms /\ c.email \in Emails
           /\ c.purpose \in Purposes /\ AddressOf(c) \in Address
           /\ c.op = "verify" => c.code \in Keys \cup {Wrong}
BY DEF Call, AddressOf, Address, Purposes

LEMMA CallOf ==
    ASSUME TypeOK, CallOK, NEW q \in Requests, pc[q] # "idle"
    PROVE  call[q] \in Call
BY DEF TypeOK, CallOK

LEMMA SameAddress ==
    ASSUME NEW c, NEW d
    PROVE  AddressOf(c) = AddressOf(d) <=> c.email = d.email /\ c.purpose = d.purpose
BY DEF AddressOf

\* A call that answers without a token changes no token.
LEMMA AnsweredNo ==
    ASSUME TypeOK, CallOK, FormOK, NEW q \in Requests, pc[q] # "idle", NEW r \in {Ok, Failed},
           r = Ok => call[q].op = "send", Answer(q, r)
    PROVE  /\ pc' = [pc EXCEPT ![q] = "done"] /\ UNCHANGED <<now, call>>
           /\ forms' \in [Forms -> Form]
           /\ \A f \in Forms : /\ forms'[f].person = forms[f].person
                               /\ forms'[f].purpose = forms[f].purpose
                               /\ forms'[f].token = forms[f].token
                               /\ forms'[f].step = "done" => forms[f].step = "done"
                               /\ forms'[f].sending \in {forms[f].sending, NoCall}
                               /\ forms'[f].verifying \in {forms[f].verifying, NoCall}
                               /\ forms'[f].step = "code" => forms'[f].email # NoCall
<1> DEFINE g == call[q].form
<1>1. call[q] \in Call /\ g \in Forms /\ call[q].email \in Emails /\ forms[g] \in Form
  BY CallOf, CallFields DEF TypeOK
<1>2. pc' = [pc EXCEPT ![q] = "done"] /\ UNCHANGED <<now, call>>
  BY DEF Answer
<1>3. CASE forms[g].sending = q
  <2>1. forms[g].verifying # q
    BY <1>1, <1>3 DEF FormOK
  <2>2. forms' = [forms EXCEPT ![g] = SendAnswered(forms[g], call[q].email, r)]
    BY <1>3, <2>1 DEF Answer
  <2>3. LET n == SendAnswered(forms[g], call[q].email, r) IN
          /\ n \in Form /\ n.person = forms[g].person /\ n.purpose = forms[g].purpose
          /\ n.token = forms[g].token /\ (n.step = "done" => forms[g].step = "done")
          /\ n.sending = NoCall /\ n.verifying = forms[g].verifying
          /\ n.step = "code" => n.email # NoCall
    BY <1>1, EmailNulls DEF SendAnswered, Form, FormOK
  <2> QED BY <1>1, <1>2, <2>2, <2>3 DEF TypeOK, FormOK
<1>4. CASE forms[g].sending # q /\ forms[g].verifying = q
  <2>1. forms' = [forms EXCEPT ![g] = VerifyAnswered(forms[g], r)] /\ r = Failed
    BY <1>1, <1>4 DEF Answer, FormOK
  <2>2. VerifyAnswered(forms[g], r) = [forms[g] EXCEPT !.verifying = NoCall]
    BY <2>1, <1>1 DEF VerifyAnswered, Form
  <2>3. LET n == VerifyAnswered(forms[g], r) IN
          /\ n \in Form /\ n.person = forms[g].person /\ n.purpose = forms[g].purpose
          /\ n.token = forms[g].token /\ n.step = forms[g].step
          /\ n.sending = forms[g].sending /\ n.verifying = NoCall
          /\ n.email = forms[g].email
    BY <2>2, <1>1 DEF Form
  <2> QED BY <1>1, <1>2, <2>1, <2>3 DEF TypeOK, FormOK
<1>5. CASE forms[g].sending # q /\ forms[g].verifying # q
  <2>1. forms' = forms
    BY <1>5 DEF Answer
  <2> QED BY <1>2, <2>1 DEF TypeOK, FormOK
<1> QED BY <1>3, <1>4, <1>5

\* A right guess gives its form a token, if the form still waits.
LEMMA AnsweredToken ==
    ASSUME TypeOK, CallOK, FormOK, NEW q \in Requests, pc[q] # "idle", NEW r \in Token,
           call[q].op = "verify", Answer(q, r)
    PROVE  /\ pc' = [pc EXCEPT ![q] = "done"] /\ UNCHANGED <<now, call>>
           /\ forms' \in [Forms -> Form]
           /\ \A f \in Forms :
                 /\ forms'[f].person = forms[f].person
                 /\ forms'[f].purpose = forms[f].purpose
                 /\ forms'[f].sending \in {forms[f].sending, NoCall}
                 /\ forms'[f].verifying \in {forms[f].verifying, NoCall}
                 /\ forms'[f].step = "code" => forms'[f].email # NoCall
                 /\ \/ forms'[f].token = forms[f].token /\ forms'[f].step = forms[f].step
                    \/ f = call[q].form /\ forms'[f].token = r
<1> DEFINE g == call[q].form
<1>1. call[q] \in Call /\ g \in Forms /\ forms[g] \in Form
  BY CallOf, CallFields DEF TypeOK
<1>2. pc' = [pc EXCEPT ![q] = "done"] /\ UNCHANGED <<now, call>>
  BY DEF Answer
<1>3. forms[g].sending # q
  BY <1>1 DEF FormOK
<1>4. CASE forms[g].verifying = q
  <2>1. forms' = [forms EXCEPT ![g] = VerifyAnswered(forms[g], r)] /\ r # Failed
    BY <1>3, <1>4, EmailNulls DEF Answer
  <2>2. VerifyAnswered(forms[g], r)
          = [forms[g] EXCEPT !.verifying = NoCall, !.token = r, !.step = "done"]
    BY <2>1, <1>1 DEF VerifyAnswered, Form
  <2>3. LET n == VerifyAnswered(forms[g], r) IN
          /\ n \in Form /\ n.person = forms[g].person /\ n.purpose = forms[g].purpose
          /\ n.token = r /\ n.sending = forms[g].sending /\ n.verifying = NoCall
          /\ n.step = "done"
    BY <2>2, <1>1 DEF Form
  <2> QED BY <1>1, <1>2, <2>1, <2>3 DEF TypeOK, FormOK
<1>5. CASE forms[g].verifying # q
  <2>1. forms' = forms
    BY <1>3, <1>5 DEF Answer
  <2> QED BY <1>2, <2>1 DEF TypeOK, FormOK
<1> QED BY <1>4, <1>5

-----------------------------------------------------------------------------
(* What steps have in common.                                               *)

LEMMA Parts ==
    IInv => /\ TypeOK /\ CallOK /\ FormOK /\ KeyOK /\ MailOK /\ CodeOK
            /\ UseOK /\ TokenOK /\ ProofOK /\ RaceOK /\ SaveOK
BY DEF IInv

\* Calls stay, mails stay, and a form stays its person's.
Grows ==
    /\ \A q \in Requests : call[q] # NoCall => call'[q] = call[q]
    /\ \A e \in Emails : mail[e] \subseteq mail'[e]
    /\ \A f \in Forms : forms'[f].person = forms[f].person

\* So what was read stays read.
LEMMA StillRead ==
    ASSUME IInv, Grows
    PROVE  /\ \A q \in Requests : call[q] # NoCall => Reader(q)' = Reader(q) /\ Reader(q) \in Emails
           /\ \A e \in Emails : \A u : Read(e, u) => Read(e, u)'
           /\ \A e \in Emails : \A m \in mail[e] :
                 /\ m \in mail'[e]
                 /\ call'[m.code] # NoCall /\ call'[m.code].op = "send"
                 /\ call'[m.code].email = e /\ call'[m.code].purpose = m.purpose
<1>1. \A q \in Requests : call[q] # NoCall =>
         call'[q] = call[q] /\ call[q].form \in Forms /\ Reader(q) \in Emails
  BY Parts, CallFields DEF TypeOK, Grows, Reader, Form
<1>2. \A e \in Emails : \A m \in mail[e] : m.code \in Requests
  BY Parts DEF TypeOK, Mail, Keys
<1>3. \A q \in Requests : call[q] # NoCall => Reader(q)' = Reader(q) /\ Reader(q) \in Emails
  BY <1>1 DEF Grows, Reader
<1>4. \A e \in Emails : \A u : Read(e, u) => Read(e, u)'
  BY DEF Grows, Read
<1> QED BY <1>2, <1>3, <1>4, Parts DEF Grows, MailOK

\* A step with no new mail and no new guess.
LEMMA CodesKept ==
    ASSUME IInv, Grows, UNCHANGED mail,
           \A q \in Requests :
              call[q] # NoCall \/ call'[q] = NoCall \/ call'[q].op = "send"
    PROVE  MailOK' /\ CodeOK'
<1>1. MailOK'
  BY StillRead DEF MailOK
<1>2. CodeOK'
  <2> SUFFICES ASSUME NEW q \in Requests, call'[q] # NoCall, call'[q].op = "verify",
                      call'[q].code # Wrong
               PROVE  \E m \in mail'[Reader(q)'] : m.code = call'[q].code
    BY DEF CodeOK
  <2>1. call[q] # NoCall /\ call'[q] = call[q]
    BY DEF Grows
  <2> QED BY <2>1, StillRead, Parts DEF CodeOK
<1> QED BY <1>1, <1>2

\* A step with no new right guess.
LEMMA UsesKept ==
    ASSUME IInv, Grows, \A q \in Requests : pc'[q] = "use" => pc[q] = "use"
    PROVE  UseOK'
<1> SUFFICES ASSUME NEW q \in Requests, pc[q] = "use"
             PROVE  (Reader(q) = call[q].email /\ Read(call[q].email, call[q].purpose))'
  BY DEF UseOK, Reader, Read
<1>1. call[q] # NoCall /\ call'[q] = call[q]
  BY Parts DEF CallOK, Grows
<1> QED BY <1>1, StillRead, Parts DEF UseOK, Read

\* A step with no new token and no new use of one.
LEMMA TokensKept ==
    ASSUME IInv, Grows, UNCHANGED proofs,
           \A f \in Forms : /\ forms'[f].token = forms[f].token
                            /\ forms'[f].step = "done" => forms[f].step = "done"
    PROVE  TokenOK' /\ ProofOK'
<1>1. TokenOK'
  <2>1. \A f \in Forms : forms[f].token # NoCall => forms[f].token.email \in Emails
    <3>1. \A f \in Forms : forms[f] \in Form
      BY Parts DEF TypeOK
    <3> QED BY <3>1 DEF Form, Token
  <2> QED BY <2>1, StillRead, Parts DEF TokenOK, Read, Grows
<1>2. ProofOK'
  <2>1. \A p \in proofs : p.email \in Emails
    BY Parts DEF TypeOK, Proof
  <2> QED BY <2>1, StillRead, Parts DEF ProofOK
<1> QED BY <1>1, <1>2

\* A step with nothing new that is read, typed or proved.
LEMMA ReadersKept ==
    ASSUME IInv, Grows, UNCHANGED <<mail, proofs>>,
           \A q \in Requests :
              /\ pc'[q] = "use" => pc[q] = "use"
              /\ call[q] # NoCall \/ call'[q] = NoCall \/ call'[q].op = "send",
           \A f \in Forms : /\ forms'[f].token = forms[f].token
                            /\ forms'[f].step = "done" => forms[f].step = "done"
    PROVE  MailOK' /\ CodeOK' /\ UseOK' /\ TokenOK' /\ ProofOK'
BY CodesKept, UsesKept, TokensKept

\* A step that touches no row, and leaves guesses and sends where they are or
\* ends them.
LEMMA RowsKept ==
    ASSUME IInv, UNCHANGED <<rows, raced, misses, issued, crossed>>,
           \A q \in Requests :
              /\ call[q] # NoCall => call'[q] = call[q]
              /\ pc'[q] \in {"idle", "limit", "delete", "save"} =>
                    pc[q] \in {"idle", "limit", "delete", "save"}
              /\ pc'[q] = "save" => pc[q] = "save"
              /\ pc'[q] \in {"count", "use"} =>
                    pc[q] \in {"count", "use"} /\ found'[q] = found[q]
    PROVE  KeyOK' /\ RaceOK' /\ SaveOK'
<1>1. KeyOK'
  BY Parts DEF KeyOK
<1>2. RaceOK'
  BY Parts DEF RaceOK
<1>3. SaveOK'
  <2>1. \A a \in Address : RowsOf(a)' = RowsOf(a)
    BY DEF RowsOf, Live
  <2>2. \A a \in Address : Saving(a)' \subseteq Saving(a)
    BY Parts DEF Saving, CallOK
  <2> QED BY <2>1, <2>2, Parts DEF SaveOK
<1> QED BY <1>1, <1>2, <1>3

\* A step that only changes the counts of rows.
LEMMA RowsSameAddress ==
    ASSUME IInv, UNCHANGED <<call, crossed>>,
           \A q \in Requests : pc'[q] = "save" => pc[q] = "save",
           \A i \in Keys : /\ rows'[i] = NoRow <=> rows[i] = NoRow
                           /\ rows[i] # NoRow => AddressOf(rows'[i]) = AddressOf(rows[i])
    PROVE  SaveOK'
<1>1. \A a \in Address : RowsOf(a)' = RowsOf(a)
  BY DEF RowsOf, Live
<1>2. \A a \in Address : Saving(a)' \subseteq Saving(a)
  BY DEF Saving
<1> QED BY <1>1, <1>2, Parts DEF SaveOK

\* An answer leaves the calls of the forms theirs.
LEMMA FormsKept ==
    ASSUME IInv, \A q \in Requests : call[q] # NoCall => call'[q] = call[q],
           \A f \in Forms : /\ forms'[f].sending \in {forms[f].sending, NoCall}
                            /\ forms'[f].verifying \in {forms[f].verifying, NoCall}
                            /\ forms'[f].step = "code" => forms'[f].email # NoCall
    PROVE  FormOK'
<1>1. NoCall \notin Requests
  BY EmailNulls
<1> QED BY <1>1, Parts DEF FormOK

-----------------------------------------------------------------------------
(* Every step keeps the invariant.                                          *)

LEMMA StartSendStep ==
    ASSUME IInv, NEW q \in Requests, NEW f \in Forms, NEW e \in Emails, StartSend(q, f, e)
    PROVE  IInv'
<1> DEFINE c == [op |-> "send", form |-> f, email |-> e, purpose |-> forms[f].purpose]
<1>1. /\ TypeOK /\ CallOK /\ pc[q] = "idle" /\ call[q] = NoCall /\ forms[f] \in Form
      /\ UNCHANGED <<rows, kind, mail, now, found, crossed, raced, misses, issued, proofs>>
  BY Parts DEF StartSend, CallOK, TypeOK, server, history
<1>2. c \in Call /\ c # NoCall
  BY <1>1, EmailNulls DEF Call, Form
<1>3. /\ call' \in [Requests -> Call \cup {NoCall}] /\ call'[q] = c
      /\ \A p \in Requests \ {q} : call'[p] = call[p]
  BY <1>1, <1>2 DEF StartSend, TypeOK
<1>4. /\ pc' \in [Requests -> PC] /\ pc'[q] \in {"limit", "done"}
      /\ \A p \in Requests \ {q} : pc'[p] = pc[p]
  BY <1>1 DEF StartSend, TypeOK, PC
<1>5. LET n == SendAnswered(forms[f], e, Ok) IN
        /\ n \in Form /\ n.person = forms[f].person /\ n.token = forms[f].token
        /\ n.sending = NoCall /\ n.verifying = forms[f].verifying
        /\ n.step = "done" => forms[f].step = "done"
        /\ n.step = "code" => n.email # NoCall
  <2>1. e # NoCall /\ (forms[f].step = "code" => forms[f].email # NoCall)
    BY Parts, EmailNulls DEF FormOK
  <2> QED BY <1>1, <2>1 DEF SendAnswered, Form
<1>6. LET n == [forms[f] EXCEPT !.sending = q] IN
        /\ n \in Form /\ n.person = forms[f].person /\ n.token = forms[f].token
        /\ n.sending = q /\ n.verifying = forms[f].verifying /\ n.step = forms[f].step
        /\ n.step = "code" => n.email # NoCall
  BY <1>1, Parts DEF Form, FormOK
<1>7. \/ forms' = [forms EXCEPT ![f] = SendAnswered(forms[f], e, Ok)]
      \/ forms' = [forms EXCEPT ![f] = [forms[f] EXCEPT !.sending = q]]
  BY DEF StartSend
<1>8. /\ forms' \in [Forms -> Form]
      /\ \A g \in Forms : /\ forms'[g].person = forms[g].person
                          /\ forms'[g].token = forms[g].token
                          /\ forms'[g].step = "done" => forms[g].step = "done"
                          /\ forms'[g].verifying = forms[g].verifying
                          /\ \/ forms'[g].sending \in {forms[g].sending, NoCall}
                             \/ g = f /\ forms'[g].sending = q
                          /\ forms'[g].step = "code" => forms'[g].email # NoCall
  <2>1. \A g \in Forms : forms[g].step = "code" => forms[g].email # NoCall
    BY Parts DEF FormOK
  <2> QED BY <1>1, <1>5, <1>6, <1>7, <2>1 DEF TypeOK
<1>9. TypeOK'
  BY <1>1, <1>3, <1>4, <1>8 DEF TypeOK
<1>10. CallOK'
  BY <1>1, <1>2, <1>3, <1>4 DEF CallOK
<1>11. FormOK'
  BY <1>1, <1>2, <1>3, <1>8, Parts, EmailNulls DEF FormOK
<1>12. KeyOK' /\ RaceOK' /\ SaveOK'
  BY <1>1, <1>3, <1>4, RowsKept
<1>13. Grows
  BY <1>1, <1>3, <1>8 DEF Grows
<1>14. MailOK' /\ CodeOK' /\ UseOK' /\ TokenOK' /\ ProofOK'
  BY <1>1, <1>3, <1>4, <1>8, <1>13, ReadersKept
<1> QED BY <1>9, <1>10, <1>11, <1>12, <1>14 DEF IInv

\* A call that answers without a token leaves what was read, typed and proved.
LEMMA Refused ==
    ASSUME IInv, NEW q \in Requests, pc[q] # "idle", Answer(q, Failed),
           UNCHANGED <<mail, found, proofs>>
    PROVE  /\ UNCHANGED <<now, call>> /\ forms' \in [Forms -> Form]
           /\ pc' \in [Requests -> PC] /\ pc'[q] = "done"
           /\ \A p \in Requests \ {q} : pc'[p] = pc[p]
           /\ CallOK' /\ FormOK'
           /\ MailOK' /\ CodeOK' /\ UseOK' /\ TokenOK' /\ ProofOK'
<1>1. TypeOK /\ CallOK /\ FormOK /\ Ok # Failed
  BY Parts, EmailNulls
<1>2. /\ pc' = [pc EXCEPT ![q] = "done"] /\ UNCHANGED <<now, call>>
      /\ forms' \in [Forms -> Form]
      /\ \A f \in Forms : /\ forms'[f].person = forms[f].person
                          /\ forms'[f].purpose = forms[f].purpose
                          /\ forms'[f].token = forms[f].token
                          /\ forms'[f].step = "done" => forms[f].step = "done"
                          /\ forms'[f].sending \in {forms[f].sending, NoCall}
                          /\ forms'[f].verifying \in {forms[f].verifying, NoCall}
                          /\ forms'[f].step = "code" => forms'[f].email # NoCall
  BY <1>1, AnsweredNo
<1>3. /\ pc' \in [Requests -> PC] /\ pc'[q] = "done"
      /\ \A p \in Requests \ {q} : pc'[p] = pc[p]
  BY <1>1, <1>2 DEF TypeOK, PC
<1>4. CallOK'
  BY <1>1, <1>2, <1>3 DEF CallOK
<1>5. FormOK'
  BY <1>2, FormsKept
<1>6. Grows
  BY <1>2 DEF Grows
<1>7. MailOK' /\ CodeOK' /\ UseOK' /\ TokenOK' /\ ProofOK'
  BY <1>2, <1>3, <1>6, ReadersKept
<1> QED BY <1>2, <1>3, <1>4, <1>5, <1>7

\* A call that answers so and writes nothing.
LEMMA RefusedStep ==
    ASSUME IInv, NEW q \in Requests, pc[q] # "idle", Answer(q, Failed),
           UNCHANGED <<server, found, history>>
    PROVE  IInv'
<1>1. UNCHANGED <<rows, kind, mail, found, crossed, raced, misses, issued, proofs>>
  BY DEF server, history
<1>2. /\ UNCHANGED <<now, call>> /\ forms' \in [Forms -> Form]
      /\ pc' \in [Requests -> PC] /\ pc'[q] = "done"
      /\ \A p \in Requests \ {q} : pc'[p] = pc[p]
      /\ CallOK' /\ FormOK'
      /\ MailOK' /\ CodeOK' /\ UseOK' /\ TokenOK' /\ ProofOK'
  BY <1>1, Refused
<1>3. TypeOK'
  BY <1>1, <1>2, Parts DEF TypeOK
<1>4. KeyOK' /\ RaceOK' /\ SaveOK'
  BY <1>1, <1>2, RowsKept
<1> QED BY <1>2, <1>3, <1>4 DEF IInv

LEMMA CheckDailyLimitStep == ASSUME IInv, NEW q \in Requests, CheckDailyLimit(q) PROVE IInv'
<1>1. /\ TypeOK /\ CallOK /\ pc[q] = "limit"
      /\ UNCHANGED <<rows, kind, mail, found, crossed, raced, misses, issued, proofs>>
  BY Parts DEF CheckDailyLimit, server, history
<1>2. CASE Answer(q, Failed)
  BY <1>1, <1>2, RefusedStep DEF CheckDailyLimit
<1>3. CASE Continue(q, "delete")
  <2>1. UNCHANGED <<now, forms, call>> /\ pc' = [pc EXCEPT ![q] = "delete"]
    BY <1>3 DEF Continue
  <2>2. /\ pc' \in [Requests -> PC] /\ pc'[q] = "delete"
        /\ \A p \in Requests \ {q} : pc'[p] = pc[p]
    BY <1>1, <2>1 DEF TypeOK, PC
  <2>3. TypeOK'
    BY <1>1, <2>1, <2>2 DEF TypeOK
  <2>4. CallOK' /\ FormOK'
    BY <1>1, <2>1, <2>2, Parts DEF CallOK, FormOK
  <2>5. KeyOK' /\ RaceOK' /\ SaveOK'
    BY <1>1, <2>1, <2>2, RowsKept
  <2>6. Grows
    BY <1>1, <2>1 DEF Grows
  <2>7. MailOK' /\ CodeOK' /\ UseOK' /\ TokenOK' /\ ProofOK'
    BY <1>1, <2>1, <2>2, <2>6, ReadersKept
  <2> QED BY <2>3, <2>4, <2>5, <2>7 DEF IInv
<1> QED BY <1>2, <1>3 DEF CheckDailyLimit

LEMMA DeleteCodesStep == ASSUME IInv, NEW q \in Requests, DeleteCodes(q) PROVE IInv'
<1> DEFINE a == AddressOf(call[q])
<1>1. /\ TypeOK /\ CallOK /\ pc[q] = "delete" /\ pc' = [pc EXCEPT ![q] = "save"]
      /\ rows' = [id \in Keys |-> IF id \in RowsOf(a) THEN NoRow ELSE rows[id]]
      /\ crossed' = IF Saving(a) = {} THEN crossed \ {a} ELSE crossed \cup {a}
      /\ UNCHANGED <<kind, mail, now, forms, call, found, raced, misses, issued, proofs>>
  BY Parts DEF DeleteCodes, Continue
<1>2. a \in Address /\ call[q] # NoCall
  BY <1>1, CallOf, CallFields DEF CallOK
<1>3. /\ pc' \in [Requests -> PC] /\ pc'[q] = "save" /\ \A p \in Requests \ {q} : pc'[p] = pc[p]
  BY <1>1 DEF TypeOK, PC
<1>4. rows' \in [Keys -> Row \cup {NoRow}] /\ \A id \in Keys : rows'[id] \in {rows[id], NoRow}
  BY <1>1 DEF TypeOK
<1>5. TypeOK'
  BY <1>1, <1>2, <1>3, <1>4 DEF TypeOK
<1>6. CallOK' /\ FormOK'
  BY <1>1, <1>2, <1>3, Parts DEF CallOK, FormOK
<1>7. KeyOK'
  BY <1>1, <1>3, <1>4, Parts DEF KeyOK, Keys
<1>8. RaceOK'
  BY <1>1, <1>3, <1>4, Parts DEF RaceOK
<1>9. SaveOK'
  <2>1. RowsOf(a)' = {} /\ \A b \in Address : RowsOf(b)' \subseteq RowsOf(b)
    BY <1>1, <1>4 DEF RowsOf, Live
  <2>2. \A b \in Address \ {a} : Saving(b)' = Saving(b)
    BY <1>1, <1>3 DEF Saving
  <2>3. Saving(a)' = Saving(a) \cup {q}
    BY <1>1, <1>3 DEF Saving
  <2>4. CASE Saving(a) = {}
    BY <2>1, <2>2, <2>3, <2>4, <1>1, Parts DEF SaveOK
  <2>5. CASE Saving(a) # {}
    BY <2>1, <2>2, <2>5, <1>1, Parts DEF SaveOK
  <2> QED BY <2>4, <2>5
<1>10. Grows
  BY <1>1 DEF Grows
<1>11. MailOK' /\ CodeOK' /\ UseOK' /\ TokenOK' /\ ProofOK'
  BY <1>1, <1>3, <1>10, ReadersKept
<1> QED BY <1>5, <1>6, <1>7, <1>8, <1>9, <1>11 DEF IInv

LEMMA SaveCodeStep == ASSUME IInv, NEW q \in Requests, SaveCode(q) PROVE IInv'
<1> DEFINE r == [email |-> call[q].email, purpose |-> call[q].purpose,
                 createdAt |-> now, isUsed |-> FALSE, failCount |-> 0]
<1>1. /\ TypeOK /\ CallOK /\ pc[q] = "save" /\ pc' = [pc EXCEPT ![q] = "mail"]
      /\ rows' = [rows EXCEPT ![q] = r]
      /\ UNCHANGED <<kind, mail, now, forms, call, found, crossed, raced, misses, issued, proofs>>
  BY Parts DEF SaveCode, Continue, history
<1>2. /\ call[q] \in Call /\ call[q] # NoCall /\ call[q].op = "send"
      /\ AddressOf(call[q]) \in Address
  BY <1>1, CallOf, CallFields DEF CallOK
<1>3. /\ pc' \in [Requests -> PC] /\ pc'[q] = "mail" /\ \A p \in Requests \ {q} : pc'[p] = pc[p]
  BY <1>1 DEF TypeOK, PC
<1>4. r \in Row /\ AddressOf(r) = AddressOf(call[q]) /\ r # NoRow
  <2>1. now \in 0..MaxClock /\ 0 \in 0..MaxFail
    BY <1>1, EmailBounds DEF TypeOK
  <2>2. call[q].email \in Emails /\ call[q].purpose \in Purposes
    BY <1>2, CallFields
  <2>3. r \in Row
    BY <2>1, <2>2 DEF Row
  <2> QED BY <2>3, EmailNulls DEF AddressOf
<1>5. /\ rows' \in [Keys -> Row \cup {NoRow}] /\ rows'[q] = r
      /\ \A id \in Keys \ {q} : rows'[id] = rows[id]
  BY <1>1, <1>4 DEF TypeOK, Keys
<1>6. TypeOK'
  BY <1>1, <1>3, <1>5 DEF TypeOK
<1>7. CallOK' /\ FormOK'
  BY <1>1, <1>2, <1>3, Parts DEF CallOK, FormOK
<1>8. /\ rows[q] = NoRow /\ q \notin raced /\ misses[q] = 0 /\ issued[q] = 0
      /\ \A p \in Requests : pc[p] \in {"count", "use"} => found[p].id # q
  BY <1>1, Parts DEF KeyOK
<1>9. KeyOK'
  BY <1>1, <1>2, <1>3, <1>4, <1>5, Parts DEF KeyOK, Keys
<1>10. RaceOK'
  <2> SUFFICES ASSUME NEW id \in Keys \ raced
               PROVE  /\ \A p \in Requests : pc'[p] \in {"count", "use"} /\ found'[p].id = id =>
                           /\ issued'[id] = 0 /\ found'[p].failCount = misses'[id]
                           /\ \A o \in Requests : pc'[o] \in {"count", "use"} /\ found'[o].id = id => o = p
                      /\ issued'[id] <= 1 /\ misses'[id] <= MaxFail
                      /\ rows'[id] # NoRow => /\ rows'[id].failCount = misses'[id]
                                              /\ issued'[id] = 1 => rows'[id].isUsed
    BY <1>1 DEF RaceOK
  <2>1. CASE id # q
    BY <2>1, <1>1, <1>3, <1>5, Parts DEF RaceOK
  <2>2. CASE id = q
    <3>1. \A p \in Requests : ~(pc'[p] \in {"count", "use"} /\ found'[p].id = id)
      BY <2>2, <1>1, <1>3, <1>8
    <3>2. issued'[id] = 0 /\ misses'[id] = 0 /\ rows'[id].failCount = 0
      BY <2>2, <1>1, <1>5, <1>8
    <3> QED BY <3>1, <3>2, EmailBounds
  <2> QED BY <2>1, <2>2
<1>11. SaveOK'
  <2> DEFINE a == AddressOf(call[q])
  <2>1. q \in Saving(a) /\ \A b \in Address : Saving(b)' = Saving(b) \ {q}
    BY <1>1, <1>3 DEF Saving
  <2>2. \A b \in Address \ {a} : RowsOf(b)' = RowsOf(b)
    BY <1>1, <1>4, <1>5, <1>8 DEF RowsOf, Live
  <2>3. RowsOf(a)' = RowsOf(a) \cup {q}
    BY <1>1, <1>4, <1>5, <1>8 DEF RowsOf, Live, Keys
  <2>4. a \notin crossed => RowsOf(a) = {} /\ Saving(a) = {q}
    BY <2>1, <1>2, Parts DEF SaveOK
  <2> QED BY <2>1, <2>2, <2>3, <2>4, <1>1, Parts DEF SaveOK
<1>12. Grows
  BY <1>1 DEF Grows
<1>13. MailOK' /\ CodeOK' /\ UseOK' /\ TokenOK' /\ ProofOK'
  BY <1>1, <1>3, <1>12, ReadersKept
<1> QED BY <1>6, <1>7, <1>9, <1>10, <1>11, <1>13 DEF IInv

LEMMA SendMailStep == ASSUME IInv, NEW q \in Requests, SendMail(q) PROVE IInv'
<1> DEFINE m == [code |-> q, purpose |-> call[q].purpose]
<1>1. /\ TypeOK /\ CallOK /\ FormOK /\ pc[q] = "mail" /\ Answer(q, Ok)
      /\ mail' = [mail EXCEPT ![call[q].email] = @ \cup {m}]
      /\ UNCHANGED <<rows, kind, found, crossed, raced, misses, issued, proofs>>
  BY Parts DEF SendMail, history
<1>2. /\ call[q] \in Call /\ call[q] # NoCall /\ call[q].op = "send"
      /\ call[q].email \in Emails /\ call[q].purpose \in Purposes
  BY <1>1, CallOf, CallFields DEF CallOK
<1>3. /\ pc' = [pc EXCEPT ![q] = "done"] /\ UNCHANGED <<now, call>>
      /\ forms' \in [Forms -> Form]
      /\ \A f \in Forms : /\ forms'[f].person = forms[f].person
                          /\ forms'[f].purpose = forms[f].purpose
                          /\ forms'[f].token = forms[f].token
                          /\ forms'[f].step = "done" => forms[f].step = "done"
                          /\ forms'[f].sending \in {forms[f].sending, NoCall}
                          /\ forms'[f].verifying \in {forms[f].verifying, NoCall}
                          /\ forms'[f].step = "code" => forms'[f].email # NoCall
  BY <1>1, <1>2, AnsweredNo
<1>4. /\ pc' \in [Requests -> PC] /\ pc'[q] = "done"
      /\ \A p \in Requests \ {q} : pc'[p] = pc[p]
  BY <1>1, <1>3 DEF TypeOK, PC
<1>5. /\ m \in Mail /\ mail' \in [Emails -> SUBSET Mail]
      /\ \A e \in Emails : /\ mail[e] \subseteq mail'[e]
                           /\ mail'[e] \subseteq mail[e] \cup {m}
                           /\ m \in mail'[e] => m \in mail[e] \/ e = call[q].email
  BY <1>1, <1>2 DEF TypeOK, Mail, Keys
<1>6. TypeOK'
  BY <1>1, <1>3, <1>4, <1>5 DEF TypeOK
<1>7. CallOK'
  BY <1>1, <1>3, <1>4 DEF CallOK
<1>8. FormOK'
  BY <1>3, FormsKept
<1>9. KeyOK' /\ RaceOK' /\ SaveOK'
  BY <1>1, <1>3, <1>4, RowsKept
<1>10. Grows
  BY <1>3, <1>5 DEF Grows
<1>11. MailOK'
  BY <1>2, <1>3, <1>5, Parts DEF MailOK
<1>12. CodeOK'
  BY <1>3, <1>10, StillRead, Parts DEF CodeOK, Grows
<1>13. UseOK' /\ TokenOK' /\ ProofOK'
  BY <1>1, <1>3, <1>4, <1>10, UsesKept, TokensKept
<1> QED BY <1>6, <1>7, <1>8, <1>9, <1>11, <1>12, <1>13 DEF IInv

LEMMA StartVerifyStep ==
    ASSUME IInv, NEW q \in Requests, NEW f \in Forms, NEW c \in Keys \cup {Wrong},
           StartVerify(q, f, c)
    PROVE  IInv'
<1> DEFINE d == [op |-> "verify", form |-> f, email |-> forms[f].email,
                 purpose |-> forms[f].purpose, code |-> c]
           n == [forms[f] EXCEPT !.verifying = q]
<1>1. /\ TypeOK /\ CallOK /\ pc[q] = "idle" /\ call[q] = NoCall /\ forms[f] \in Form
      /\ UNCHANGED <<rows, kind, mail, now, found, crossed, raced, misses, issued, proofs>>
      /\ call' = [call EXCEPT ![q] = d] /\ pc' = [pc EXCEPT ![q] = "find"]
      /\ forms' = [forms EXCEPT ![f] = n]
      /\ c \in Known(f) \cup {Wrong} /\ forms[f].step = "code"
  BY Parts DEF StartVerify, CallOK, TypeOK, server, history
<1>2. forms[f].email \in Emails
  BY <1>1, Parts DEF FormOK, Form
<1>3. d \in Call /\ d # NoCall
  BY <1>1, <1>2, EmailNulls DEF Call, Form
<1>4. /\ call' \in [Requests -> Call \cup {NoCall}] /\ call'[q] = d
      /\ \A p \in Requests \ {q} : call'[p] = call[p]
  BY <1>1, <1>3 DEF TypeOK
<1>5. /\ pc' \in [Requests -> PC] /\ pc'[q] = "find"
      /\ \A p \in Requests \ {q} : pc'[p] = pc[p]
  BY <1>1 DEF TypeOK, PC
<1>6. /\ n \in Form /\ n.person = forms[f].person /\ n.token = forms[f].token
      /\ n.sending = forms[f].sending /\ n.verifying = q /\ n.step = forms[f].step
  BY <1>1 DEF Form
<1>7. /\ forms' \in [Forms -> Form]
      /\ \A g \in Forms : /\ forms'[g].person = forms[g].person
                          /\ forms'[g].token = forms[g].token
                          /\ forms'[g].step = forms[g].step
                          /\ forms'[g].email = forms[g].email
                          /\ forms'[g].sending = forms[g].sending
                          /\ \/ forms'[g].verifying = forms[g].verifying
                             \/ g = f /\ forms'[g].verifying = q
  BY <1>1, <1>6 DEF TypeOK, Form
<1>8. TypeOK'
  BY <1>1, <1>4, <1>5, <1>7 DEF TypeOK
<1>9. CallOK'
  BY <1>1, <1>3, <1>4, <1>5 DEF CallOK
<1>10. FormOK'
  BY <1>1, <1>3, <1>4, <1>7, Parts, EmailNulls DEF FormOK
<1>11. KeyOK' /\ RaceOK' /\ SaveOK'
  BY <1>1, <1>4, <1>5, RowsKept
<1>12. Grows
  BY <1>1, <1>4, <1>7 DEF Grows
<1>13. MailOK'
  BY <1>1, <1>12, StillRead DEF MailOK
<1>14. CodeOK'
  <2> SUFFICES ASSUME NEW p \in Requests, call'[p] # NoCall, call'[p].op = "verify",
                      call'[p].code # Wrong
               PROVE  \E x \in mail'[Reader(p)'] : x.code = call'[p].code
    BY DEF CodeOK
  <2>1. CASE p = q
    <3>1. Reader(p)' = forms[f].person
      BY <2>1, <1>4, <1>7 DEF Reader
    <3> QED BY <2>1, <3>1, <1>1, <1>4 DEF Known
  <2>2. CASE p # q
    BY <2>2, <1>1, <1>4, <1>12, StillRead, Parts DEF CodeOK
  <2> QED BY <2>1, <2>2
<1>15. UseOK' /\ TokenOK' /\ ProofOK'
  BY <1>1, <1>5, <1>7, <1>12, UsesKept, TokensKept
<1> QED BY <1>8, <1>9, <1>10, <1>11, <1>13, <1>14, <1>15 DEF IInv

LEMMA FindCodeStep == ASSUME IInv, NEW q \in Requests, FindCode(q) PROVE IInv'
<1> DEFINE a == AddressOf(call[q])
<1>1. /\ TypeOK /\ CallOK /\ pc[q] = "find"
      /\ UNCHANGED <<rows, kind, mail, crossed, misses, issued, proofs>>
  BY Parts DEF FindCode, server
<1>2. /\ call[q] \in Call /\ call[q] # NoCall /\ call[q].op = "verify"
      /\ call[q].email \in Emails /\ call[q].code \in Keys \cup {Wrong}
  BY <1>1, CallOf, CallFields DEF CallOK
<1>3. CASE Answer(q, Failed) /\ UNCHANGED <<found, raced>>
  BY <1>1, <1>3, RefusedStep DEF server, history
<1>4. ASSUME NEW id \in Unused(a), Guessable(id),
             Continue(q, IF call[q].code = id THEN "use" ELSE "count"),
             found' = [found EXCEPT ![q] = [id |-> id, failCount |-> rows[id].failCount]],
             raced' = IF Comparing(id) = {} THEN raced ELSE raced \cup {id}
      PROVE  IInv'
  <2>1. /\ id \in Keys /\ rows[id] # NoRow /\ rows[id] \in Row
        /\ AddressOf(rows[id]) = a /\ ~rows[id].isUsed
    BY <1>1 DEF Unused, RowsOf, Live, TypeOK
  <2>2. rows[id].failCount \in 0..(MaxFail - 1)
    <3>1. rows[id].failCount \in 0..MaxFail /\ rows[id].failCount < MaxFail /\ MaxFail \in Nat
      BY <2>1, <1>4, EmailBounds DEF Row, Guessable
    <3> QED BY <3>1
  <2>3. /\ UNCHANGED <<now, forms, call>>
        /\ pc' \in [Requests -> PC] /\ pc'[q] \in {"use", "count"}
        /\ pc'[q] = "use" => call[q].code = id
        /\ \A p \in Requests \ {q} : pc'[p] = pc[p]
    BY <1>1, <1>4 DEF Continue, TypeOK, PC
  <2>4. /\ found' \in [Requests -> Found \cup {NoRow}]
        /\ found'[q].id = id /\ found'[q].failCount = rows[id].failCount /\ found'[q] # NoRow
        /\ \A p \in Requests \ {q} : found'[p] = found[p]
    <3>1. [id |-> id, failCount |-> rows[id].failCount] \in Found
      BY <2>1, <2>2 DEF Found
    <3> QED BY <3>1, <1>1, <1>4, EmailNulls DEF TypeOK
  <2>5. TypeOK'
    BY <1>1, <1>4, <2>1, <2>3, <2>4 DEF TypeOK
  <2>6. CallOK' /\ FormOK'
    BY <1>1, <1>2, <2>3, <2>4, Parts DEF CallOK, FormOK
  <2>7. call[id] # NoCall /\ call[id].op = "send" /\ AddressOf(call[id]) = a
    BY <2>1, Parts DEF KeyOK, Keys
  <2>8. KeyOK'
    <3>1. pc[id] \notin {"idle", "limit", "delete", "save"} /\ id # q
      BY <2>1, <2>7, <1>2, Parts DEF KeyOK, Keys
    <3> QED BY <3>1, <1>1, <1>4, <2>3, <2>4, Parts DEF KeyOK
  <2>9. MailOK' /\ CodeOK'
    BY <1>1, <2>3, Parts DEF MailOK, CodeOK, Reader
  <2>10. UseOK'
    <3>1. ASSUME pc'[q] = "use"
          PROVE  Reader(q) = call[q].email /\ Read(call[q].email, call[q].purpose)
      <4>1. call[q].code = id /\ call[q].code # Wrong
        BY <3>1, <2>1, <2>3, EmailNulls
      <4>2. PICK m \in mail[Reader(q)] : m.code = id
        BY <4>1, <1>2, Parts DEF CodeOK
      <4>3. Reader(q) \in Emails
        BY <1>1, <1>2, CallFields DEF Reader, TypeOK, Form
      <4>4. call[id].email = Reader(q) /\ call[id].purpose = m.purpose
        BY <4>2, <4>3, Parts DEF MailOK
      <4> QED BY <4>2, <4>4, <2>7, SameAddress DEF Read
    <3>2. \A p \in Requests \ {q} : pc'[p] = "use" =>
             Reader(p) = call[p].email /\ Read(call[p].email, call[p].purpose)
      BY <2>3, Parts DEF UseOK
    <3> QED BY <3>1, <3>2, <1>1, <2>3 DEF UseOK, Reader, Read
  <2>11. TokenOK' /\ ProofOK'
    BY <1>1, <2>3, Parts DEF TokenOK, ProofOK, Read
  <2>12. RaceOK'
    <3> SUFFICES ASSUME NEW i \in Keys \ raced'
                 PROVE  /\ \A p \in Requests : pc'[p] \in {"count", "use"} /\ found'[p].id = i =>
                             /\ issued[i] = 0 /\ found'[p].failCount = misses[i]
                             /\ \A o \in Requests :
                                   pc'[o] \in {"count", "use"} /\ found'[o].id = i => o = p
                        /\ issued[i] <= 1 /\ misses[i] <= MaxFail
                        /\ rows[i] # NoRow => /\ rows[i].failCount = misses[i]
                                              /\ issued[i] = 1 => rows[i].isUsed
      BY <1>1 DEF RaceOK
    <3>1. i \in Keys \ raced /\ (i = id => Comparing(id) = {})
      BY <1>4
    <3>2. CASE i # id
      BY <3>1, <3>2, <1>1, <2>3, <2>4, Parts DEF RaceOK
    <3>3. CASE i = id
      <4>1. \A p \in Requests : pc'[p] \in {"count", "use"} /\ found'[p].id = id => p = q
        BY <3>1, <3>3, <2>3 , <2>4 DEF Comparing
      <4>2. issued[id] = 0 /\ rows[id].failCount = misses[id]
        <5>1. issued[id] \in Nat /\ issued[id] <= 1 /\ issued[id] # 1
          BY <3>1, <3>3, <2>1, <1>1, Parts DEF RaceOK, TypeOK
        <5> QED BY <5>1, <3>1, <3>3, <2>1, Parts DEF RaceOK
      <4> QED BY <4>1, <4>2, <3>1, <3>3, <2>4, Parts DEF RaceOK
    <3> QED BY <3>2, <3>3
  <2>13. SaveOK'
    <3>1. \A b \in Address : RowsOf(b)' = RowsOf(b)
      BY <1>1 DEF RowsOf, Live
    <3>2. \A b \in Address : Saving(b)' = Saving(b)
      BY <1>1, <2>3 DEF Saving
    <3> QED BY <3>1, <3>2, <1>1, Parts DEF SaveOK
  <2> QED BY <2>5, <2>6, <2>8, <2>9, <2>10, <2>11, <2>12, <2>13 DEF IInv
<1> QED BY <1>3, <1>4 DEF FindCode

LEMMA CountFailureStep == ASSUME IInv, NEW q \in Requests, CountFailure(q) PROVE IInv'
<1> DEFINE id == found[q].id
<1>1. /\ TypeOK /\ CallOK /\ pc[q] = "count" /\ Answer(q, Failed)
      /\ Update(id, [rows[id] EXCEPT !.failCount = found[q].failCount + 1])
      /\ misses' = [misses EXCEPT ![id] = @ + 1]
      /\ UNCHANGED <<kind, mail, found, crossed, raced, issued, proofs>>
  BY Parts DEF CountFailure
<1>2. /\ id \in Keys /\ found[q].failCount \in 0..(MaxFail - 1) /\ found[q].failCount + 1 \in 0..MaxFail
  <2>1. found[q] \in Found
    BY <1>1 DEF TypeOK, CallOK
  <2>2. id \in Keys /\ found[q].failCount \in 0..(MaxFail - 1)
    BY <2>1 DEF Found
  <2> QED BY <2>2, EmailBounds
<1>3. /\ UNCHANGED <<now, call>> /\ forms' \in [Forms -> Form]
      /\ pc' \in [Requests -> PC] /\ pc'[q] = "done"
      /\ \A p \in Requests \ {q} : pc'[p] = pc[p]
      /\ CallOK' /\ FormOK'
      /\ MailOK' /\ CodeOK' /\ UseOK' /\ TokenOK' /\ ProofOK'
  BY <1>1, Refused
<1>4. /\ misses' \in [Keys -> Nat] /\ misses'[id] = misses[id] + 1
      /\ \A i \in Keys \ {id} : misses'[i] = misses[i]
  BY <1>1, <1>2 DEF TypeOK
<1>5. /\ rows' \in [Keys -> Row \cup {NoRow}]
      /\ \A i \in Keys : /\ rows'[i] = NoRow <=> rows[i] = NoRow
                         /\ rows[i] # NoRow => AddressOf(rows'[i]) = AddressOf(rows[i])
                         /\ i # id => rows'[i] = rows[i]
      /\ rows[id] # NoRow => /\ rows'[id].failCount = found[q].failCount + 1
                             /\ rows'[id].isUsed = rows[id].isUsed
  <2>1. CASE rows[id] = NoRow
    BY <2>1, <1>1 DEF Update, Live, TypeOK
  <2>2. CASE rows[id] # NoRow
    <3> DEFINE n == [rows[id] EXCEPT !.failCount = found[q].failCount + 1]
    <3>1. rows' = [rows EXCEPT ![id] = n] /\ rows[id] \in Row
      BY <2>2, <1>1, <1>2 DEF Update, Live, TypeOK
    <3>2. /\ n \in Row /\ AddressOf(n) = AddressOf(rows[id])
          /\ n.failCount = found[q].failCount + 1 /\ n.isUsed = rows[id].isUsed
      BY <3>1, <1>2 DEF Row, AddressOf
    <3> QED BY <3>1, <3>2, <2>2, <1>1, <1>2, EmailNulls DEF TypeOK
  <2> QED BY <2>1, <2>2
<1>6. TypeOK'
  BY <1>1, <1>3, <1>4, <1>5 DEF TypeOK
<1>7. KeyOK'
  <2>1. pc[q] \in {"count", "use"} /\ id \in Requests
    BY <1>1, <1>2 DEF Keys
  <2>2. pc[id] \notin {"idle", "limit", "delete", "save"}
    BY <2>1, Parts DEF KeyOK
  <2> QED BY <2>2, <1>1, <1>3, <1>4, <1>5, Parts DEF KeyOK, Keys
<1>8. RaceOK'
  <2> SUFFICES ASSUME NEW i \in Keys \ raced
               PROVE  /\ \A p \in Requests : pc'[p] \in {"count", "use"} /\ found[p].id = i =>
                           /\ issued[i] = 0 /\ found[p].failCount = misses'[i]
                           /\ \A o \in Requests :
                                 pc'[o] \in {"count", "use"} /\ found[o].id = i => o = p
                      /\ issued[i] <= 1 /\ misses'[i] <= MaxFail
                      /\ rows'[i] # NoRow => /\ rows'[i].failCount = misses'[i]
                                             /\ issued[i] = 1 => rows'[i].isUsed
    BY <1>1 DEF RaceOK
  <2>1. CASE i # id
    BY <2>1, <1>3, <1>4, <1>5, Parts DEF RaceOK
  <2>2. CASE i = id
    <3>1. /\ issued[id] = 0 /\ found[q].failCount = misses[id]
          /\ \A p \in Requests : pc[p] \in {"count", "use"} /\ found[p].id = id => p = q
      BY <2>2, <1>1, Parts DEF RaceOK
    <3>2. \A p \in Requests : ~(pc'[p] \in {"count", "use"} /\ found[p].id = id)
      BY <3>1, <1>3
    <3>3. misses'[id] = found[q].failCount + 1 /\ misses'[id] <= MaxFail
      BY <3>1, <1>2, <1>4, EmailBounds
    <3> QED BY <2>2, <3>1, <3>2, <3>3, <1>5
  <2> QED BY <2>1, <2>2
<1>9. SaveOK'
  BY <1>1, <1>3, <1>5, RowsSameAddress
<1> QED BY <1>3, <1>6, <1>7, <1>8, <1>9 DEF IInv

LEMMA UseCodeStep == ASSUME IInv, NEW q \in Requests, UseCode(q) PROVE IInv'
<1> DEFINE id == found[q].id
           t  == Signed(q)
           g  == call[q].form
<1>1. /\ TypeOK /\ CallOK /\ FormOK /\ pc[q] = "use" /\ Answer(q, t)
      /\ Update(id, [rows[id] EXCEPT !.isUsed = TRUE])
      /\ issued' = [issued EXCEPT ![id] = @ + 1]
      /\ UNCHANGED <<kind, mail, found, crossed, raced, misses, proofs>>
  BY Parts DEF UseCode
<1>2. id \in Keys
  <2>1. found[q] \in Found
    BY <1>1 DEF TypeOK, CallOK
  <2> QED BY <2>1 DEF Found
<1>3. /\ call[q] \in Call /\ call[q] # NoCall /\ call[q].op = "verify"
      /\ call[q].email \in Emails /\ call[q].purpose \in Purposes /\ g \in Forms
  BY <1>1, CallOf, CallFields DEF CallOK
<1>4. t \in Token /\ t.email = call[q].email /\ t.purpose = call[q].purpose /\ t # NoCall
  <2>1. t \in Token
    BY <1>1, <1>3 DEF Signed, Token, TypeOK
  <2> QED BY <2>1, EmailNulls DEF Signed
<1>5. /\ pc' = [pc EXCEPT ![q] = "done"] /\ UNCHANGED <<now, call>>
      /\ forms' \in [Forms -> Form]
      /\ \A f \in Forms :
            /\ forms'[f].person = forms[f].person
            /\ forms'[f].purpose = forms[f].purpose
            /\ forms'[f].sending \in {forms[f].sending, NoCall}
            /\ forms'[f].verifying \in {forms[f].verifying, NoCall}
            /\ forms'[f].step = "code" => forms'[f].email # NoCall
            /\ \/ forms'[f].token = forms[f].token /\ forms'[f].step = forms[f].step
               \/ f = g /\ forms'[f].token = t
  BY <1>1, <1>3, <1>4, AnsweredToken
<1>6. /\ pc' \in [Requests -> PC] /\ pc'[q] = "done"
      /\ \A p \in Requests \ {q} : pc'[p] = pc[p]
  BY <1>1, <1>5 DEF TypeOK, PC
<1>7. /\ issued' \in [Keys -> Nat] /\ issued'[id] = issued[id] + 1
      /\ \A i \in Keys \ {id} : issued'[i] = issued[i]
  BY <1>1, <1>2 DEF TypeOK
<1>8. /\ rows' \in [Keys -> Row \cup {NoRow}]
      /\ \A i \in Keys : /\ rows'[i] = NoRow <=> rows[i] = NoRow
                         /\ rows[i] # NoRow => AddressOf(rows'[i]) = AddressOf(rows[i])
                         /\ i # id => rows'[i] = rows[i]
      /\ rows[id] # NoRow => /\ rows'[id].failCount = rows[id].failCount
                             /\ rows'[id].isUsed
  <2>1. CASE rows[id] = NoRow
    BY <2>1, <1>1 DEF Update, Live, TypeOK
  <2>2. CASE rows[id] # NoRow
    <3> DEFINE n == [rows[id] EXCEPT !.isUsed = TRUE]
    <3>1. rows' = [rows EXCEPT ![id] = n] /\ rows[id] \in Row
      BY <2>2, <1>1, <1>2 DEF Update, Live, TypeOK
    <3>2. /\ n \in Row /\ AddressOf(n) = AddressOf(rows[id])
          /\ n.failCount = rows[id].failCount /\ n.isUsed
      BY <3>1 DEF Row, AddressOf
    <3> QED BY <3>1, <3>2, <2>2, <1>1, <1>2, EmailNulls DEF TypeOK
  <2> QED BY <2>1, <2>2
<1>9. TypeOK'
  BY <1>1, <1>5, <1>6, <1>7, <1>8 DEF TypeOK
<1>10. CallOK'
  BY <1>1, <1>5, <1>6 DEF CallOK
<1>11. FormOK'
  BY <1>5, FormsKept
<1>12. KeyOK'
  <2>1. pc[q] \in {"count", "use"} /\ id \in Requests
    BY <1>1, <1>2 DEF Keys
  <2>2. pc[id] \notin {"idle", "limit", "delete", "save"}
    BY <2>1, Parts DEF KeyOK
  <2> QED BY <2>2, <1>1, <1>5, <1>6, <1>7, <1>8, Parts DEF KeyOK, Keys
<1>13. Grows
  BY <1>1, <1>5 DEF Grows
<1>14. MailOK' /\ CodeOK'
  BY <1>1, <1>5, <1>13, CodesKept
<1>15. UseOK'
  BY <1>5, <1>6, <1>13, UsesKept
<1>16. TokenOK'
  <2>1. forms[g].person = call[q].email /\ Read(call[q].email, call[q].purpose)
    BY <1>1, Parts DEF UseOK, Reader
  <2> QED BY <2>1, <1>1, <1>4, <1>5, Parts DEF TokenOK, Read
<1>17. ProofOK'
  BY <1>1, Parts DEF ProofOK, Read
<1>18. RaceOK'
  <2> SUFFICES ASSUME NEW i \in Keys \ raced
               PROVE  /\ \A p \in Requests : pc'[p] \in {"count", "use"} /\ found[p].id = i =>
                           /\ issued'[i] = 0 /\ found[p].failCount = misses[i]
                           /\ \A o \in Requests :
                                 pc'[o] \in {"count", "use"} /\ found[o].id = i => o = p
                      /\ issued'[i] <= 1 /\ misses[i] <= MaxFail
                      /\ rows'[i] # NoRow => /\ rows'[i].failCount = misses[i]
                                             /\ issued'[i] = 1 => rows'[i].isUsed
    BY <1>1 DEF RaceOK
  <2>1. CASE i # id
    BY <2>1, <1>6, <1>7, <1>8, Parts DEF RaceOK
  <2>2. CASE i = id
    <3>1. /\ issued[id] = 0
          /\ \A p \in Requests : pc[p] \in {"count", "use"} /\ found[p].id = id => p = q
      BY <2>2, <1>1, Parts DEF RaceOK
    <3>2. \A p \in Requests : ~(pc'[p] \in {"count", "use"} /\ found[p].id = id)
      BY <3>1, <1>6
    <3>3. issued'[id] = 1
      BY <3>1, <1>7
    <3>4. misses[id] <= MaxFail /\ (rows[id] # NoRow => rows[id].failCount = misses[id])
      BY <2>2, Parts DEF RaceOK
    <3> QED BY <2>2, <3>2, <3>3, <3>4, <1>8
  <2> QED BY <2>1, <2>2
<1>19. SaveOK'
  BY <1>1, <1>5, <1>6, <1>8, RowsSameAddress
<1> QED BY <1>9, <1>10, <1>11, <1>12, <1>14, <1>15, <1>16, <1>17, <1>18,
          <1>19 DEF IInv

LEMMA FailStep == ASSUME IInv, NEW q \in Requests, Fail(q) PROVE IInv'
BY RefusedStep DEF Fail

LEMMA GiveUpStep == ASSUME IInv, NEW f \in Forms, GiveUp(f) PROVE IInv'
<1>1. /\ TypeOK /\ forms[f] \in Form
      /\ UNCHANGED <<rows, kind, mail, now, pc, call, found,
                     crossed, raced, misses, issued, proofs>>
  BY Parts DEF GiveUp, TypeOK, server, history
<1>2. \A n \in {[forms[f] EXCEPT !.sending = NoCall], [forms[f] EXCEPT !.verifying = NoCall]} :
        /\ n \in Form /\ n.person = forms[f].person /\ n.token = forms[f].token
        /\ n.step = forms[f].step /\ n.email = forms[f].email
        /\ n.sending \in {forms[f].sending, NoCall}
        /\ n.verifying \in {forms[f].verifying, NoCall}
  BY <1>1 DEF Form
<1>3. PICK n \in {[forms[f] EXCEPT !.sending = NoCall], [forms[f] EXCEPT !.verifying = NoCall]} :
        forms' = [forms EXCEPT ![f] = n]
  BY DEF GiveUp
<1>4. /\ forms' \in [Forms -> Form]
      /\ \A g \in Forms : /\ forms'[g].person = forms[g].person
                          /\ forms'[g].token = forms[g].token
                          /\ forms'[g].step = forms[g].step
                          /\ forms'[g].email = forms[g].email
                          /\ forms'[g].sending \in {forms[g].sending, NoCall}
                          /\ forms'[g].verifying \in {forms[g].verifying, NoCall}
  BY <1>1, <1>2, <1>3 DEF TypeOK
<1>5. TypeOK'
  BY <1>1, <1>4 DEF TypeOK
<1>6. CallOK'
  BY <1>1, Parts DEF CallOK
<1>7. FormOK'
  BY <1>1, <1>4, FormsKept, Parts DEF FormOK
<1>8. KeyOK' /\ RaceOK' /\ SaveOK'
  BY <1>1, RowsKept
<1>9. Grows
  BY <1>1, <1>4 DEF Grows
<1>10. MailOK' /\ CodeOK' /\ UseOK' /\ TokenOK' /\ ProofOK'
  BY <1>1, <1>4, <1>9, ReadersKept
<1> QED BY <1>5, <1>6, <1>7, <1>8, <1>10 DEF IInv

LEMMA UseTokenStep == ASSUME IInv, NEW f \in Forms, UseToken(f) PROVE IInv'
<1> DEFINE t == forms[f].token
           n == [forms[f] EXCEPT !.step = "left"]
           p == [person |-> forms[f].person, email |-> t.email, purpose |-> t.purpose]
<1>1. /\ TypeOK /\ forms[f] \in Form /\ forms[f].step = "done"
      /\ UNCHANGED <<rows, mail, now, pc, call, found, crossed, raced, misses, issued>>
      /\ kind' = [kind EXCEPT ![t.email] = "password"]
      /\ proofs' = proofs \cup {p} /\ forms' = [forms EXCEPT ![f] = n]
  BY Parts DEF UseToken, TypeOK
<1>2. /\ t # NoCall /\ t.email = forms[f].person /\ Read(t.email, t.purpose)
  BY <1>1, Parts DEF TokenOK
<1>3. p \in Proof /\ p.person = p.email /\ Read(p.email, p.purpose)
  <2>1. t \in Token /\ forms[f].person \in Emails
    BY <1>1, <1>2 DEF Form
  <2> QED BY <2>1, <1>2 DEF Token, Proof
<1>4. /\ n \in Form /\ n.person = forms[f].person /\ n.token = t /\ n.step = "left"
      /\ n.sending = forms[f].sending /\ n.verifying = forms[f].verifying
  BY <1>1 DEF Form
<1>5. /\ forms' \in [Forms -> Form]
      /\ \A g \in Forms : /\ forms'[g].person = forms[g].person
                          /\ forms'[g].token = forms[g].token
                          /\ forms'[g].step \in {forms[g].step, "left"}
                          /\ g # f => forms'[g] = forms[g]
                          /\ forms'[g].sending = forms[g].sending
                          /\ forms'[g].verifying = forms[g].verifying
  BY <1>1, <1>4 DEF TypeOK
<1>6. TypeOK'
  BY <1>1, <1>3, <1>5 DEF TypeOK
<1>7. CallOK'
  BY <1>1, Parts DEF CallOK
<1>8. FormOK'
  BY <1>1, <1>4, <1>5, Parts DEF FormOK
<1>9. KeyOK' /\ RaceOK' /\ SaveOK'
  BY <1>1, RowsKept
<1>10. Grows
  BY <1>1, <1>5 DEF Grows
<1>11. MailOK' /\ CodeOK' /\ UseOK'
  BY <1>1, <1>10, CodesKept, UsesKept
<1>12. TokenOK'
  BY <1>1, <1>5, Parts DEF TokenOK, Read
<1>13. ProofOK'
  BY <1>1, <1>3, Parts DEF ProofOK, Read
<1> QED BY <1>6, <1>7, <1>8, <1>9, <1>11, <1>12, <1>13 DEF IInv

LEMMA TickStep == ASSUME IInv, Tick PROVE IInv'
<1>1. /\ TypeOK /\ now < MaxClock /\ now' = now + 1
      /\ UNCHANGED <<rows, kind, mail, forms, pc, call, found,
                     crossed, raced, misses, issued, proofs>>
  BY Parts DEF Tick, server, history
<1>2. now' \in 0..MaxClock
  BY <1>1, EmailBounds DEF TypeOK
<1>3. TypeOK'
  BY <1>1, <1>2 DEF TypeOK
<1>4. CallOK' /\ FormOK'
  BY <1>1, Parts DEF CallOK, FormOK
<1>5. KeyOK' /\ RaceOK' /\ SaveOK'
  BY <1>1, RowsKept
<1>6. Grows
  BY <1>1 DEF Grows
<1>7. MailOK' /\ CodeOK' /\ UseOK' /\ TokenOK' /\ ProofOK'
  BY <1>1, <1>6, ReadersKept
<1> QED BY <1>3, <1>4, <1>5, <1>7 DEF IInv

LEMMA StutterStep == ASSUME IInv, UNCHANGED vars PROVE IInv'
<1>1. UNCHANGED <<rows, kind, mail, now, forms, pc, call, found,
                  crossed, raced, misses, issued, proofs>>
  BY DEF vars, server, history
<1>2. TypeOK'
  BY <1>1, Parts DEF TypeOK
<1>3. CallOK' /\ FormOK'
  BY <1>1, Parts DEF CallOK, FormOK
<1>4. KeyOK' /\ RaceOK' /\ SaveOK'
  BY <1>1, RowsKept
<1>5. Grows
  BY <1>1 DEF Grows
<1>6. MailOK' /\ CodeOK' /\ UseOK' /\ TokenOK' /\ ProofOK'
  BY <1>1, <1>5, ReadersKept
<1> QED BY <1>2, <1>3, <1>4, <1>6 DEF IInv

LEMMA InitHolds == Init => IInv
<1> SUFFICES ASSUME Init PROVE IInv
  OBVIOUS
<1>1. TypeOK
  <2>1. 0 \in 0..MaxClock
    BY EmailBounds
  <2> QED BY <2>1 DEF Init, TypeOK, PC, Form, Keys
<1>2. \A q \in Requests : pc[q] = "idle" /\ call[q] = NoCall
  BY DEF Init
<1>3. \A f \in Forms : /\ forms[f].step = "email" /\ forms[f].token = NoCall
                       /\ forms[f].sending = NoCall /\ forms[f].verifying = NoCall
  BY DEF Init
<1>4. \A id \in Keys : rows[id] = NoRow /\ misses[id] = 0 /\ issued[id] = 0
  BY DEF Init
<1>5. CallOK
  BY <1>2 DEF CallOK
<1>6. FormOK
  BY <1>3, EmailNulls DEF FormOK
<1>7. KeyOK
  BY <1>2, <1>4 DEF KeyOK, Keys, Init
<1>8. MailOK /\ ProofOK
  BY DEF Init, MailOK, ProofOK
<1>9. CodeOK /\ UseOK
  BY <1>2 DEF CodeOK, UseOK
<1>10. TokenOK
  BY <1>3 DEF TokenOK
<1>11. RaceOK
  BY <1>2, <1>4, EmailBounds DEF RaceOK
<1>12. SaveOK
  BY <1>2, <1>4 DEF SaveOK, RowsOf, Live, Saving
<1> QED BY <1>1, <1>5, <1>6, <1>7, <1>8, <1>9, <1>10, <1>11, <1>12 DEF IInv

LEMMA NextHolds == IInv /\ [Next]_vars => IInv'
<1> SUFFICES ASSUME IInv, [Next]_vars PROVE IInv'
  OBVIOUS
<1>1. ASSUME NEW q \in Requests, Begin(q) PROVE IInv'
  BY <1>1, StartSendStep, StartVerifyStep DEF Begin
<1>2. ASSUME NEW q \in Requests, Advance(q) PROVE IInv'
  BY <1>2, CheckDailyLimitStep, DeleteCodesStep, SaveCodeStep, SendMailStep,
     FindCodeStep, CountFailureStep, UseCodeStep DEF Advance
<1>3. ASSUME NEW q \in Requests, Fail(q) PROVE IInv'
  BY <1>3, FailStep
<1>4. ASSUME NEW f \in Forms, GiveUp(f) \/ UseToken(f) PROVE IInv'
  BY <1>4, GiveUpStep, UseTokenStep
<1>5. CASE Tick
  BY <1>5, TickStep
<1>6. CASE UNCHANGED vars
  BY <1>6, StutterStep
<1> QED BY <1>1, <1>2, <1>3, <1>4, <1>5, <1>6 DEF Next, Quiet

-----------------------------------------------------------------------------
(* What a user may rely on.                                                 *)

LEMMA Always == Spec => []IInv
<1> QED BY InitHolds, NextHolds, PTL DEF Spec

\* Every table, form and request has a value of its kind: a count of failures
\* never passes the limit (email-verification.service.ts:97-107).
THEOREM EmailTypes == Spec => []TypeOK
<1>1. IInv => TypeOK
  BY Parts
<1> QED BY <1>1, Always, PTL

\* However sends, guesses, failures and timeouts interleave, an address has two
\* codes only if two sends of it had both deleted the old codes before either
\* saved its own (email-verification.service.ts:53-68).
THEOREM OneCode == Spec => []OneLiveCode
<1>1. IInv => OneLiveCode
  <2> SUFFICES ASSUME IInv, NEW a \in Address, a \notin crossed
               PROVE  Cardinality(RowsOf(a)) <= 1
    BY DEF OneLiveCode
  <2>1. \A i, j \in RowsOf(a) : i = j
    BY Parts DEF SaveOK
  <2>2. CASE RowsOf(a) = {}
    BY <2>2, FS_EmptySet
  <2>3. CASE RowsOf(a) # {}
    <3>1. PICK i \in RowsOf(a) : TRUE
      BY <2>3
    <3>2. RowsOf(a) = {i}
      BY <2>1, <3>1
    <3> QED BY <3>2, FS_Singleton
  <2> QED BY <2>2, <2>3
<1> QED BY <1>1, Always, PTL

\* A code that no two guesses have met on brings one token, whoever repeats
\* the right guess (email-verification.service.ts:85-111).
THEOREM OneToken == Spec => []OneTokenPerCode
<1>1. IInv => OneTokenPerCode
  BY Parts DEF RaceOK, OneTokenPerCode
<1> QED BY <1>1, Always, PTL

\* The limit of wrong guesses holds for a code that no two guesses have met
\* on, and its row counts every one (email-verification.service.ts:97-107).
THEOREM MissesCount == Spec => []EveryMissCounts
<1>1. IInv => EveryMissCounts
  BY Parts DEF RaceOK, EveryMissCounts, Live
<1> QED BY <1>1, Always, PTL

\* An account or a new password for an address is always the work of who reads
\* its mail (auth.service.ts:52-65, auth-password.service.ts:34-41).
THEOREM ReaderProves == Spec => []OnlyTheReaderProves
<1>1. IInv => OnlyTheReaderProves
  BY Parts DEF ProofOK, OnlyTheReaderProves, Read
<1> QED BY <1>1, Always, PTL
=============================================================================
