----------------------------- MODULE AtomicStore -----------------------------
(***************************************************************************)
(* What the asynchronous database of nginz promises to the workers: each   *)
(* client's requests take effect one at a time, in the order it made them, *)
(* each exactly once and atomically, and each request that names a hook is *)
(* answered once, in that order, with what its own execution found.        *)
(***************************************************************************)
EXTENDS Sequences, SequencesExt

CONSTANTS Client, Key, Value,
          NoValue,   \* what a key has that is not set
          Hook,      \* what an answer is recognised by
          NoHook     \* of a request that wants no answer

Content == Value \cup {NoValue}

\* exp is what the key must hold for new to be stored (NoValue: nothing).
Request == [op : {"put", "unset", "get"}, key : Key, new : Content, exp : Content,
            hook : Hook \cup {NoHook}]
Answer == [key : Key, val : Content, success : BOOLEAN, hook : Hook]

VARIABLES db,        \* the store
          calls,     \* calls[c]: what c has asked for and is yet to take effect
          answers    \* answers[c]: what c is yet to hear

vars == <<db, calls, answers>>

Init ==
  /\ db = [k \in Key |-> NoValue]
  /\ calls = [c \in Client |-> <<>>]
  /\ answers = [c \in Client |-> <<>>]

\* What a request makes of the store, and what it answers.
Succeeds(r, d) == r.op = "put" => d[r.key] = r.exp
Effect(r, d) == IF r.op = "get" \/ ~Succeeds(r, d) THEN d ELSE [d EXCEPT ![r.key] = r.new]
AnswerTo(r, d) ==
  [key |-> r.key, hook |-> r.hook, success |-> Succeeds(r, d),
   val |-> IF r.op = "get" THEN d[r.key] ELSE r.new]

\* One call of the interface may make several requests (async_db_increment).
Call(c) ==
  /\ IsStrictPrefix(calls[c], calls'[c])
  /\ calls' \in [Client -> Seq(Request)]
  /\ \A b \in Client \ {c} : calls'[b] = calls[b]
  /\ UNCHANGED <<db, answers>>

Execute(c) ==
  /\ calls[c] # <<>>
  /\ LET r == Head(calls[c]) IN
       /\ db' = Effect(r, db)
       /\ answers' = IF r.hook = NoHook
                     THEN answers
                     ELSE [answers EXCEPT ![c] = Append(@, AnswerTo(r, db))]
  /\ calls' = [calls EXCEPT ![c] = Tail(@)]

Hear(c) ==
  /\ answers[c] # <<>>
  /\ answers' = [answers EXCEPT ![c] = Tail(@)]
  /\ UNCHANGED <<db, calls>>

Next == \E c \in Client : Call(c) \/ Execute(c) \/ Hear(c)

Spec == Init /\ [][Next]_vars
=============================================================================
