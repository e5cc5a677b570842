------------------------------- MODULE Fallback -------------------------------
(***************************************************************************)
(* FallbackLLM: the chain of model endpoints that all threads of a daemon  *)
(* call through one object.  Clients are built when they are needed, with  *)
(* the credential of that moment, kept under a lock, and dropped by        *)
(* whoever sees one fail; an empty answer is passed over; the endpoint     *)
(* that answered last is remembered in one field for everybody.            *)
(*                                                                         *)
(* A credential is a number, and replacing it revokes the old one.  Bound: *)
(* MaxErrors of: a credential is replaced, a call fails otherwise, the     *)
(* process ends.                                                           *)
(***************************************************************************)
EXTENDS Integers

CONSTANTS
  Thread,
  Endpoints,      \* how many there are in the chain
  MaxErrors

ASSUME ChainAssumption == Endpoints \in Nat \ {0} /\ MaxErrors \in Nat

Endpoint == 1..Endpoints

VARIABLES
  key,            \* the credential of each endpoint
  client,         \* the credential each kept client was built with; zero is none
  call,           \* what each thread is doing
  active_model,   \* the endpoint that answered last
  errors,
  refused,        \* history: the last credential an endpoint was known to refuse
  since           \* history: who has answered since the answer of a thread

fallbackVars == <<key, client, call, active_model, errors, refused, since>>

Key == 1..(MaxErrors + 1)

NoCall == [pc |-> "idle", at |-> 1, key |-> 0]

FallbackTypeOK ==
  /\ key \in [Endpoint -> Key]
  /\ client \in [Endpoint -> Key \cup {0}]
  /\ call \in [Thread -> [pc : {"idle", "client", "ask", "drop", "answered", "failed"},
                          at : Endpoint, key : Key \cup {0}]]
  /\ active_model \in Endpoint
  /\ errors \in 0..MaxErrors
  /\ refused \in [Endpoint -> Key \cup {0}]
  /\ since \in [Thread -> SUBSET Endpoint]

FallbackInit ==
  /\ key = [e \in Endpoint |-> 1]
  /\ client = [e \in Endpoint |-> 0]
  /\ call = [t \in Thread |-> NoCall]
  /\ active_model = 1
  /\ errors = 0
  /\ refused = [e \in Endpoint |-> 0]
  /\ since = [t \in Thread |-> {}]

\* A credential is replaced.
Rotate(e) ==
  /\ errors < MaxErrors /\ errors' = errors + 1
  /\ key' = [key EXCEPT ![e] = @ + 1]
  /\ UNCHANGED <<client, call, active_model, refused, since>>

generate_response(t) ==
  /\ call[t].pc = "idle"
  /\ call' = [call EXCEPT ![t] = [NoCall EXCEPT !.pc = "client"]]
  /\ UNCHANGED <<key, client, active_model, errors, refused, since>>

Kept(e) == client[e] # 0

\* Read anew for each client that is built.
api_key(e) == key[e]

\* Under the lock.  There may be no credential to be had, which counts as a
\* failed call.
_llm_for(t) ==
  LET e == call[t].at
  IN /\ call[t].pc = "client"
     /\ \/ /\ Kept(e)
           /\ call' = [call EXCEPT ![t].pc = "ask", ![t].key = client[e]]
           /\ UNCHANGED <<client, errors>>
        \/ /\ ~Kept(e)
           /\ client' = [client EXCEPT ![e] = api_key(e)]
           /\ call' = [call EXCEPT ![t].pc = "ask", ![t].key = api_key(e)]
           /\ UNCHANGED errors
        \/ /\ ~Kept(e)
           /\ errors < MaxErrors /\ errors' = errors + 1
           /\ call' = [call EXCEPT ![t].pc = "drop"]
           /\ UNCHANGED <<client>>
     /\ UNCHANGED <<key, active_model, refused, since>>

\* The next endpoint, or none is left.
FallOver(t) ==
  LET e == call[t].at
  IN call' = [call EXCEPT ![t] = IF e = Endpoints THEN [NoCall EXCEPT !.pc = "failed"]
                                 ELSE [NoCall EXCEPT !.pc = "client", !.at = e + 1]]

\* Mutant: the answer does not leave its endpoint's name.
Answered_Unnamed(t) ==
  /\ call' = [call EXCEPT ![t].pc = "answered"]
  /\ since' = [u \in Thread |-> IF u = t THEN {call[t].at}
                                ELSE IF call[u].pc = "answered" THEN since[u] \cup {call[t].at}
                                ELSE since[u]]
  /\ UNCHANGED active_model

Answered(t) ==
  /\ call' = [call EXCEPT ![t].pc = "answered"]
  /\ since' = [u \in Thread |-> IF u = t THEN {call[t].at}
                                ELSE IF call[u].pc = "answered" THEN since[u] \cup {call[t].at}
                                ELSE since[u]]
  /\ active_model' = call[t].at

\* A revoked credential is refused.
Ask(t) ==
  LET e == call[t].at
  IN /\ call[t].pc = "ask"
     /\ \/ /\ call[t].key = key[e]
           /\ Answered(t)
           /\ UNCHANGED errors
        \/ \* _is_empty_answer: the client is kept
           /\ call[t].key = key[e]
           /\ errors < MaxErrors /\ errors' = errors + 1
           /\ FallOver(t)
           /\ UNCHANGED <<active_model, since>>
        \/ /\ call[t].key # key[e] \/ errors < MaxErrors
           /\ errors' = IF call[t].key # key[e] THEN errors ELSE errors + 1
           /\ call' = [call EXCEPT ![t].pc = "drop"]
           /\ UNCHANGED <<active_model, since>>
     /\ UNCHANGED <<key, client, refused>>

\* Mutant: a client that failed is kept.
Without_Kept(e) == client

Without(e) == [client EXCEPT ![e] = 0]

\* By name: the client that is dropped may be one that another thread has built.
Drop(t) ==
  LET e == call[t].at
  IN /\ call[t].pc = "drop"
     /\ client' = Without(e)
     /\ refused' = IF call[t].key \in 1..(key[e] - 1)
                   THEN [refused EXCEPT ![e] = IF @ > call[t].key THEN @ ELSE call[t].key]
                   ELSE refused
     /\ FallOver(t)
     /\ UNCHANGED <<key, active_model, errors, since>>

\* The caller has taken the answer, or the error.
Return(t) == call' = [call EXCEPT ![t] = NoCall]

\* A new process: nothing is kept.
FallbackRestart ==
  /\ errors < MaxErrors /\ errors' = errors + 1
  /\ client' = [e \in Endpoint |-> 0]
  /\ call' = [t \in Thread |-> NoCall]
  /\ active_model' = 1
  /\ since' = [t \in Thread |-> {}]
  /\ UNCHANGED <<key, refused>>

Calls(t) == _llm_for(t) \/ Ask(t) \/ Drop(t)

\* A credential that a thread has seen refused is not used by a kept client
\* again, whoever builds and drops clients meanwhile (llm.py:69-71, 233-235).
RefusedIsForgotten == \A e \in Endpoint : client[e] # 0 => client[e] > refused[e]
===============================================================================
