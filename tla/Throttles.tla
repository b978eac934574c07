------------------------------ MODULE Throttles ------------------------------
(***************************************************************************)
(* The two throttles of the server: the sliding window of requests per     *)
(* address (RateLimiter, lightning-server/src/server.rs) and the lockouts  *)
(* of AuthStore::try_login (auth/store.rs), one per address and one per    *)
(* user name, each behind a lock of its own.  now is the clock.            *)
(***************************************************************************)
EXTENDS Naturals, Sequences, FiniteSets, Functions, SequencesExt

CONSTANTS
  Client,                 \* threads that serve login requests
  Ip, Name,
  MaxRequests, RateWindow, MaxWindows,        \* 1000, 1 s, 1000
  MaxLoginAttempts, LoginWindow, Lockout,     \* 5, 900 s, 900 s
  MaxTime                 \* bound

VARIABLES
  now,
  windows,        \* RateLimiter.windows: address -> timestamps
  ipRecord,       \* login_ip_attempts: address -> LoginRecord
  nameRecord,     \* login_attempts: name -> LoginRecord
  pc, who,        \* of each client: its step, and the address and name it uses
  admitted,       \* history: when the RateLimiter let a request of an address in
  passed,         \* history: when try_login let an attempt of an address past its record
  wrong           \* history: when a wrong password was verified for a name, since its
                  \* last successful login

limiter == <<windows, admitted>>
logins == <<ipRecord, nameRecord, pc, who, passed, wrong>>
vars == <<now, limiter, logins>>

Unlocked == 0
NoRecord == [times |-> <<>>, until |-> Unlocked]

TypeOK ==
  /\ now \in 1..MaxTime
  /\ DOMAIN windows \subseteq Ip
  /\ \A i \in DOMAIN windows : Len(windows[i]) <= MaxRequests
  /\ \A i \in Ip : Len(ipRecord[i].times) < MaxLoginAttempts
  /\ \A n \in Name : Len(nameRecord[n].times) < MaxLoginAttempts
  /\ pc \in [Client -> {"idle", "name", "clear"}]

Init ==
  /\ now = 1 /\ windows = <<>>
  /\ ipRecord = [i \in Ip |-> NoRecord] /\ nameRecord = [n \in Name |-> NoRecord]
  /\ pc = [c \in Client |-> "idle"] /\ who \in [Client -> Ip \X Name]
  /\ admitted = [i \in Ip |-> <<>>] /\ passed = [i \in Ip |-> <<>>]
  /\ wrong = [n \in Name |-> <<>>]
-----------------------------------------------------------------------------
(* RateLimiter::check *)

Prune_OneWindow(w) ==
  IF Cardinality(DOMAIN w) <= MaxWindows THEN w
  ELSE Restrict(w, {i \in DOMAIN w : w[i] # <<>> /\ now - Last(w[i]) < 1})

\* Addresses idle for two windows are forgotten when there are too many.
Prune(w) ==
  IF Cardinality(DOMAIN w) <= MaxWindows THEN w
  ELSE Restrict(w, {i \in DOMAIN w : w[i] # <<>> /\ now - Last(w[i]) < 2 * RateWindow})

Check_OneMore(i) ==
  LET w == Prune(windows)
      recent == IF i \in DOMAIN w
                THEN SelectSeq(w[i], LAMBDA t : now - t <= RateWindow) ELSE <<>>
      admit == Len(recent) <= MaxRequests
      times == IF admit THEN Append(recent, now) ELSE recent
  IN /\ windows' = [j \in DOMAIN w \cup {i} |-> IF j = i THEN times ELSE w[j]]
     /\ admitted' = IF admit THEN [admitted EXCEPT ![i] = Append(@, now)] ELSE admitted
     /\ UNCHANGED <<now, logins>>

Check(i) ==
  LET w == Prune(windows)
      recent == IF i \in DOMAIN w
                THEN SelectSeq(w[i], LAMBDA t : now - t <= RateWindow) ELSE <<>>
      admit == Len(recent) < MaxRequests
      times == IF admit THEN Append(recent, now) ELSE recent
  IN /\ windows' = [j \in DOMAIN w \cup {i} |-> IF j = i THEN times ELSE w[j]]
     /\ admitted' = IF admit THEN [admitted EXCEPT ![i] = Append(@, now)] ELSE admitted
     /\ UNCHANGED <<now, logins>>
-----------------------------------------------------------------------------
(* AuthStore::try_login *)

Locked(r) == now < r.until

\* A lock that has run out is forgotten with the record; else what left the window is.
Current(r) ==
  IF r.until # Unlocked THEN NoRecord
  ELSE [r EXCEPT !.times = SelectSeq(@, LAMBDA t : t + LoginWindow > now)]

Attempt_KeepsCounting(r) ==
  LET times == Append(Current(r).times, now)
  IN IF Len(times) >= MaxLoginAttempts
     THEN [times |-> <<>>, until |-> now]
     ELSE [times |-> times, until |-> Unlocked]

\* The attempt that reaches the maximum locks the record, and is refused.
Attempt(r) ==
  LET times == Append(Current(r).times, now)
  IN IF Len(times) >= MaxLoginAttempts
     THEN [times |-> <<>>, until |-> now + Lockout]
     ELSE [times |-> times, until |-> Unlocked]

TryLogin_Ip(c) ==
  /\ pc[c] = "idle"
  /\ LET i == who[c][1] IN
     /\ ~Locked(ipRecord[i])
     /\ ipRecord' = [ipRecord EXCEPT ![i] = Attempt(@)]
     /\ IF ipRecord'[i].until # Unlocked THEN UNCHANGED <<pc, passed>>
        ELSE /\ pc' = [pc EXCEPT ![c] = "name"]
             /\ passed' = [passed EXCEPT ![i] = Append(@, now)]
  /\ UNCHANGED <<now, limiter, nameRecord, who, wrong>>

TryLogin_Name_ClearsFirst(c, right) ==
  /\ pc[c] = "name"
  /\ LET n == who[c][2]
         r == Attempt(NoRecord)
     IN /\ nameRecord' = [nameRecord EXCEPT ![n] = r]
        /\ pc' = [pc EXCEPT ![c] = IF r.until = Unlocked /\ right THEN "clear" ELSE "idle"]
        /\ wrong' = IF r.until = Unlocked /\ ~right
                    THEN [wrong EXCEPT ![n] = Append(@, now)] ELSE wrong
  /\ UNCHANGED <<now, limiter, ipRecord, who, passed>>

\* The record is changed and the password verified under one lock.
TryLogin_Name(c, right) ==
  /\ pc[c] = "name"
  /\ LET n == who[c][2]
         r == IF Locked(nameRecord[n]) THEN nameRecord[n] ELSE Attempt(nameRecord[n])
     IN /\ nameRecord' = [nameRecord EXCEPT ![n] = r]
        /\ pc' = [pc EXCEPT ![c] = IF r.until = Unlocked /\ right THEN "clear" ELSE "idle"]
        /\ wrong' = IF r.until = Unlocked /\ ~right
                    THEN [wrong EXCEPT ![n] = Append(@, now)] ELSE wrong
  /\ UNCHANGED <<now, limiter, ipRecord, who, passed>>

\* A success forgets the name's record, also a lock taken since the password was verified.
TryLogin_Clear(c) ==
  /\ pc[c] = "clear" /\ pc' = [pc EXCEPT ![c] = "idle"]
  /\ nameRecord' = [nameRecord EXCEPT ![who[c][2]] = NoRecord]
  /\ wrong' = [wrong EXCEPT ![who[c][2]] = <<>>]
  /\ UNCHANGED <<now, limiter, ipRecord, who, passed>>

\* Time passes; the history keeps what a window can still see.
Tick ==
  /\ now < MaxTime /\ now' = now + 1
  /\ admitted' = [i \in Ip |-> SelectSeq(admitted[i], LAMBDA t : now' - t <= RateWindow)]
  /\ passed' = [i \in Ip |-> SelectSeq(passed[i], LAMBDA t : t + LoginWindow > now')]
  /\ wrong' = [n \in Name |-> SelectSeq(wrong[n], LAMBDA t : t + LoginWindow > now')]
  /\ UNCHANGED <<windows, ipRecord, nameRecord, pc, who>>

Limit == \E i \in Ip : Check(i)

TryLogin(c) ==
  \/ TryLogin_Ip(c) \/ TryLogin_Clear(c)
  \/ \E right \in BOOLEAN : TryLogin_Name(c, right)

\* The two throttles share no state.
LimiterNext == Tick \/ Limit
LoginNext == Tick \/ \E c \in Client : TryLogin(c)
Next == LimiterNext \/ LoginNext
Spec == Init /\ [][Next]_vars
LimiterSpec == Init /\ [][LimiterNext]_vars
LoginSpec == Init /\ [][LoginNext]_vars
-----------------------------------------------------------------------------
(* Properties *)

\* No window of the RateLimiter, wherever it starts, holds more than max_requests admitted
\* requests of one address, also when the address was forgotten in between.
RateBounded == \A i \in Ip : Len(admitted[i]) <= MaxRequests

\* In any fifteen minutes fewer than MAX_LOGIN_ATTEMPTS attempts of one address reach the
\* password, locks that run out and their forgotten records included.
AttemptsBounded == \A i \in Ip : Len(passed[i]) < MaxLoginAttempts

\* The same of wrong passwords for one name since its last success, from however many
\* addresses they come.
GuessesBounded == \A n \in Name : Len(wrong[n]) < MaxLoginAttempts
=============================================================================
