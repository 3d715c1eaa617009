--------------------------- MODULE SessionManager ---------------------------
(***************************************************************************)
(* aura/api/auth.py: the bootstrap codes and the session tokens of the     *)
(* local API, both kept in memory. Each operation reads the clock, waits   *)
(* for the lock and decides by the time it read; a session is created with *)
(* the lock held, by a second reading. The persistent local codes are      *)
(* seeded by the constructor and registered again, for a day, by the       *)
(* runtime and by the daemon when they start.                              *)
(***************************************************************************)
EXTENDS Naturals, FiniteSets

CONSTANTS Codes,       \* ephemeral codes (token_urlsafe: never drawn twice)
          LocalCodes,  \* LOCAL_BOOTSTRAP_CODES
          NoCode,      \* a token not drawn yet was issued for no code
          Tokens,      \* session tokens (token_urlsafe: never drawn twice)
          Callers,     \* the threads that call the manager
          CodeTtl,     \* ttl_seconds of an ephemeral code
          DayTtl,      \* ttl_seconds with which start() registers local codes: 86400
          SeedTtl,     \* timedelta(days=3650)
          SessionTtl,  \* default_session_ttl_hours
          MaxClock      \* bound: the clock stops here

ASSUME DisjointCodes ==
    Codes \cap LocalCodes = {} /\ NoCode \notin Codes /\ NoCode \notin LocalCodes
ASSUME TtlAssumption ==
    /\ CodeTtl \in Nat /\ DayTtl \in Nat /\ SeedTtl \in Nat /\ SessionTtl \in Nat
    /\ MaxClock \in Nat

AllCodes == Codes \cup LocalCodes

VARIABLES
    clock,        \* datetime.now
    calling,      \* callers that have read the clock and wait for the lock
    reading,      \* now of each of them
    bootstraps,   \* the keys of _bootstraps
    codeExpires,  \* expires_at of each of them
    sessions,     \* the keys of _sessions
    expires,      \* expires_at of each session
    createdAt,    \* history: when an ephemeral code was created
    drawn,        \* history: the ephemeral codes created so far
    source,       \* history: the code each token was issued for, or NoCode
    waited,       \* history: how long that exchange had waited for the lock
    revoked,      \* history: the tokens revoked
    accepted,     \* history: tokens accepted at this tick, unless revoked since
    acceptedAt    \* history: now of the request that was accepted

sessionVars == <<clock, calling, reading, bootstraps, codeExpires, sessions, expires,
          createdAt, drawn, source, waited, revoked, accepted, acceptedAt>>

SessionTypeOK ==
    /\ clock \in 0 .. MaxClock
    /\ calling \in SUBSET Callers
    /\ reading \in [Callers -> Nat]
    /\ bootstraps \in SUBSET AllCodes
    /\ codeExpires \in [AllCodes -> Nat]
    /\ sessions \in SUBSET Tokens
    /\ expires \in [Tokens -> Nat]
    /\ createdAt \in [Codes -> Nat]
    /\ drawn \in SUBSET Codes
    /\ source \in [Tokens -> AllCodes \cup {NoCode}]
    /\ waited \in [Tokens -> Nat]
    /\ revoked \in SUBSET Tokens
    /\ accepted \in SUBSET Tokens
    /\ acceptedAt \in [Tokens -> Nat]

SessionInit ==
    /\ clock = 0
    /\ calling = {}
    /\ reading = [h \in Callers |-> 0]
    /\ bootstraps = LocalCodes
    /\ codeExpires = [c \in AllCodes |-> IF c \in LocalCodes THEN SeedTtl ELSE 0]
    /\ sessions = {}
    /\ expires = [t \in Tokens |-> 0]
    /\ createdAt = [c \in Codes |-> 0]
    /\ drawn = {}
    /\ source = [t \in Tokens |-> NoCode]
    /\ waited = [t \in Tokens |-> 0]
    /\ revoked = {}
    /\ accepted = {}
    /\ acceptedAt = [t \in Tokens |-> 0]

SessionTick ==
    /\ clock < MaxClock
    /\ clock' = clock + 1
    /\ accepted' = {}
    /\ acceptedAt' = [t \in Tokens |-> 0]
    /\ UNCHANGED <<calling, reading, bootstraps, codeExpires, sessions, expires,
                   createdAt, drawn, source, waited, revoked>>

\* An operation is called: now = datetime.now(), before the lock.
ReadsClock(h) ==
    /\ h \notin calling
    /\ calling' = calling \cup {h}
    /\ reading' = [reading EXCEPT ![h] = clock]
    /\ UNCHANGED <<clock, bootstraps, codeExpires, sessions, expires, createdAt, drawn,
                   source, waited, revoked, accepted, acceptedAt>>

\* It gets the lock, does what it does and returns.
Returns(h) ==
    /\ h \in calling
    /\ calling' = calling \ {h}
    /\ reading' = [reading EXCEPT ![h] = 0]

\* create_bootstrap_code, with a fresh code or with a local code as custom_code
create_bootstrap_code(h, c) ==
    /\ Returns(h)
    /\ c \in LocalCodes \/ c \in Codes \ drawn
    /\ bootstraps' = bootstraps \cup {c}
    /\ codeExpires' = [codeExpires EXCEPT ![c] =
           reading[h] + IF c \in Codes THEN CodeTtl ELSE DayTtl]
    /\ createdAt' = [d \in Codes |-> IF d = c THEN reading[h] ELSE createdAt[d]]
    /\ drawn' = drawn \cup ({c} \cap Codes)
    /\ UNCHANGED <<clock, sessions, expires, source, waited, revoked, accepted, acceptedAt>>

\* create_session with the default lifetime: a token never drawn before, and a reading
\* of the clock of its own
create_session(h, c, t) ==
    /\ source[t] = NoCode
    /\ sessions' = sessions \cup {t}
    /\ expires' = [expires EXCEPT ![t] = clock + SessionTtl]
    /\ source' = [source EXCEPT ![t] = c]
    /\ waited' = [waited EXCEPT ![t] = clock - reading[h]]

\* now > record.expires_at
ExpiryUnchecked(c, now) == FALSE
CodeExpired(c, now) == now > codeExpires[c]

\* What an exchange leaves: an ephemeral code is consumed, a local one retained.
NothingConsumed(c) == bootstraps
Consumed(c) == IF c \in LocalCodes THEN bootstraps ELSE bootstraps \ {c}

\* exchange_bootstrap: unknown codes are rejected and change nothing, an expired code
\* is rejected and forgotten, any other code buys a session.
exchange_bootstrap(h, c) ==
    /\ Returns(h)
    /\ \/ /\ c \notin bootstraps
          /\ UNCHANGED <<bootstraps, sessions, expires, source, waited>>
       \/ /\ c \in bootstraps /\ CodeExpired(c, reading[h])
          /\ bootstraps' = bootstraps \ {c}
          /\ UNCHANGED <<sessions, expires, source, waited>>
       \/ /\ c \in bootstraps /\ ~ CodeExpired(c, reading[h])
          /\ bootstraps' = Consumed(c)
          /\ \E t \in Tokens : create_session(h, c, t)
    /\ UNCHANGED <<clock, codeExpires, createdAt, drawn, revoked, accepted, acceptedAt>>

\* validate_session: an unknown one is refused, an expired one is forgotten, any other
\* one is accepted.
validate_session(h, t) ==
    /\ Returns(h)
    /\ \/ /\ t \notin sessions
          /\ UNCHANGED <<sessions, accepted, acceptedAt>>
       \/ /\ t \in sessions /\ reading[h] > expires[t]
          /\ sessions' = sessions \ {t}
          /\ UNCHANGED <<accepted, acceptedAt>>
       \/ /\ t \in sessions /\ reading[h] <= expires[t]
          /\ accepted' = accepted \cup {t}
          /\ acceptedAt' = [acceptedAt EXCEPT ![t] = reading[h]]
          /\ UNCHANGED sessions
    /\ UNCHANGED <<clock, bootstraps, codeExpires, expires, createdAt, drawn, source,
                   waited, revoked>>

\* revoke_session decides nothing by the time.

SessionKept(t) == sessions
SessionDeleted(t) == sessions \ {t}
revoke_session(t) ==
    /\ t \in sessions
    /\ sessions' = SessionDeleted(t)
    /\ revoked' = revoked \cup {t}
    /\ accepted' = accepted \ {t}
    /\ UNCHANGED <<clock, calling, reading, bootstraps, codeExpires, expires, createdAt,
                   drawn, source, waited, acceptedAt>>

cleanup_expired(h) ==
    /\ Returns(h)
    /\ bootstraps' = {c \in bootstraps : ~ CodeExpired(c, reading[h])}
    /\ sessions' = {t \in sessions : reading[h] <= expires[t]}
    /\ UNCHANGED <<clock, codeExpires, expires, createdAt, drawn, source, waited,
                   revoked, accepted, acceptedAt>>

SessionNext ==
    \/ SessionTick
    \/ \E h \in Callers :
          \/ ReadsClock(h)
          \/ \E c \in AllCodes : create_bootstrap_code(h, c) \/ exchange_bootstrap(h, c)
          \/ \E t \in Tokens : validate_session(h, t)
          \/ cleanup_expired(h)
    \/ \E t \in Tokens : revoke_session(t)

SessionSpec == SessionInit /\ [][SessionNext]_sessionVars

-----------------------------------------------------------------------------
(* Properties *)

\* An ephemeral code buys at most one session, whatever is created, exchanged,
\* cleaned up or expires in between.
SingleUse ==
    \A t, u \in Tokens : source[t] \in Codes /\ source[t] = source[u] => t = u

\* The access that an ephemeral code gives is bounded from its creation on: a request
\* is accepted only if it came within the life of the code plus the life of one session,
\* and nothing stretches that but the time an exchange itself waited for the lock,
\* whatever was created, exchanged and cleaned up by late callers in between.
AccessIsBounded ==
    \A t \in accepted : source[t] \in Codes =>
        acceptedAt[t] <= createdAt[source[t]] + CodeTtl + waited[t] + SessionTtl

\* The life of a code and of a session alone, as if an exchange took no time: a slow
\* exchange exceeds it, because it tests the code by one reading and dates the session
\* by the next.
AccessIsBoundedExactly ==
    \A t \in accepted : source[t] \in Codes =>
        acceptedAt[t] <= createdAt[source[t]] + CodeTtl + SessionTtl

\* A revoked token is never accepted again.
RevocationIsFinal == accepted \cap revoked = {}

\* "persistent local loopback codes": the pre-seeded codes stay exchangeable.
LocalCodesPersist == LocalCodes \subseteq bootstraps

-----------------------------------------------------------------------------
(* The inductive invariant *)

SessionInv ==
    /\ SessionTypeOK
    /\ \A t \in Tokens : source[t] \in Codes => source[t] \in drawn \ bootstraps
    /\ bootstraps \cap Codes \subseteq drawn
    /\ SingleUse
    /\ \A c \in drawn : codeExpires[c] = createdAt[c] + CodeTtl
    /\ \A h \in Callers : reading[h] <= clock
    /\ \A t \in Tokens : source[t] \in Codes =>
           expires[t] <= codeExpires[source[t]] + waited[t] + SessionTtl
    /\ sessions \cap revoked = {}
    /\ \A t \in sessions \cup revoked \cup accepted : source[t] # NoCode
    /\ accepted \cap revoked = {}
    /\ \A t \in accepted : acceptedAt[t] <= expires[t]
=============================================================================
