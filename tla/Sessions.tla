------------------------------ MODULE Sessions ------------------------------
(* How the sessions of one user are revoked (lib/tokenVersion.ts,          *)
(* middleware/auth.ts, routes/auth.ts, routes/admin.ts, socket.ts).        *)
(* A token carries the version of the user row it was minted from; a call  *)
(* is admitted when that version is not below the current one, read from   *)
(* a Redis entry with a time to live, or from the row on a miss.  Revoking *)
(* bumps the row, publishes the version to the entry and disconnects the   *)
(* user's sockets.                                                         *)
(*                                                                         *)
(* A slot is a call in flight or an open socket; every await ends a step.  *)
(* Time is kept as ages and remaining lives: MaxDelay bounds how long a    *)
(* value read from the row is on its way to Redis.                         *)
EXTENDS Naturals

CONSTANTS
    Slots,       \* calls and sockets at a time
    Kinds,       \* the calls made in this instance
    TTL,         \* CACHE_TTL_SECONDS
    MaxDelay,    \* see above
    MaxVersion   \* bound on the number of revocations

AllKinds == {"me", "role", "logout-all", "force", "socket", "login"}
\* the roles PATCH /auth/me accepts
Roles == {"resident", "volunteer"}

ASSUME SessionsAssumption ==
    /\ TTL \in Nat /\ MaxDelay \in Nat
    /\ MaxVersion \in Nat
    /\ Kinds \subseteq AllKinds

VARIABLES
    version, role,  \* the users row
    cache,          \* the entry tv:<user>; absent when its ttl is 0
    op,             \* op[s]: the call, or the socket, in slot s
    minted,         \* every token signed for the user
    past,           \* history: how long ago the row left each version
    strayed         \* history: a revoked caller wrote a role without a bump

row == <<version, role>>
vars == <<row, cache, op, minted, past, strayed>>

Versions == 0 .. MaxVersion
Tokens == [version : Versions, role : Roles]
CurrentToken == [version |-> version, role |-> role]

\* A version on its way to Redis, and how long ago it was in the row.
Writes == [on : BOOLEAN, value : Versions, age : 0 .. MaxDelay]
Write(value) == [on |-> TRUE, value |-> value, age |-> 0]
Nothing == [on |-> FALSE, value |-> 0, age |-> 0]

\* How long a revoked token may still pass; past is counted up to it.
Window == TTL + MaxDelay

Steps == {"idle", "me", "patch", "mint", "bump", "publish", "disconnect",
          "join", "open"}

\* tok: the token presented, or to be signed; want: the role asked for;
\* prime, bump: what the call's reader and its revoker have sent to Redis;
\* late, a history: the socket joined after the revocation of its token ended.
Calls == [pc : Steps, tok : Tokens, want : Roles,
          prime : Writes, bump : Writes, late : BOOLEAN]

TypeOK ==
    /\ version \in Versions /\ role \in Roles
    /\ cache \in [value : Versions, ttl : 0 .. TTL]
    /\ op \in [Slots -> Calls]
    /\ minted \subseteq Tokens
    /\ past \in [Versions -> 0 .. Window]
    /\ strayed \in BOOLEAN

Blank == [pc |-> "idle", tok |-> [version |-> 0, role |-> "resident"],
          want |-> "resident", prime |-> Nothing, bump |-> Nothing,
          late |-> FALSE]

NoEntry == [value |-> 0, ttl |-> 0]

Init ==
    /\ version = 0
    /\ role = "resident"
    /\ cache = NoEntry
    /\ op = [s \in Slots |-> Blank]
    /\ minted = {CurrentToken}
    /\ past = [v \in Versions |-> 0]
    /\ strayed = FALSE

Cached == cache.ttl > 0
Revoked(tok) == tok.version < version
Revoking == {s \in Slots : op[s].pc \in {"publish", "disconnect"}}

-----------------------------------------------------------------------------
\* mutant: only the exact version passes
ExactVersion(tok, current) == tok.version = current

\* isTokenVersionCurrent, and the same comparison of the socket handshake
IsCurrent(tok, current) == tok.version >= current

FirstStep(kind) ==
    CASE kind = "me" -> "me" [] kind = "role" -> "patch"
      [] kind = "socket" -> "join" [] kind = "logout-all" -> "bump"
Authenticated == Kinds \ {"force", "login"}

\* requireAuth, or io.use: the handler goes on if the token is current.
Admit(s, current, prime) ==
    \E kind \in Authenticated, tok \in minted, want \in Roles :
      /\ kind # "role" => want = Blank.want
      /\ op' = [op EXCEPT ![s] = IF IsCurrent(tok, current)
                   THEN [Blank EXCEPT !.pc = FirstStep(kind), !.tok = tok,
                                      !.want = want, !.prime = prime]
                   ELSE [Blank EXCEPT !.prime = prime]]

Free(s) == op[s].pc = "idle" /\ ~op[s].prime.on

(* A call arrives with any token a device may still hold, and finds the    *)
(* entry ...                                                               *)
LookupHit(s) ==
    /\ Free(s) /\ Cached
    /\ Admit(s, cache.value, Nothing)
    /\ UNCHANGED <<row, cache, minted, past, strayed>>

(* ... or misses it, or Redis fails: the row answers, and the entry is     *)
(* primed behind the caller's back.                                        *)
LookupMiss(s) ==
    /\ Free(s)
    /\ Admit(s, version, Write(version))
    /\ UNCHANGED <<row, cache, minted, past, strayed>>

\* SET with EX
Stored(value) == [value |-> value, ttl |-> TTL]

\* mutant: an existing entry lives on when a reader primes it
PrimeExtends(s) ==
    /\ op[s].prime.on
    /\ cache' = Stored(IF Cached THEN cache.value ELSE op[s].prime.value)
    /\ op' = [op EXCEPT ![s].prime = Nothing]
    /\ UNCHANGED <<row, minted, past, strayed>>

(* The fire-and-forget SET NX arrives.                                     *)
Prime(s) ==
    /\ op[s].prime.on
    /\ cache' = IF Cached THEN cache ELSE Stored(op[s].prime.value)
    /\ op' = [op EXCEPT ![s].prime = Nothing]
    /\ UNCHANGED <<row, minted, past, strayed>>

(* ... or is lost.                                                         *)
LosePrime(s) ==
    /\ op[s].prime.on
    /\ op' = [op EXCEPT ![s].prime = Nothing]
    /\ UNCHANGED <<row, cache, minted, past, strayed>>

Done(s) == [Blank EXCEPT !.prime = op[s].prime]
Finish(s) == op' = [op EXCEPT ![s] = Done(s)]

(* GET /auth/me: a fresh token when the role in the caller's is stale.     *)
Me(s) ==
    /\ op[s].pc = "me"
    /\ minted' = IF role # op[s].tok.role THEN minted \union {CurrentToken} ELSE minted
    /\ Finish(s)
    /\ UNCHANGED <<row, cache, past, strayed>>

\* The row goes to its next version (increment: 1);
\* signed is the token to answer with; the user's first one stands for none.
Increment(s, signed) ==
    /\ version < MaxVersion
    /\ version' = version + 1
    /\ op' = [op EXCEPT ![s].pc = "publish", ![s].bump = Write(version + 1),
                        ![s].tok = signed]

\* mutant: the role is written without a bump
PatchWithoutBump(s) ==
    /\ op[s].pc = "patch"
    /\ role' = op[s].want
    /\ strayed' = (strayed \/ (op[s].want # role /\ Revoked(op[s].tok)))
    /\ Finish(s)
    /\ UNCHANGED <<version, cache, minted, past>>

(* PATCH /auth/me with a role: the change is measured against the role in  *)
(* the caller's token, not against the row.                                *)
Patch(s) ==
    /\ op[s].pc = "patch"
    /\ role' = op[s].want
    /\ \/ /\ op[s].want # op[s].tok.role
          /\ Increment(s, [version |-> version + 1, role |-> op[s].want])
          /\ UNCHANGED strayed
       \/ /\ op[s].want = op[s].tok.role
          /\ strayed' = (strayed \/ (op[s].want # role /\ Revoked(op[s].tok)))
          /\ Finish(s)
          /\ UNCHANGED version
    /\ UNCHANGED <<cache, minted, past>>

(* incrementTokenVersion, called by logout-all, and by a coordinator's     *)
(* force-logout, which needs no token of the user.                         *)
Bump(s) ==
    /\ op[s].pc = "bump" \/ ("force" \in Kinds /\ Free(s))
    /\ Increment(s, Blank.tok)
    /\ UNCHANGED <<role, cache, minted, past, strayed>>

\* The version is stored whatever the entry holds; a failure is swallowed.
Publish(s) ==
    /\ op[s].pc = "publish"
    /\ \/ cache' = Stored(op[s].bump.value)
       \/ UNCHANGED cache
    /\ op' = [op EXCEPT ![s].pc = "disconnect", ![s].bump = Nothing]
    /\ UNCHANGED <<row, minted, past, strayed>>

\* mutant: a revoked user's sockets stay open
KeepSockets(s) ==
    /\ op[s].pc = "disconnect"
    /\ Finish(s)
    /\ UNCHANGED <<row, cache, minted, past, strayed>>

(* disconnectUserSockets closes every socket that has joined the user's    *)
(* room; after a role change the new token is signed in the same step.     *)
Disconnect(s) ==
    /\ op[s].pc = "disconnect"
    /\ op' = [t \in Slots |-> IF t = s \/ op[t].pc = "open" THEN Done(t) ELSE op[t]]
    /\ minted' = minted \union {op[s].tok}
    /\ UNCHANGED <<row, cache, past, strayed>>

(* The connection handler: the socket joins the user's room.               *)
Join(s) ==
    /\ op[s].pc = "join"
    /\ op' = [op EXCEPT ![s].pc = "open",
                        ![s].late = Revoked(op[s].tok) /\ Revoking = {}]
    /\ UNCHANGED <<row, cache, minted, past, strayed>>

(* POST /auth/login and the other ways to sign in read the row, ...        *)
Login(s) ==
    /\ "login" \in Kinds /\ Free(s)
    /\ op' = [op EXCEPT ![s].tok = CurrentToken, ![s].pc = "mint"]
    /\ UNCHANGED <<row, cache, minted, past, strayed>>

\* ... check the password, and sign what they read.
Mint(s) ==
    /\ op[s].pc = "mint"
    /\ minted' = minted \union {op[s].tok}
    /\ Finish(s)
    /\ UNCHANGED <<row, cache, past, strayed>>

(* A query fails, or a socket is closed.                                   *)
End(s) ==
    /\ op[s].pc \in {"me", "patch", "bump", "join", "open"}
    /\ Finish(s)
    /\ UNCHANGED <<row, cache, minted, past, strayed>>

\* The API process restarts.
Restart ==
    /\ op' = [s \in Slots |-> Blank]
    /\ op' # op
    /\ UNCHANGED <<row, cache, minted, past, strayed>>

(* Time goes on; what has been on its way for MaxDelay arrives, or is      *)
(* lost, before it does.                                                   *)
Older(w) == IF w.on THEN [w EXCEPT !.age = @ + 1] ELSE w
Tick ==
    /\ \A s \in Slots : \A w \in {op[s].prime, op[s].bump} : w.on => w.age < MaxDelay
    /\ op' = [s \in Slots |-> [op[s] EXCEPT !.prime = Older(@), !.bump = Older(@)]]
    /\ cache' = IF cache.ttl > 1 THEN [cache EXCEPT !.ttl = @ - 1] ELSE NoEntry
    /\ past' = [v \in Versions |-> IF v < version /\ past[v] < Window
                                   THEN past[v] + 1 ELSE past[v]]
    /\ UNCHANGED <<row, minted, strayed>>

Step(s) ==
    \/ LookupHit(s) \/ LookupMiss(s)
    \/ Prime(s) \/ LosePrime(s) \/ Me(s) \/ Patch(s) \/ Bump(s)
    \/ Publish(s) \/ Disconnect(s) \/ Join(s) \/ Login(s) \/ Mint(s) \/ End(s)
Next == Restart \/ Tick \/ \E s \in Slots : Step(s)

Spec == Init /\ [][Next]_vars

-----------------------------------------------------------------------------
(* A revoked token is accepted, by a request or by a socket handshake, for *)
(* less than one life of the Redis entry plus the delay of the write that  *)
(* stored it, in whatever order the writes of readers and revokers arrive  *)
(* and however many are lost (the bound tokenVersion.ts:7 promises).       *)
RevokedWithinWindow ==
    [][\A s \in Slots :
          /\ op[s].pc = "idle"
          /\ op'[s].pc \in {"me", "patch", "bump", "join"}
          /\ Revoked(op'[s].tok)
          => past[op'[s].tok.version] < Window]_vars

(* A session nobody revoked is never refused: the entry is never ahead of  *)
(* the row, and a token newer than a stale entry passes (routes/auth.ts:   *)
(* 202 on the token a role change hands back).                             *)
FreshTokenPasses ==
    \A tok \in minted :
        tok.version = version /\ Cached => IsCurrent(tok, cache.value)

(* A socket that outlives the revocation of its token joined the user's    *)
(* room when the last revocation had ended: its handshake was admitted     *)
(* before, or within the window, and its connection handler ran behind the *)
(* disconnect.  No call, mint, lost write or restart leaves another one.   *)
OnlyLateJoinersStay ==
    Revoking = {} =>
        \A s \in Slots :
            op[s].pc = "open" /\ Revoked(op[s].tok) => op[s].late

(* A token of the current version carries the role of the row, unless a    *)
(* caller that was already revoked, still inside the window, wrote a role  *)
(* that its own old token did not see as a change.                         *)
RoleDriftNeedsRevokedCaller ==
    (\E tok \in minted : tok.version = version /\ tok.role # role) => strayed

-----------------------------------------------------------------------------
(* What a comment in the source says and the late joiner refutes:          *)
(* disconnectUserSockets is called after a bump "so the user's realtime    *)
(* channel doesn't survive the HTTP revocation" (socket.ts:65).            *)
ChannelsRevoked ==
    Revoking = {} =>
        ~\E s \in Slots : op[s].pc = "open" /\ Revoked(op[s].tok)

=============================================================================
