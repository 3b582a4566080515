----------------------------- MODULE ServerKeys -----------------------------
(***************************************************************************)
(* The key side of TunnelServer (packages/tunnel/src/server.ts): the       *)
(* X25519 key pair, the attestation quote obtained for it, the server_kx   *)
(* announcement each control socket receives and the symmetric key it is   *)
(* given back.                                                             *)
(*                                                                         *)
(* #getQuote makes a fresh key pair synchronously and awaits the quote; it *)
(* is called once by the constructor, whose promise nobody awaits, and     *)
(* once more by every control socket that is opened before keyReady.  All  *)
(* callers share the fields x25519PublicKey, quote and keyReady, so the    *)
(* order in which their quotes arrive matters.                             *)
(*                                                                         *)
(* A key pair is named after the call that made it.  A quote is named      *)
(* after the key pair that was passed to getQuote: it binds that key.      *)
(***************************************************************************)
EXTENDS Naturals

CONSTANTS
    Sockets,   \* control sockets (/__ra__), over the life of the system
    Ctor,      \* the constructor's own call of #getQuote
    None,      \* null / undefined
    MaxProcs   \* bound: number of lives of the server process

Callers == Sockets \cup {Ctor}

\* A key pair (x25519PublicKey, x25519PrivateKey): the server process and the
\* #getQuote call that generated it.
KeyPairs == [proc : 1..MaxProcs, by : Callers]

\* The server_kx message, as far as the binding is concerned.
Announcements == [pub : KeyPairs, quote : KeyPairs]

\* A client_kx message: a symmetric key sealed to a public key. The key is
\* named after the socket whose server_kx made the client generate it.
Sealed == [key : Sockets, to : KeyPairs]

ASSUME CallersAssumption == Ctor \notin Sockets

ASSUME NoneAssumption == None \notin Sockets \cup KeyPairs \cup Announcements

ASSUME ProcsAssumption == MaxProcs \in Nat \ {0}

VARIABLES
    proc,       \* which life of the server process this is
    pub,        \* this.x25519PublicKey / x25519PrivateKey
    quote,      \* this.quote (with verifierData), or None
    keyReady,   \* this.keyReady
    getQuote,   \* per caller, how far its #getQuote call has come
    ctl,        \* per socket, the server's end of the control channel
    announced,  \* per socket, the server_kx put on the wire, or None
    symKeyOf    \* symmetricKeyBySocket

keyVars    == <<proc, pub, quote, keyReady, getQuote>>
serverVars == <<proc, pub, quote, keyReady, getQuote, ctl, announced, symKeyOf>>

ServerTypeOK ==
    /\ proc \in 1..MaxProcs
    /\ pub \in KeyPairs
    /\ quote \in KeyPairs \cup {None}
    /\ keyReady \in BOOLEAN
    /\ getQuote \in [Callers -> {"none", "waiting", "resolved", "rejected", "done"}]
    /\ ctl \in [Sockets -> {"idle", "open", "closing", "closed"}]
    /\ announced \in [Sockets -> Announcements \cup {None}]
    /\ symKeyOf \in [Sockets -> Sockets \cup {None}]

\* The state right after the constructor: its #getQuote has generated a key
\* pair and is waiting for the quote.
ServerInit ==
    /\ proc = 1
    /\ pub = [proc |-> 1, by |-> Ctor]
    /\ quote = None
    /\ keyReady = FALSE
    /\ getQuote = [c \in Callers |-> IF c = Ctor THEN "waiting" ELSE "none"]
    /\ ctl = [s \in Sockets |-> "idle"]
    /\ announced = [s \in Sockets |-> None]
    /\ symKeyOf = [s \in Sockets |-> None]

-----------------------------------------------------------------------------
\* The synchronous part of #getQuote: a new key pair replaces the shared one.
StartGetQuote(c) ==
    /\ pub' = [proc |-> proc, by |-> c]
    /\ getQuote' = [getQuote EXCEPT ![c] = "waiting"]

\* Mutant: no test of keyReady, every socket gets a key pair of its own.
SendServerKx_Regenerates(s) == StartGetQuote(s) /\ UNCHANGED announced

\* #sendServerKx up to its first await, run when a control socket is opened
\* (#onHonoOpen, #onExpressControlConnection).
SendServerKx(s) ==
    \/ /\ keyReady
       /\ announced' = [announced EXCEPT ![s] = [pub |-> pub, quote |-> quote]]
       /\ UNCHANGED <<pub, getQuote>>
    \/ /\ ~keyReady
       /\ StartGetQuote(s)
       /\ UNCHANGED announced

OpenControl(s) ==
    /\ ctl[s] = "idle"
    /\ ctl' = [ctl EXCEPT ![s] = "open"]
    /\ SendServerKx(s)
    /\ UNCHANGED <<proc, quote, keyReady, symKeyOf>>

\* The await in #getQuote returns: quote and keyReady are set together. The
\* caller of #getQuote is resumed in a later microtask.
QuoteArrives(c) ==
    /\ getQuote[c] = "waiting"
    /\ quote' = [proc |-> proc, by |-> c]
    /\ keyReady' = TRUE
    /\ getQuote' = [getQuote EXCEPT ![c] = IF c = Ctor THEN "done" ELSE "resolved"]
    /\ UNCHANGED <<proc, pub, ctl, announced, symKeyOf>>

\* getQuote rejects: #getQuote leaves the new key pair in place and rejects.
QuoteFails(c) ==
    /\ getQuote[c] = "waiting"
    /\ getQuote' = [getQuote EXCEPT ![c] = IF c = Ctor THEN "done" ELSE "rejected"]
    /\ UNCHANGED <<proc, pub, quote, keyReady, ctl, announced, symKeyOf>>

\* #sendServerKx resumes after its await. It announces what the shared fields
\* hold now; a socket that is no longer open swallows the message.
Announce(s) ==
    /\ getQuote[s] = "resolved"
    /\ getQuote' = [getQuote EXCEPT ![s] = "done"]
    /\ announced' = IF ctl[s] = "open"
                    THEN [announced EXCEPT ![s] = [pub |-> pub, quote |-> quote]]
                    ELSE announced
    /\ UNCHANGED <<proc, pub, quote, keyReady, ctl, symKeyOf>>

\* Mutant: the catch block only logs, the socket is not closed.
AbandonControl_Logs(s) ==
    /\ getQuote[s] = "rejected"
    /\ getQuote' = [getQuote EXCEPT ![s] = "done"]
    /\ UNCHANGED <<proc, pub, quote, keyReady, ctl, announced, symKeyOf>>

\* #sendServerKx resumes after a rejected #getQuote: it closes the socket, and
\* what it does next (a server_kx on the closing socket, or an error that
\* closes it again) has no further effect.
AbandonControl(s) ==
    /\ getQuote[s] = "rejected"
    /\ getQuote' = [getQuote EXCEPT ![s] = "done"]
    /\ ctl' = IF ctl[s] = "open" THEN [ctl EXCEPT ![s] = "closing"] ELSE ctl
    /\ UNCHANGED <<proc, pub, quote, keyReady, announced, symKeyOf>>

\* Mutant: no test whether the socket already has a key.
ClientKx_Rekeys(s, sealed) ==
    /\ ctl[s] \in {"open", "closing"}
    /\ symKeyOf' = IF sealed.to = pub THEN [symKeyOf EXCEPT ![s] = sealed.key] ELSE symKeyOf
    /\ UNCHANGED <<proc, pub, quote, keyReady, getQuote, ctl, announced>>

\* Mutant: the key is stored although the sealed box was made for another key.
ClientKx_IgnoresSeal(s, sealed) ==
    /\ ctl[s] \in {"open", "closing"}
    /\ symKeyOf' = IF symKeyOf[s] = None THEN [symKeyOf EXCEPT ![s] = sealed.key] ELSE symKeyOf
    /\ UNCHANGED <<proc, pub, quote, keyReady, getQuote, ctl, announced>>

\* #handleControlMessage on client_kx: the first key that opens is kept.
ClientKx(s, sealed) ==
    /\ ctl[s] \in {"open", "closing"}
    /\ symKeyOf' = IF symKeyOf[s] = None /\ sealed.to = pub
                   THEN [symKeyOf EXCEPT ![s] = sealed.key]
                   ELSE symKeyOf
    /\ UNCHANGED <<proc, pub, quote, keyReady, getQuote, ctl, announced>>

\* Mutant: the close handler forgets symmetricKeyBySocket.delete.
ControlClosed_KeepsKey(s) ==
    /\ ctl[s] \in {"open", "closing"}
    /\ ctl' = [ctl EXCEPT ![s] = "closed"]
    /\ UNCHANGED <<proc, pub, quote, keyReady, getQuote, announced, symKeyOf>>

\* The close event of a control socket: every per-socket entry is removed.
ControlClosed(s) ==
    /\ ctl[s] \in {"open", "closing"}
    /\ ctl' = [ctl EXCEPT ![s] = "closed"]
    /\ symKeyOf' = [symKeyOf EXCEPT ![s] = None]
    /\ UNCHANGED <<proc, pub, quote, keyReady, getQuote, announced>>

\* The server process dies and a new TunnelServer is constructed; nothing of
\* the above is persisted.
Restart ==
    /\ proc < MaxProcs
    /\ proc' = proc + 1
    /\ pub' = [proc |-> proc', by |-> Ctor]
    /\ quote' = None
    /\ keyReady' = FALSE
    /\ getQuote' = [c \in Callers |-> IF c = Ctor THEN "waiting" ELSE "none"]
    /\ ctl' = [s \in Sockets |-> IF ctl[s] = "idle" THEN "idle" ELSE "closed"]
    /\ symKeyOf' = [s \in Sockets |-> None]
    /\ UNCHANGED announced

-----------------------------------------------------------------------------
(***************************************************************************)
(* The server alone: clients may seal a key to any public key they were    *)
(* ever announced, and send it on any socket.                              *)
(***************************************************************************)
AnyClientKx(s) ==
    \E k \in Sockets :
        /\ announced[k] # None
        /\ ClientKx(s, [key |-> k, to |-> announced[k].pub])

ServerStep(s) ==
    \/ OpenControl(s)
    \/ Announce(s)
    \/ AbandonControl(s)
    \/ AnyClientKx(s)
    \/ ControlClosed(s)

ServerNext ==
    \/ \E s \in Sockets : ServerStep(s)
    \/ \E c \in Callers : QuoteArrives(c) \/ QuoteFails(c)
    \/ Restart

\* getQuote settles, and the microtasks that wait for it run.
ServerFairness ==
    /\ \A c \in Callers : WF_serverVars(QuoteArrives(c) \/ QuoteFails(c))
    /\ \A s \in Sockets : WF_serverVars(Announce(s)) /\ WF_serverVars(AbandonControl(s))

ServerSpec == ServerInit /\ [][ServerNext]_serverVars

FairServerSpec == ServerSpec /\ ServerFairness

-----------------------------------------------------------------------------
(***************************************************************************)
(* Properties.                                                             *)
(***************************************************************************)

\* Every server_kx this process has sent carries the key pair it still holds:
\* a #getQuote that was started before keyReady replaces the shared key pair
\* only before anything was announced, so a client_kx sealed to an announced
\* key can be opened however late it comes.
AnnouncedKeyIsLive ==
    \A s \in Sockets :
        announced[s] # None /\ announced[s].pub.proc = proc => announced[s].pub = pub

\* A symmetric key in symmetricKeyBySocket was sealed for the key pair that
\* this process announced: no key negotiated with an earlier life of the
\* server is ever accepted.
InstalledKeyIsForThisProcess ==
    \A s \in Sockets :
        symKeyOf[s] # None =>
            /\ announced[symKeyOf[s]] # None
            /\ announced[symKeyOf[s]].pub = pub

\* The close handler leaves no symmetric key behind, whatever client_kx
\* messages were still being handled.
ClosedSocketHoldsNoKey ==
    \A s \in Sockets : ctl[s] \in {"idle", "closed"} => symKeyOf[s] = None

\* #handleControlMessage never replaces a socket's symmetric key: a second
\* client_kx cannot re-key a live channel.
KeyNeverReplaced ==
    [][\A s \in Sockets : symKeyOf[s] # None => symKeyOf'[s] \in {symKeyOf[s], None}]_serverVars

\* The strengthening that makes the three invariants above inductive: the key
\* pair and the quote belong to this process, keyReady says there is a quote
\* and is what every resumed caller relies on, nothing was announced by this
\* process before keyReady, and an announcement never mixes two processes.
KeysAndAnnouncements ==
    /\ pub.proc = proc
    /\ quote # None => quote.proc = proc
    /\ keyReady => quote # None
    /\ \A s \in Sockets : getQuote[s] = "resolved" => keyReady
    /\ \A s \in Sockets :
          announced[s] # None =>
              /\ announced[s].pub.proc <= proc
              /\ announced[s].quote.proc = announced[s].pub.proc
              /\ announced[s].pub.proc = proc => keyReady

\* A socket that was announced a key will not be announced another.
AnnouncedOnce ==
    \A s \in Sockets :
        /\ ctl[s] = "idle" => getQuote[s] = "none" /\ announced[s] = None
        /\ getQuote[s] \in {"waiting", "resolved"} => announced[s] = None

\* All announcements of one process, the running one or an earlier one, carry
\* the same public key.
OneKeyPerProcess ==
    \A s, t \in Sockets :
        /\ announced[s] # None
        /\ announced[t] # None
        /\ announced[s].pub.proc = announced[t].pub.proc
        => announced[s].pub = announced[t].pub

ServerInv ==
    /\ ServerTypeOK
    /\ KeysAndAnnouncements
    /\ AnnouncedOnce
    /\ OneKeyPerProcess
    /\ AnnouncedKeyIsLive
    /\ InstalledKeyIsForThisProcess
    /\ ClosedSocketHoldsNoKey

\* What packages/tunnel/README.md asks of getQuote, seen by the client: the
\* quote in a server_kx message is the one obtained for its x25519PublicKey. It
\* does not hold of the first sockets, whose #getQuote calls overlap; no proof
\* uses it, and the client's binding check makes up for it.
AnnouncedQuoteIsBound ==
    \A s \in Sockets :
        announced[s] # None => announced[s].quote = announced[s].pub

\* A control socket the server accepted is eventually sent a server_kx or
\* closed: no client is left without an answer because a quote was late,
\* failed, or was fetched by somebody else.
EveryControlSocketAnswered ==
    \A s \in Sockets : ctl[s] = "open" ~> (announced[s] # None \/ ctl[s] # "open")
=============================================================================
