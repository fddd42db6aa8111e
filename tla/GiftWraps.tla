---------------------------- MODULE GiftWraps ----------------------------
(***************************************************************************)
(* Gift wraps (kind 1059) on the Conduit relay (giftwrap.go): connections  *)
(* that authenticate, change their identity and leave, requests and live   *)
(* broadcasts that check the identity before they write.                   *)
(*                                                                         *)
(* Every message has a goroutine of its own.  The check of an event and    *)
(* its WriteJSON are two steps; so are the answer to a request and the     *)
(* registration of its listener, and the validation of an AUTH event and   *)
(* its entry in the registry.                                              *)
(***************************************************************************)
EXTENDS Integers, Sequences, FiniteSets

CONSTANTS
  Keys,       \* public keys
  Malformed,  \* a p tag that is no canonical key
  Wraps,      \* events of kind 1059
  PTags,      \* [Wraps -> Seq(Keys \cup {Malformed})]
  Conns,      \* websocket connections
  Modes,      \* the protection modes of this model
  Requests,   \* the filters clients ask for: [wraps, mixed, ps]
  NoKey, Absent, NoRequest,
  MaxAuths    \* bound: AUTH messages of a connection

ASSUME WrapAssumption ==
  /\ NoKey \notin Keys /\ Absent \notin Keys /\ NoRequest \notin Requests

VARIABLES
  mode,       \* GiftWrapProtection
  open,       \* [Conns -> "new" | "open" | "killed" | "gone"]
  identity,   \* [Conns -> the registry's entry: Absent, NoKey or a key]
  proving,    \* [Conns -> the key of an AUTH event not yet recorded]
  auths,      \* [Conns -> AUTH messages so far]
  saved,      \* wraps stored
  casting,    \* [Wraps -> listeners a broadcast has still to visit]
  listeners,  \* <<connection, filter>> pairs
  asked,      \* [Conns -> the filter a request is about]
  reading,    \* [Conns -> wraps its query has still to yield]
  sending,    \* <<connection, wrap>>: checked, not yet written
  handed,     \* <<connection, wrap>>: written
  proven      \* [Conns -> keys it has authenticated as]

conns == <<open, identity, proving, auths, proven>>
traffic == <<saved, casting, listeners, asked, reading, sending, handed>>
wrapVars == <<mode, conns, traffic>>

\* soleGiftWrapRecipient
Recipient(w) ==
  IF Len(PTags[w]) = 1 /\ PTags[w][1] # Malformed THEN PTags[w][1] ELSE NoKey

\* nostr.Filter.Matches, for a gift wrap.
Matches(f, w) ==
  f.wraps /\ (f.ps = {} \/ \E k \in DOMAIN PTags[w] : PTags[w][k] \in f.ps)

\* Mutant: any authenticated connection may ask for any one recipient.
AuthorizedAnyone(c, f) ==
  /\ identity[c] \in Keys
  /\ f.wraps /\ ~f.mixed
  /\ Cardinality(f.ps) = 1

\* authorizeGiftWrapFilterForIdentity for the connection's current identity.
Authorized(c, f) ==
  /\ identity[c] \in Keys
  /\ f.wraps /\ ~f.mixed
  /\ f.ps = {identity[c]}

MayDeliver(c, f, w) ==
  Authorized(c, f) /\ Matches(f, w) /\ {Recipient(w)} = f.ps

---------------------------------------------------------------------------
(* The life of a connection. *)

Connect(c) ==
  /\ open[c] = "new"
  /\ open' = [open EXCEPT ![c] = "open"]
  /\ identity' = [identity EXCEPT ![c] = NoKey]
  /\ UNCHANGED <<mode, proving, auths, proven, traffic>>

\* An AUTH event of k passes validation ...
Authenticate(c, k) ==
  /\ open[c] = "open" /\ proving[c] = NoKey /\ auths[c] < MaxAuths
  /\ proving' = [proving EXCEPT ![c] = k]
  /\ auths' = [auths EXCEPT ![c] = @ + 1]
  /\ UNCHANGED <<mode, open, identity, proven, traffic>>

\* Mutant: the entry is made although the connection has left.
RecordAnyway(c) ==
  /\ proving[c] # NoKey
  /\ identity' = [identity EXCEPT ![c] = proving[c]]
  /\ proving' = [proving EXCEPT ![c] = NoKey]
  /\ proven' = [proven EXCEPT ![c] = @ \cup {proving[c]}]
  /\ UNCHANGED <<mode, open, auths, traffic>>

\* ... and OnAuth records it, unless the connection has left.
Record(c) ==
  /\ proving[c] # NoKey
  /\ identity' = [identity EXCEPT ![c] = IF @ = Absent THEN Absent ELSE proving[c]]
  /\ proving' = [proving EXCEPT ![c] = NoKey]
  /\ proven' = [proven EXCEPT ![c] = @ \cup {proving[c]}]
  /\ UNCHANGED <<mode, open, auths, traffic>>

\* kill: OnDisconnect and the closed socket, then the listeners.
Disconnect(c) ==
  /\ open[c] = "open"
  /\ open' = [open EXCEPT ![c] = "killed"]
  /\ identity' = [identity EXCEPT ![c] = Absent]
  /\ UNCHANGED <<mode, proving, auths, proven, traffic>>

RemoveListeners(c) ==
  /\ open[c] = "killed"
  /\ open' = [open EXCEPT ![c] = "gone"]
  /\ listeners' = {l \in listeners : l[1] # c}
  /\ UNCHANGED <<mode, identity, proving, auths, proven,
                 saved, casting, asked, reading, sending, handed>>

---------------------------------------------------------------------------
(* Publishing, requests and what is written. *)

\* A wrap without exactly one recipient is refused; any other is stored and
\* broadcast to the listeners of that moment.
Publish(w) ==
  /\ w \notin saved /\ Recipient(w) # NoKey
  /\ saved' = saved \cup {w}
  /\ casting' = [casting EXCEPT ![w] = {l \in listeners : Matches(l[2], w)}]
  /\ UNCHANGED <<mode, conns, listeners, asked, reading, sending, handed>>

\* PreventBroadcast decides about one listener.
Cast(w, l) ==
  /\ l \in casting[w]
  /\ casting' = [casting EXCEPT ![w] = @ \ {l}]
  /\ sending' = IF mode = "enforce" /\ ~MayDeliver(l[1], l[2], w) THEN sending
                ELSE sending \cup {<<l[1], w>>}
  /\ UNCHANGED <<mode, conns, saved, listeners, asked, reading, handed>>

\* OnRequest; only enforcement refuses.
Request(c, f) ==
  /\ open[c] = "open" /\ asked[c] = NoRequest
  /\ mode = "enforce" /\ f.wraps => Authorized(c, f)
  /\ asked' = [asked EXCEPT ![c] = f]
  /\ reading' = [reading EXCEPT ![c] = {w \in saved : Matches(f, w)}]
  /\ UNCHANGED <<mode, conns, saved, casting, listeners, sending, handed>>

\* QueryStored yields a stored wrap.
Yield(c, w) ==
  /\ w \in reading[c]
  /\ reading' = [reading EXCEPT ![c] = @ \ {w}]
  /\ sending' = IF mode = "enforce" /\ ~MayDeliver(c, asked[c], w) THEN sending
                ELSE sending \cup {<<c, w>>}
  /\ UNCHANGED <<mode, conns, saved, casting, listeners, asked, handed>>

\* The answer is complete: the listener is registered, if the client is still
\* known.
Listen(c) ==
  /\ asked[c] # NoRequest /\ reading[c] = {}
  /\ listeners' = IF open[c] = "gone" THEN listeners ELSE listeners \cup {<<c, asked[c]>>}
  /\ asked' = [asked EXCEPT ![c] = NoRequest]
  /\ UNCHANGED <<mode, conns, saved, casting, reading, sending, handed>>

\* WriteJSON; on a closed socket it fails.
Write(s) ==
  /\ s \in sending
  /\ sending' = sending \ {s}
  /\ handed' = IF open[s[1]] = "open" THEN handed \cup {s} ELSE handed
  /\ UNCHANGED <<mode, conns, saved, casting, listeners, asked, reading>>

---------------------------------------------------------------------------
WrapInit ==
  /\ mode \in Modes
  /\ open = [c \in Conns |-> "new"]
  /\ identity = [c \in Conns |-> Absent]
  /\ proving = [c \in Conns |-> NoKey]
  /\ auths = [c \in Conns |-> 0]
  /\ saved = {} /\ casting = [w \in Wraps |-> {}] /\ listeners = {}
  /\ asked = [c \in Conns |-> NoRequest] /\ reading = [c \in Conns |-> {}]
  /\ sending = {} /\ handed = {} /\ proven = [c \in Conns |-> {}]

WrapNext ==
  \/ \E c \in Conns :
       \/ Connect(c) \/ Record(c) \/ Disconnect(c) \/ RemoveListeners(c) \/ Listen(c)
       \/ \E k \in Keys : Authenticate(c, k)
       \/ \E f \in Requests : Request(c, f)
       \/ \E w \in Wraps : Yield(c, w)
  \/ \E w \in Wraps : Publish(w) \/ \E l \in casting[w] : Cast(w, l)
  \/ \E s \in sending : Write(s)

WrapSpec == WrapInit /\ [][WrapNext]_wrapVars

---------------------------------------------------------------------------
\* Under enforcement a gift wrap is only ever written to a connection that
\* has authenticated as its recipient, whatever it asked for under which
\* identity and however its identity changed since.
WrapsReachOwner ==
  mode = "enforce" =>
    \A s \in handed : Recipient(s[2]) \in proven[s[1]]

\* The registry forgets a connection that has left, also when an AUTH of
\* this connection is still being handled.
RegistryForgets == \A c \in Conns : open[c] \in {"killed", "gone"} => identity[c] = Absent

\* A wrap needs its owner at the other end, and an identity its connection.
WrapsPrivate == WrapsReachOwner /\ RegistryForgets
=============================================================================
