----------------------------- MODULE BindingAnswer -----------------------------
(***************************************************************************)
(* Which answer a Binding request gets, and what it depends on: main.rs    *)
(* starts the workers one after the other and gives each handler the list  *)
(* of addresses CHANGE-REQUEST is resolved against; a handler answers from *)
(* that list, the identity of its socket and the decision table            *)
(* (decision.rs, change_request.rs, ice.rs, response.rs).                  *)
(*                                                                         *)
(* A request is the set of attributes it carries, the flags of its         *)
(* CHANGE-REQUEST and the family of its OTHER-ADDRESS.  The transaction    *)
(* cache, the outbox and the sockets behind an answer are the subject of   *)
(* TransactionCache and ControlPath.                                       *)
(***************************************************************************)
EXTENDS Integers, Sequences, FiniteSets

CONSTANTS
  Configs,    \* the command lines: [ips: addresses, port, workers]
  V6,         \* the addresses that are IPv6; the others are IPv4
  Wild,       \* the unspecified addresses, 0.0.0.0 and [::]
  Ephemeral,  \* the ports the system chooses from for port 0
  Requests,   \* the datagrams a peer may send
  Faults,     \* what may fail: "worker", "udp", "sender", "tcp"
  Nowhere,    \* the absence of an identity
  MaxAnswers  \* bound: the requests that arrive; a handler keeps nothing of one for
              \* the next, outside the transaction cache

Attributes == {"software", "controlled", "controlling", "priority", "ignored",
               "foreign", "optional", "required"}
Families   == {"v4", "v6"}

ASSUME AnswerAssumption ==
  /\ \A c \in Configs : /\ c.ips \in Seq(V6 \cup Wild \cup {c.ips[i] : i \in DOMAIN c.ips})
                        /\ c.ips # <<>> /\ c.port \in Nat /\ c.workers \in Nat \ {0}
                        /\ \A i \in DOMAIN c.ips, p \in {c.port} \cup Ephemeral :
                             Nowhere # [ip |-> c.ips[i], port |-> p]
  /\ Ephemeral \subseteq Nat \ {0} /\ MaxAnswers \in Nat
  /\ Requests \subseteq [type: {"request", "indication"}, attrs: SUBSET Attributes,
                         change: SUBSET {"ip", "port"}, other: {"none"} \cup Families]

VARIABLES
  cli,        \* the command line of this run
  phase,      \* of main: "starting" workers, "up", or "exited" with an error
  workers,    \* the workers tried so far: their sockets and their handlers
  answers,    \* history: the requests answered, with what was sent for them
  unread      \* kernel: how many requests lie in sockets nobody reads

vars == <<cli, phase, workers, answers, unread>>

Identity(ip, port) == [ip |-> ip, port |-> port]
Family(id)         == IF id.ip \in V6 THEN "v6" ELSE "v4"

--------------------------------------------------------------------------------
(* The list of addresses.                                                   *)

\* The configured listeners, and the one a worker binds.
Listeners     == [i \in DOMAIN cli.ips |-> Identity(cli.ips[i], cli.port)]
Listening(n)  == Listeners[((n - 1) % Len(Listeners)) + 1]

SlipAnyAddress(list, id) == Append(list, id)

AddAddress(list, id) ==
  IF \E i \in DOMAIN list : list[i] = id THEN list ELSE Append(list, id)

SlipPlaceholder(id) == id.port = 0

Placeholder(id) == id.ip \in Wild \/ id.port = 0

ListenIdentities(listeners) ==
  LET upTo[n \in 0 .. Len(listeners)] ==
        IF n = 0 THEN <<>>
        ELSE IF Placeholder(listeners[n]) THEN upTo[n - 1]
        ELSE AddAddress(upTo[n - 1], listeners[n])
  IN  upTo[Len(listeners)]

SlipSoFar(n) ==
  [udp |-> Nowhere, tcp |-> Nowhere,
   addresses |-> ListenIdentities(SubSeq(Listeners, 1, IF n < Len(Listeners) THEN n ELSE Len(Listeners)))]

SlipOwnOnly(n) == [udp |-> Nowhere, tcp |-> Nowhere, addresses |-> <<>>]

\* The handler worker n starts with: no socket, and the list of every worker.
NewHandler(n) == [udp |-> Nowhere, tcp |-> Nowhere, addresses |-> ListenIdentities(Listeners)]

SetUdp(h, id) ==
  [h EXCEPT !.udp = id, !.addresses = AddAddress(@, id)]

SetTcpIdentity(h, id) ==
  [h EXCEPT !.tcp = id, !.addresses = AddAddress(@, id)]

--------------------------------------------------------------------------------
(* The decision table.                                                      *)

NotComprehensionRequired == {"ignored"}

SlipPriorityKnown == {"software", "controlled", "controlling", "priority"}

BindingKnown == {"software", "controlled", "controlling"}

\* Attributes that are neither ignored nor read: the whole set is rejected.
Rejecting(r) == r.attrs \ (NotComprehensionRequired \cup BindingKnown)

\* find_source: id differs from the default exactly where the flags ask for it.
Satisfies(change, id, default) ==
  /\ id # default
  /\ (id.ip # default.ip) <=> ("ip" \in change)
  /\ (id.port # default.port) <=> ("port" \in change)

\* resolve: the first address of the list that satisfies the flags.
Resolved(change, default, list) ==
  LET fit == {i \in DOMAIN list : Satisfies(change, list[i], default)}
  IN  IF fit = {} THEN Nowhere
      ELSE list[CHOOSE i \in fit : \A j \in fit : i <= j]

\* validate_other_address: the family the peer names is not that of the connection.
WrongFamily(r, default) == r.other \in Families \ {Family(default)}

\* IceRole::from_presence, and role_conflict: the peer claims both roles; the server
\* has none of its own.
RoleOf(r) == r.attrs \cap {"controlled", "controlling"}
RoleConflict(r) == RoleOf(r) = {"controlled", "controlling"}

\* IceValidation::error.
ErrorOf == [WrongFamily |-> "400", Conflict |-> "487", UnknownAttribute |-> "420"]

\* BindingResponsePlan, as far as a server without redirects fills it in.
Plans(sources) ==
  [outcome : {"success", "400", "420", "487"}, source : sources \cup {Nowhere},
   software : BOOLEAN, unknown : SUBSET Attributes]

Failure(code, named) ==
  [outcome |-> code, source |-> Nowhere, software |-> FALSE, unknown |-> named]
Success(source, r) ==
  [outcome |-> "success", source |-> source, software |-> "software" \in r.attrs, unknown |-> {}]

\* The checks in their order: the first that fails is the answer.
Checks(r, default, list) ==
  << [fails  |-> Rejecting(r) # {},
      answer |-> Failure("420", Rejecting(r))],
     [fails  |-> WrongFamily(r, default),
      answer |-> Failure(ErrorOf.WrongFamily, {})],
     [fails  |-> RoleConflict(r),
      answer |-> Failure(ErrorOf.Conflict, {})],
     [fails  |-> "priority" \in r.attrs,
      answer |-> Failure(ErrorOf.UnknownAttribute, {})],
     [fails  |-> r.change # {} /\ Resolved(r.change, default, list) = Nowhere,
      answer |-> Failure("420", {})] >>

Decide(r, default, list) ==
  LET checks == Checks(r, default, list)
      failed == {i \in DOMAIN checks : checks[i].fails}
  IN  IF failed # {}
      THEN checks[CHOOSE i \in failed : \A j \in failed : i <= j].answer
      ELSE Success(IF r.change = {} THEN Nowhere ELSE Resolved(r.change, default, list), r)

\* parse refuses an unknown attribute that must be understood, and the handler
\* answers requests only.
Answerable(r) == "required" \notin r.attrs /\ r.type = "request"

\* send_plan: XOR-MAPPED-ADDRESS reports the source of the plan, the default when
\* it names none.
Mapped(plan, default) ==
  IF plan.outcome # "success" THEN Nowhere
  ELSE IF plan.source = Nowhere THEN default ELSE plan.source

--------------------------------------------------------------------------------
(* The start of the process.                                                *)

Init ==
  /\ cli \in Configs
  /\ phase = "starting"
  /\ workers = <<>>
  /\ answers = <<>>
  /\ unread = 0

\* Where a socket lands that is bound to a listening address.
Landing(listening) ==
  {Identity(listening.ip, p) : p \in IF listening.port = 0 THEN Ephemeral ELSE {listening.port}}

Failing(fault) == IF fault \in Faults THEN {Nowhere} ELSE {}

\* start_worker: the datagram socket, the reply sender on the same address, the
\* control listener; without any socket the worker is skipped.
StartWorker ==
  /\ phase = "starting" /\ Len(workers) < cli.workers
  /\ LET n == Len(workers) + 1 IN
     \E udp \in Landing(Listening(n)) \cup Failing("udp"),
        tcp \in Landing(Listening(n)) \cup Failing("tcp") :
     \E sender \in {udp} \cup (IF udp = Nowhere THEN {} ELSE Failing("sender")) :
       LET fresh == NewHandler(n)
           sends == IF sender = Nowhere THEN fresh ELSE SetUdp(fresh, sender)
       IN  workers' = Append(workers,
             [udp |-> udp, tcp |-> tcp,
              handler |-> IF tcp = Nowhere THEN sends ELSE SetTcpIdentity(sends, tcp)])
  /\ UNCHANGED <<cli, phase, answers, unread>>

\* Worker::new or the spawn of its thread fails: main returns the error, and the
\* process ends with every worker it had started.
StartFails ==
  /\ phase = "starting" /\ Len(workers) < cli.workers /\ "worker" \in Faults
  /\ phase' = "exited" /\ workers' = <<>>
  /\ UNCHANGED <<cli, answers, unread>>

Bound(w)   == {workers[w].udp, workers[w].tcp} \ {Nowhere}
Running(w) == Bound(w) # {}

AllStarted ==
  /\ phase = "starting" /\ Len(workers) = cli.workers
  /\ phase' = IF \E w \in DOMAIN workers : Running(w) THEN "up" ELSE "exited"
  /\ UNCHANGED <<cli, workers, answers, unread>>

--------------------------------------------------------------------------------
(* The handlers.                                                            *)

\* What worker w sends for request r that came in on a socket with this identity.
Answered(w, via, r, default) ==
  LET plan == Decide(r, default, workers[w].handler.addresses)
  IN  [worker |-> w, via |-> via, request |-> r, plan |-> plan,
       mapped |-> Mapped(plan, default), from |-> default]

Arrivals == Len(answers) + unread

\* on_stun: the reply leaves on the sender, whatever source the plan names.
OnStun(w, r) ==
  /\ Running(w) /\ workers[w].handler.udp # Nowhere
  /\ Answerable(r) /\ Arrivals < MaxAnswers
  /\ answers' = Append(answers, Answered(w, "udp", r, workers[w].handler.udp))
  /\ UNCHANGED <<cli, phase, workers, unread>>

\* on_tcp_stun: the reply is queued for the connection it came on.
OnTcpStun(w, r) ==
  /\ Running(w) /\ workers[w].handler.tcp # Nowhere
  /\ Answerable(r) /\ Arrivals < MaxAnswers
  /\ answers' = Append(answers, Answered(w, "tcp", r, workers[w].handler.tcp))
  /\ UNCHANGED <<cli, phase, workers, unread>>

\* SO_REUSEPORT spreads the datagrams for an address over the sockets bound to it;
\* the sender of reply_socket is one of them, and is written to only.
LeftUnread(w) ==
  /\ Running(w) /\ workers[w].handler.udp # Nowhere
  /\ Arrivals < MaxAnswers
  /\ unread' = unread + 1
  /\ UNCHANGED <<cli, phase, workers, answers>>

Next ==
  \/ StartWorker
  \/ StartFails
  \/ AllStarted
  \/ \E w \in DOMAIN workers :
       \/ LeftUnread(w)
       \/ \E r \in Requests : OnStun(w, r) \/ OnTcpStun(w, r)

Spec == Init /\ [][Next]_vars

--------------------------------------------------------------------------------
(* Properties.                                                              *)

\* Handlers know the identities they answer with, and their lists name no address
\* twice (set_addresses, set_udp, set_tcp_identity).  What a plan answers from is an
\* address of the handler's list.
TypeOK ==
  /\ cli \in Configs /\ phase \in {"starting", "up", "exited"}
  /\ Len(workers) <= cli.workers
  /\ \A w \in DOMAIN workers :
       LET h    == workers[w].handler
           list == h.addresses
       IN  /\ Cardinality({list[i] : i \in DOMAIN list}) = Len(list)
           /\ {h.udp, h.tcp} \subseteq {list[i] : i \in DOMAIN list} \cup {Nowhere}
  /\ phase # "exited" => \A i \in DOMAIN answers :
       LET list == workers[answers[i].worker].handler.addresses IN
       answers[i].plan \in Plans({list[n] : n \in DOMAIN list})

\* The answers given, while the process runs.
Given == IF phase = "exited" THEN {} ELSE {answers[i] : i \in DOMAIN answers}

\* The same request gets the same answer from every worker and over both
\* transports, as long as it is answered as the same address: which sockets a
\* worker could bind, and when it was started, do not show (resolve).
SameAnswerEverywhere ==
  \A x \in Given, w \in DOMAIN workers, via \in {"udp", "tcp"} :
    cli.port # 0 /\ Running(w) /\ workers[w].handler[via] = x.from =>
      Answered(w, via, x.request, x.from).plan = x.plan

\* A CHANGE-REQUEST that a configured address can satisfy is never refused: every
\* worker resolves it against the listeners of all (start_worker, resolve), bound or
\* not.
ConfiguredIsHonoured ==
  \A x \in Given :
    x.plan.outcome = "420" /\ x.plan.unknown = {} =>
      ~ \E i \in DOMAIN Listeners :
          ~ Placeholder(Listeners[i]) /\ Satisfies(x.request.change, Listeners[i], x.from)

\* The server is complete: every listener has its worker, every worker its sockets.
Complete ==
  /\ phase = "up" /\ cli.workers >= Len(Listeners)
  /\ \A w \in DOMAIN workers : Nowhere \notin {workers[w].handler.udp, workers[w].handler.tcp}

\* The address that an answer reports is one that some worker of a complete server
\* bound (listen_identities, send_plan).  That is not to say that a peer can reach it:
\* a worker on a wildcard listener, the default, keeps the wildcard as the identity of
\* its sockets and reports it (set_udp, set_tcp_identity).  But no other worker does:
\* whoever asks at a proper address is never sent to a wildcard.
ReportedIsBound ==
  \A x \in Given : x.mapped # Nowhere =>
    /\ x.mapped.ip \in Wild => x.from.ip \in Wild
    /\ Complete => \E w \in DOMAIN workers : x.mapped \in Bound(w)

\* Which attributes a 420 leaves unnamed.  All that the request's own contents call for
\* are named at once: left out, together with the CHANGE-REQUEST, they leave a request
\* that is not refused with a 420, and a retry that keeps the CHANGE-REQUEST has none
\* to name.  A 420 that names nothing is one about the CHANGE-REQUEST alone, the only
\* attribute that is refused without its name (unknown_attribute_codes, decide,
\* with_change_action).
OnlyChangeUnnamed ==
  \A x \in Given :
    LET r        == x.request
        list     == workers[x.worker].handler.addresses
        Retried(attrs, change) ==
          Decide([r EXCEPT !.attrs = attrs, !.change = change], x.from, list)
        others   == r.attrs \ x.plan.unknown
    IN  x.plan.outcome = "420" =>
          /\ Retried(others, {}).outcome # "420"
          /\ Retried(others, r.change).unknown = {}
          /\ x.plan.unknown = {} <=> Retried(r.attrs, {}).outcome # "420"

\* A datagram that reaches an address of the server is put into a socket that a
\* worker reads.
NoneUnread == unread = 0

================================================================================
