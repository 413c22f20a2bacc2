-------------------------------- MODULE MCStun --------------------------------
(***************************************************************************)
(* Messages for StunMessage: values that need padding and one that fills   *)
(* its octets; what the network puts in includes trailers of its own, a    *)
(* shortened one, and a code nobody knows.                                 *)
(*                                                                         *)
(* Values for StunExchange: every code of the registry and some others,    *)
(* with values of every length around those a reader looks for, that begin *)
(* like an address, an error, a channel or a list, and go on with zeros,   *)
(* letters or octets with the high bit set; every message type.            *)
(*                                                                         *)
(* The two share no state.  A behaviour is one of either.                  *)
(***************************************************************************)
EXTENDS StunMessage, StunExchange

Attr(code, len) == [code |-> code, len |-> len, val |-> [octets |-> "own"]]

MCBodies == {Attr("software", 3), Attr("priority", 4), Attr("optional", 1)}

MCStray == {[a EXCEPT !.val = [octets |-> "stray"]] :
              a \in {Attr("software", 5), Attr("foreign", 4), Attr("integrity", 20),
                     Attr("integrity256", 16), Attr("integrity256", 32),
                     Attr("fingerprint", 4), Attr("priority", 3)}}

--------------------------------------------------------------------------------
\* A value of n octets that begins with head and goes on with one octet.
Filled(head, octet, n) == [i \in 1 .. n |-> IF i \in DOMAIN head THEN head[i] ELSE octet]

Heads == {<<0, 1, 33, 18>>, <<0, 2>>, <<1, 0>>, <<2, 0, 13>>, <<64, 0>>, <<63, 255>>, <<191, 255>>,
          <<192, 0>>, <<0, 0, 4, 20>>, <<0, 0, 6, 99>>, <<0, 0, 7, 0>>, <<0, 0, 5, 200>>, <<2>>}
Lengths == {0, 1, 2, 3, 4, 7, 8, 9, 12, 16, 17, 19, 20, 21, 24, 32, 33}

Short == {Filled(head, octet, n) : head \in Heads, octet \in {0, 65, 200}, n \in Lengths}

\* Lists of names: letters, spaces and commas in every order.
Lists == UNION {[1 .. n -> {44, 32, 97}] : n \in 0 .. 4}

Long == {Filled(<<0, 0, 4>>, 65, n) : n \in {511, 512, 1028, 1029, 2048, 2049}}

Unregistered == {2, 4, 11, 32767, 32773, 65535}
Codes == {1, 3, 6, 8, 9, 10, 12, 13, 36, 37, 38, 39, 42} \cup 18 .. 30 \cup {32, 34}
         \cup 32768 .. 32772 \cup {32802, 32803, 32808, 32809, 32810, 32812, 32814, 32824, 32825}

MCDatagrams == ((Codes \cup Unregistered) \X Short) \cup ({6, 9, 19, 38, 65535} \X Long)
               \cup ({20, 32770} \X Lists)

Loopback == <<0, 0, 0, 0, 0, 0, 0, 0, 0, 0, 0, 0, 0, 0, 0, 1>>
MCSockets == {[family |-> 1, port |-> 3478, ip |-> <<127, 0, 0, 1>>],
              [family |-> 1, port |-> 65535, ip |-> <<192, 0, 2, 200>>],
              [family |-> 2, port |-> 1, ip |-> Loopback],
              [family |-> 2, port |-> 8466, ip |-> [i \in 1 .. 16 |-> 255 - 13 * i]]}

MCTxids == {[i \in 1 .. 12 |-> 0], [i \in 1 .. 12 |-> 21 * i]}

\* Every type from one peer; and Binding requests from every peer, with attributes
\* the server reads, may ignore, knows but does not expect, or has never heard of,
\* few of them and more than it can name.
CodeLists ==
  {<<>>, <<3, 32802>>, <<3, 36, 6, 32809>>, <<32773, 65535, 32773>>, <<36, 39, 65535>>,
   [i \in 1 .. 40 |-> 33000 + i], [i \in 1 .. 64 |-> 33000 + i], [i \in 1 .. 70 |-> 33000 + i]}

MCRequests ==
  [bits: 0 .. 16383 \cup {16385, 32769, 65535}, cookie: {Cookie}, codes: {<<>>},
   peer: {[family |-> 1, port |-> 9, ip |-> <<10, 0, 0, 1>>]}, txid: {[i \in 1 .. 12 |-> 7]}]
  \cup [bits: {1}, cookie: {Cookie}, codes: {<<>>}, peer: MCSockets, txid: MCTxids]
  \cup [bits: {1}, cookie: {Cookie, <<0, 0, 0, 0>>}, codes: CodeLists,
        peer: {[family |-> 2, port |-> 9, ip |-> Loopback]}, txid: {[i \in 1 .. 12 |-> 7]}]

\* IsUtf8 takes octets with the high bit set for malformed: none here begin a
\* longer character that goes on.
ASSUME NoLongerCharacter ==
  \A d \in MCDatagrams : \A i \in 1 .. Len(d[2]) - 1 :
    ~(d[2][i] \in 194 .. 244 /\ d[2][i + 1] \in 128 .. 191)

MCInit == Init /\ ExchangeInit

MCNext ==
  \/ phase = "idle" /\ Next /\ UNCHANGED exchangeVars
  \/ stage = "body" /\ out.attrs = <<>> /\ ExchangeNext /\ UNCHANGED vars

MCSpec == MCInit /\ [][MCNext]_<<vars, exchangeVars>>

================================================================================
