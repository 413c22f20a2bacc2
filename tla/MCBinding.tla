------------------------------- MODULE MCBinding -------------------------------
(***************************************************************************)
(* Command lines and requests for BindingAnswer: the default listener, a   *)
(* host with several addresses, fewer workers than listeners and more, and *)
(* a port the system chooses.                                              *)
(***************************************************************************)
EXTENDS BindingAnswer

CONSTANTS a, b, six, any   \* two IPv4 addresses, one of IPv6, and 0.0.0.0

MCConfigs ==
  { [ips |-> <<any>>,       port |-> 7, workers |-> 1],
    [ips |-> <<a, b>>,      port |-> 7, workers |-> 3],
    [ips |-> <<b, any, b>>, port |-> 7, workers |-> 2],
    [ips |-> <<a, six, b>>, port |-> 7, workers |-> 2],
    [ips |-> <<a, b>>,      port |-> 0, workers |-> 2] }

MCV6   == {six}
MCWild == {any}

\* What CHANGE-REQUEST asks for, with every attribute alone, the pairs that more
\* than one check is about, and all that parse accepts; OTHER-ADDRESS of both
\* families; and one message that is no request.
Together == { {"controlled", "controlling"}, {"software", "priority"}, {"software", "foreign"},
              {"optional", "foreign"}, {"ignored", "software"}, Attributes \ {"required"} }

MCRequests ==
  [type: {"request"}, attrs: {{}} \cup {{x} : x \in Attributes} \cup Together,
   change: SUBSET {"ip", "port"}, other: {"none"}]
  \cup [type: {"request"}, attrs: {{}, {"optional"}, {"controlled", "controlling"}},
        change: {{}, {"ip"}}, other: Families]
  \cup [type: {"indication"}, attrs: {{}}, change: {{}}, other: {"none"}]

================================================================================
