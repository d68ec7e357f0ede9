--------------------------- MODULE MCOtlpReceiver ---------------------------
(* Three requests, one of them on the other listener, over two sessions. *)
EXTENDS OtlpReceiver

Ask(i, l, a) == [id |-> i, via |-> l, auth |-> a, cert |-> TRUE,
                 fits |-> TRUE, media |-> TRUE, decodes |-> TRUE]

Good == Ask(1, "grpc", "t")
Late == Ask(2, "http", "t")
Odd == [Ask(3, "http", "u") EXCEPT !.media = FALSE]

MCRequest == {Good, Late, Odd}
MCEvent == 1 .. 4
MCSessionOf == <<"s1", "s2", "s1", "none">>
MCRecords == [r \in MCRequest |-> IF r = Good THEN {1, 4} ELSE {r.id}]

Plain == [on |-> {}, off |-> {}, token |-> "unset", tls |-> FALSE, ca |-> FALSE, interval |-> "unset"]
NoFile == [listen |-> [l \in Listener |-> "unset"], token |-> "unset",
           cert |-> FALSE, key |-> FALSE, ca |-> FALSE]

MCCmd == {Plain, [Plain EXCEPT !.token = "t"], [Plain EXCEPT !.off = {"grpc"}],
          [Plain EXCEPT !.interval = "zero"]}
MCFile == {NoFile, [NoFile EXCEPT !.token = "u", !.listen["http"] = "empty"],
           [NoFile EXCEPT !.token = "u"], [NoFile EXCEPT !.cert = TRUE],
           [NoFile EXCEPT !.listen["grpc"] = "bad"]}
=============================================================================
