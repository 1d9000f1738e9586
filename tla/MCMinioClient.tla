--------------------------- MODULE MCMinioClient ---------------------------
(* Instances of MinioClient for TLC.                                        *)
EXTENDS MinioClient

None == [inline |-> "", secret |-> <<>>, map |-> <<>>]
Ref(key) == [None EXCEPT !.secret = <<"tls", key>>]

Plain(url) == [url |-> url, creds |-> "creds", tls |-> FALSE, ca |-> None, cert |-> None,
               key |-> None, insecure |-> FALSE]

(* CA and client certificate from one Secret.                               *)
Mutual == [Plain("https") EXCEPT !.tls = TRUE, !.ca = Ref("ca"), !.cert = Ref("crt"),
                                 !.key = Ref("key")]

(* No TLS; a URL without host, a certificate without key, a CA from a       *)
(* ConfigMap, one that is given twice, no verification.                     *)
MCConfigs ==
    {Plain("http"), Plain("nohost"), Mutual,
     [Mutual EXCEPT !.key = None],
     [Plain("https") EXCEPT !.tls = TRUE, !.ca = [None EXCEPT !.map = <<"m", "ca">>]],
     [Plain("https") EXCEPT !.tls = TRUE, !.insecure = TRUE,
                            !.ca = [Ref("ca") EXCEPT !.inline = "ca1"]]}

ProbeConfigs == {Mutual}

MCContents ==
    [o \in {"creds", "tls", "m"} |->
       CASE o = "creds" -> {[id |-> "a1", secret |-> "s1"], [id |-> "a2"]}
         [] o = "tls" -> {[ca |-> "ca1", crt |-> "c1", key |-> "k1"],
                          [ca |-> "ca2", crt |-> "c2", key |-> "k2"], [crt |-> "c2", key |-> "k2"]}
         [] o = "m" -> {[ca |-> "ca1"], [ca |-> "junk"]}]

MCPairs == {<<"c1", "k1">>, <<"c2", "k2">>}

=============================================================================
