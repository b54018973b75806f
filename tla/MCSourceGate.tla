---------------------------- MODULE MCSourceGate ----------------------------
(***************************************************************************)
(* Two calls.  Files admit two, urls and narumi one: narumi's limit is      *)
(* registered as zero.                                                      *)
(***************************************************************************)
EXTENDS SourceGate

Limits == [s \in Systems |-> CASE s = "file" -> 2 [] s = "url" -> 1 [] s = "narumi" -> 0]

Docs == <<"docs">>
Vault == <<"home", "vault">>
SectionsOf == [s \in Systems |->
    CASE s = "file" -> {[allow |-> {Docs}]}
      [] s = "url" -> {[allow |-> {a}, timeout |-> 1] : a \in {<<"example", "com">>, Everywhere}}
      [] s = "narumi" -> {[timeout |-> 1]}]

\* A root that is replaced by links, also to a directory above gaia's own.
Requested == {<<"docs", "a">>, <<"docs", "..", "a">>, <<"home", "a">>}
Found == {<<"docs", "a">>, <<"home", "vault", "key">>, <<"tmp", "a">>}
Real == [r \in {Docs} |-> {Docs, <<"tmp">>, <<"home">>, <<>>, Gone}]
Own == {Vault}

Url(scheme, userinfo, domain, ip) ==
    [scheme |-> scheme, userinfo |-> userinfo, domain |-> domain, ip |-> ip]

Site == Url("https", FALSE, <<"www", "example", "com">>, <<>>)

UrlSet == {
    Site,
    Url("ftp", FALSE, <<"example", "com">>, <<>>),
    Url("https", TRUE, <<"example", "com">>, <<>>),
    Url("https", FALSE, <<"example", "org">>, <<>>),
    Url("https", FALSE, <<"badexample", "com">>, <<>>),
    Url("https", FALSE, <<"localhost">>, <<>>),
    Url("https", FALSE, <<"a", "localhost">>, <<>>),
    Url("https", FALSE, <<"example", "com", "">>, <<>>),
    Url("https", FALSE, <<>>, <<8, 8, 8, 8>>),
    Url("https", FALSE, <<>>, <<10, 1, 2, 3>>)}

V4 == {<<8, 8, 8, 8>>, <<100, 128, 0, 1>>}
BlockedOfV4 == {
    <<0, 0, 0, 0>>, <<10, 255, 255, 255>>, <<100, 64, 0, 0>>, <<100, 127, 255, 255>>,
    <<127, 0, 0, 1>>, <<169, 254, 169, 254>>, <<172, 16, 0, 1>>, <<172, 31, 255, 255>>,
    <<192, 168, 0, 1>>, <<198, 19, 255, 255>>, <<224, 0, 0, 1>>, <<255, 255, 255, 255>>}
Public6 == {<<9735, 18176, 0, 0, 0, 0, 0, 4369>>}
BlockedOfV6 == {
    Unspecified, Loopback,
    <<0, 0, 0, 0, 0, 65535, 32512, 1>>,       \* ::ffff:127.0.0.1
    <<100, 65435, 0, 0, 0, 0, 2560, 1>>,      \* 64:ff9b::10.0.0.1
    <<8194, 49320, 1, 0, 0, 0, 0, 1>>,        \* 2002:c0a8:0001::1
    <<8193, 3512, 0, 0, 0, 0, 0, 1>>, <<64767, 0, 0, 0, 0, 0, 0, 1>>,
    <<65215, 0, 0, 0, 0, 0, 0, 1>>, <<65282, 0, 0, 0, 0, 0, 0, 1>>}

Blocked == BlockedOfV4 \cup BlockedOfV6
Answers == {{ip} : ip \in Blocked \cup V4 \cup Public6} \cup
           {{<<8, 8, 8, 8>>, <<127, 0, 0, 1>>}, {<<8, 8, 8, 8>>, <<100, 128, 0, 1>>}}

Uri(host, path, query) ==
    [scheme |-> "narumi", userinfo |-> FALSE, host |-> host, port |-> FALSE,
     path |-> path, query |-> query]

UriSet == {
    Uri("meeting", <<"m1">>, <<>>), Uri("meeting", <<"m1">>, <<<<"version", 2>>>>),
    Uri("meeting", <<"m1">>, <<<<"version", 0>>>>), Uri("meeting", <<"m1">>, <<<<>>>>),
    Uri("other", <<"m1">>, <<>>), Uri("meeting", <<"x">>, <<>>), Uri("meeting", <<>>, <<>>)}

ReplySet == [error : BOOLEAN, meeting : {"m1", "m2"}, markdown : {None, 1, 3}]
=============================================================================
