----------------------------- MODULE HostFilesMC -----------------------------
(* Values for HostFiles's constants that a configuration cannot write: the *)
(* directories of a host, what may be in them, and what may be declared.   *)
EXTENDS HostFiles, TLC

\* The directories of a certbot, of a server, and of the names "site" and
\* "store", which the profiles' paths expand to.
In(dir) ==
    CASE dir = "archive" -> <<At(dir, "", ""), At(dir, "cert1", ".pem"), At(dir, "privkey1", ".pem")>>
      [] dir = "live"    -> <<At(dir, "", ""), At(dir, "cert", ".pem"), At(dir, "privkey", ".pem")>>
      [] dir = "www"     -> <<At(dir, "", ""), At(dir, "roots", ".pem"), At(dir, "shop", ".key"),
                              At(dir, "shop", ".pem"), At(dir, "site", ".key"), At(dir, "site", ".pem")>>
      [] OTHER           -> <<At(dir, "", ""), At(dir, "cert", ".pem"), At(dir, "chain", ".pem"),
                              At(dir, "fullchain", ".pem"), At(dir, "haproxy", ".pem"),
                              At(dir, "keystore", ".p12"), At(dir, "privkey", ".pem")>>
MCWalk == In("archive") \o In("live") \o In("site") \o In("store") \o In("www")

-----------------------------------------------------------------------------
(* The administrator's files.                                              *)

Of1(holds) == [holds |-> holds, release |-> <<"admin", 1>>, readers |-> {"group"}, owner |-> Nobody]
Of2(holds) == [Of1(holds) EXCEPT !.release = <<"admin", 2>>]
Roots      == [Of1({"roots"}) EXCEPT !.release = Unissued]
NoFiles    == [path \in {} |-> Roots]
NoLinks    == [path \in {} |-> NoPath]

NoFilesYet == [tree |-> NoFiles, links |-> NoLinks, named |-> {}]

\* live/ is links into archive/, and the server's configuration names live/.
Certbot ==
    [tree  |-> (At("archive", "cert1", ".pem") :> Of1({"cert"}))
            @@ (At("archive", "privkey1", ".pem") :> Of1({"key"})),
     links |-> (At("live", "cert", ".pem") :> At("archive", "cert1", ".pem"))
            @@ (At("live", "privkey", ".pem") :> At("archive", "privkey1", ".pem")),
     named |-> {At("live", "cert", ".pem")}]

\* A pair that does not match, a store of roots, and what stood at the paths
\* of a destination before.
ByHand ==
    [tree  |-> (At("www", "shop", ".pem") :> Of1({"cert"}))
            @@ (At("www", "shop", ".key") :> Of2({"key"}))
            @@ (At("www", "roots", ".pem") :> Roots)
            @@ (At("site", "cert", ".pem") :> Of1({"cert"})),
     links |-> NoLinks,
     named |-> {At("www", "shop", ".pem"), At("site", "cert", ".pem")}]

-----------------------------------------------------------------------------
(* What is declared.                                                       *)

Named(name, profile) ==
    [Nothing EXCEPT !.name = name, !.certificate = "site", !.profile = profile]
ByPaths ==
    [Named("web", "") EXCEPT !.cert_path = At("www", "site", ".pem"),
                             !.key_path = At("www", "site", ".key"),
                             !.reload = "absolute"]
InStore ==
    [Named("web", "") EXCEPT !.store = "LocalMachine\\My", !.bind = "absolute"]

MCOptions ==
    [f \in Field |->
       CASE f = "profile" -> {"nginx", "haproxy", "postgresql", "tomcat", "iis", "ngnix"}
         [] f = "format" -> {"PEM", "PKCS12", "JKS"}
         [] f = "cert_path" -> {At(Placeholder, "haproxy", ".pem"), At(Braces, "site", ".pem")}
         [] f = "key_path" -> {At(Placeholder, "haproxy", ".pem"), At("www", "site", ".pem")}
         [] f = "chain_path" -> {At(Placeholder, "chain", ".pem"), At("www", "site", ".key")}
         [] f = "fullchain_path" -> {At("www", "shop", ".crt"), At(Relative, "fullchain", ".pem")}
         [] f = "keystore_password" -> {"changeit"}
         [] f = "keystore_password_file" -> {"/etc/keystore"}
         [] f = "keystore_alias" -> {"tomcat"}
         [] f = "store" -> {"LocalMachine\\My", "LocalMachine\\Root"}
         [] f = "verify" -> {At(Placeholder, "port", ""), At("site", "no port", "")}
         [] f \in {"owner", "group"} -> {"www-data"}
         [] f \in {"cert_mode", "key_mode"} -> {"0600", "0640", "0644", "rw"}
         [] f \in {"bind", "check", "reload"} -> {"[]", "absolute", "relative"}
         [] OTHER -> {"", "site"}]

Changes == UNION {{f} \X MCOptions[f] : f \in Field}
Changed(d, c) == [d EXCEPT ![c[1]] = c[2]]

MCListing  == <<"site", "store">>
MCWildcard == "*.site" :> "site"

\* Every destination's name is asked for by itself, in the order they come.
Host(windows, ds, layout, most) ==
    [windows |-> windows, document |-> ds,
     tree |-> layout.tree, links |-> layout.links, named |-> layout.named,
     requests |-> {<<ds[i].certificate>> : i \in DOMAIN ds} \ {<<"">>},
     sans |-> "asked", chainless |-> 0,
     MaxIssued |-> most[1], MaxEdits |-> most[2], MaxFaults |-> most[3]]

\* One destination, away from something usual in one field, and in two if that
\* is accepted.
Single(d, windows, layout, most) == {Host(windows, <<Changed(d, c)>>, layout, most) : c \in Changes}
Twice(d, windows) ==
    LET two == {Changed(Changed(d, c), e) : c \in Changes, e \in Changes}
    IN  {Host(windows, <<e>>, NoFilesYet, <<1, 0, 0>>) : e \in {e \in two : Accepted(e, windows)}}

Pairs(ds, es, layout, most) ==
    {Host(FALSE, <<d, [e EXCEPT !.name = "other"]>>, layout, most) : d \in ds, e \in es}

Chain   == [Named("web", "nginx") EXCEPT !.chain_path = At(Placeholder, "chain", ".pem")]
Elsewhere == [Named("web", "nginx") EXCEPT !.certificate = "store"]
Tomcat  == [Named("web", "tomcat") EXCEPT !.keystore_password = "changeit"]
Usual   == {Named("web", "nginx"), Named("web", "haproxy"), Named("web", "postgresql"),
            Tomcat, Elsewhere, Chain, ByPaths}

\* Certificates for several names, which can be one in the other's directory.
Overlap ==
    {[Host(FALSE, <<ByPaths, [Elsewhere EXCEPT !.name = "other"]>>, NoFilesYet, <<3, 0, 0>>)
        EXCEPT !.requests = {<<"store", "site">>, <<"site">>}, !.sans = sans] :
       sans \in {"asked", "reversed", "none"}}
Alone ==
    [Host(FALSE, <<ByPaths>>, NoFilesYet, <<3, 0, 1>>)
        EXCEPT !.requests = {<<"store", "site">>, <<"site">>, <<"*.site">>}]

MCScenes ==
    Single(Named("web", "nginx"), FALSE, NoFilesYet, <<1, 1, 0>>) \cup Twice(Named("web", "nginx"), FALSE)
      \cup Single(Tomcat, FALSE, NoFilesYet, <<1, 1, 0>>) \cup Twice(Named("web", "tomcat"), FALSE)
      \cup Single(InStore, TRUE, NoFilesYet, <<1, 0, 0>>) \cup Twice(InStore, TRUE)
      \cup Single(ByPaths, FALSE, ByHand, <<1, 0, 0>>)
      \cup Pairs({Named("web", "nginx"), Tomcat, Chain}, Usual, NoFilesYet, <<2, 0, 0>>)
      \cup {[h EXCEPT !.chainless = 1] : h \in Pairs({Chain}, {ByPaths}, Certbot, <<2, 1, 1>>)}
      \cup Pairs({Tomcat}, {Chain}, ByHand, <<1, 1, 1>>)
      \cup Overlap \cup {Alone}

\* docs/platforms/dovecot.md: postfix and dovecot, for the same certificate.
MailScenes == Pairs({Named("web", "postfix")}, {Named("web", "dovecot")}, NoFilesYet, <<1, 0, 0>>)
=============================================================================
