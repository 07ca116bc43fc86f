----------------------------- MODULE InstallSpec -----------------------------
(***************************************************************************)
(* What an administrator may declare and what the agent makes of it:       *)
(* LoadInstallSpec, validate and render (install.go), applyProfile and     *)
(* expandPlaceholders (profile.go), the catalogue (profiles_catalogue.go), *)
(* validateKeystore (keystore.go) and validateStore (store.go).            *)
(*                                                                         *)
(* A destination is a record with the fields of the file.  A path is a     *)
(* directory and the stem and suffix of a name.  A mode is written in      *)
(* octal; what matters of it is who else may read the file.  A command is  *)
(* its first word: "nil" where the field is left out, "[]" where it is an  *)
(* empty list.                                                             *)
(*                                                                         *)
(* A definition that stands before another one and has its name and more   *)
(* is that one with a plausible mistake in it, for seeing that a property  *)
(* notices.  Nothing in the specification uses it.                         *)
(***************************************************************************)
EXTENDS Naturals, Sequences, FiniteSets

At(dir, stem, suffix) == [dir |-> dir, stem |-> stem, suffix |-> suffix]
NoPath == At("", "", "")

\* In a path's directory: the certificate's name goes here, and other braces.
Placeholder == "{{ .Certificate }}"
Braces      == "{{ .Name }}"
\* The directory of a path that is not absolute.
Relative    == "."

Nothing ==
    [name |-> "", certificate |-> "", profile |-> "", format |-> "",
     cert_path |-> NoPath, key_path |-> NoPath,
     chain_path |-> NoPath, fullchain_path |-> NoPath,
     keystore_password |-> "", keystore_password_file |-> "", keystore_alias |-> "",
     store |-> "", bind |-> "nil", verify |-> NoPath,
     owner |-> "", group |-> "", cert_mode |-> "", key_mode |-> "",
     check |-> "nil", reload |-> "nil"]

Field     == DOMAIN Nothing
PathField == {"cert_path", "key_path", "chain_path", "fullchain_path"}
Templated == PathField \cup {"verify"}

\* Accounts a mode lets read beside the owner; parseMode knows no other text.
ReadersOf == [m \in {"0600", "0640", "0644"} |->
                IF m = "0644" THEN {"group", "other"}
                ELSE IF m = "0640" THEN {"group"} ELSE {}]

-----------------------------------------------------------------------------
(* The catalogue.                                                          *)

Live(stem, suffix) == At(Placeholder, stem, suffix)

ThreeFiles ==
    [Nothing EXCEPT !.cert_path = Live("cert", ".pem"), !.key_path = Live("privkey", ".pem"),
                    !.fullchain_path = Live("fullchain", ".pem"),
                    !.check = "absolute", !.reload = "absolute"]

Catalogue ==
    [nginx      |-> ThreeFiles,
     apache     |-> ThreeFiles,
     caddy      |-> ThreeFiles,
     haproxy    |-> [ThreeFiles EXCEPT !.cert_path = Live("haproxy", ".pem"),
                                       !.key_path = Live("haproxy", ".pem"),
                                       !.fullchain_path = NoPath],
     postgresql |-> [ThreeFiles EXCEPT !.owner = "postgres", !.group = "postgres",
                                       !.key_mode = "0600", !.check = "nil"],
     postfix    |-> [ThreeFiles EXCEPT !.key_mode = "0600"],
     dovecot    |-> [ThreeFiles EXCEPT !.key_mode = "0600"],
     mariadb    |-> [ThreeFiles EXCEPT !.owner = "mysql", !.group = "mysql",
                                       !.key_mode = "0600", !.check = "nil"],
     tomcat     |-> [Nothing EXCEPT !.format = "PKCS12", !.cert_path = Live("keystore", ".p12"),
                                    !.reload = "absolute"],
     iis        |-> [Nothing EXCEPT !.store = "LocalMachine\\My", !.bind = "absolute"]]

RunsHere(profile, windows) == (profile = "iis") = windows

\* applyProfile: a profile fills in what was left out, and an empty list was not.
Filled(d, p) == [f \in Field |-> IF d[f] = Nothing[f] THEN p[f] ELSE d[f]]

Expanded(d) ==
    [f \in Field |->
       IF f \in Templated /\ d[f].dir = Placeholder
       THEN [d[f] EXCEPT !.dir = d.certificate] ELSE d[f]]

\* The destination as validate sees it.
Completed(d) == Expanded(IF d.profile \in DOMAIN Catalogue
                         THEN Filled(d, Catalogue[d.profile]) ELSE d)

-----------------------------------------------------------------------------
(* What is refused when the file is read.                                  *)

ToStore(d)  == d.store # ""
Keystore(d) == d.format \notin {"", "PEM"}
Combined(d) == d.cert_path = d.key_path

IsMode(text) == text = "" \/ text \in DOMAIN ReadersOf
CertMode(d)  == IF d.cert_mode = "" THEN "0644" ELSE d.cert_mode
DefaultKeyModeShared(d) == "0640"
DefaultKeyMode(d) == IF d.group # "" THEN "0640" ELSE "0600"
KeyMode(d)   == IF d.key_mode = "" THEN DefaultKeyMode(d) ELSE d.key_mode

Runnable(command) == command \in {"nil", "[]", "absolute"}

ValidKeystore(d) ==
    /\ d.format = "PKCS12"
    /\ d.cert_path # NoPath
    /\ d.key_path = NoPath /\ d.chain_path = NoPath /\ d.fullchain_path = NoPath
    /\ d.cert_mode = ""
    /\ (d.keystore_password = "") # (d.keystore_password_file = "")

ValidPEM(d) ==
    /\ d.cert_path # NoPath /\ d.key_path # NoPath
    /\ d.keystore_alias = ""

\* A mode that lets everybody read what holds the key.
ValidModes(d) ==
    /\ IsMode(d.cert_mode) /\ IsMode(d.key_mode)
    /\ "other" \notin ReadersOf[KeyMode(d)]
    /\ Combined(d) /\ d.cert_mode # "" => "other" \notin ReadersOf[d.cert_mode]

ValidFiles(d, windows) ==
    /\ d.bind \in {"nil", "[]"} /\ d.verify = NoPath
    /\ IF Keystore(d) THEN ValidKeystore(d) ELSE ValidPEM(d)
    /\ \A f \in PathField : d[f].dir # Relative
    /\ windows => d.owner = "" /\ d.group = ""
    /\ ValidModes(d)
    /\ Runnable(d.check) /\ Runnable(d.reload)

\* bind has to name the thumbprint, and nothing else in braces.
ValidStoreLoosely(d, windows) ==
    /\ windows
    /\ d.store = "LocalMachine\\My"
    /\ \A f \in PathField : d[f] = NoPath
    /\ d.format = "" /\ d.cert_mode = "" /\ d.key_mode = ""
    /\ d.keystore_password = "" /\ d.keystore_password_file = "" /\ d.keystore_alias = ""
    /\ Runnable(d.bind)
    /\ d.verify.stem # "no port"

ValidStore(d, windows) ==
    /\ windows
    /\ d.store = "LocalMachine\\My"
    /\ \A f \in PathField : d[f] = NoPath
    /\ d.format = "" /\ d.cert_mode = "" /\ d.key_mode = ""
    /\ d.owner = "" /\ d.group = ""
    /\ d.keystore_password = "" /\ d.keystore_password_file = "" /\ d.keystore_alias = ""
    /\ d.check \in {"nil", "[]"}
    /\ Runnable(d.bind)
    /\ d.verify.stem # "no port"

Valid(d, windows) ==
    /\ d.certificate # ""
    /\ IF ToStore(d) THEN ValidStore(d, windows) ELSE ValidFiles(d, windows)

Accepted(d, windows) ==
    /\ d.name # ""
    /\ d.profile # "" => d.profile \in DOMAIN Catalogue /\ RunsHere(d.profile, windows)
    /\ \A f \in Templated : Completed(d)[f].dir # Braces
    /\ Valid(Completed(d), windows)

\* LoadInstallSpec: one mistake refuses the whole file.
Loads(document, windows) ==
    /\ \A i \in DOMAIN document : Accepted(document[i], windows)
    /\ \A i, j \in DOMAIN document : i # j => document[i].name # document[j].name

-----------------------------------------------------------------------------
(* What an accepted destination writes: render, in the order it writes.    *)

Target(path, holds, mode) == [path |-> path, holds |-> holds, readers |-> ReadersOf[mode]]
Unless(absent, targets) == IF absent THEN <<>> ELSE targets

RenderCombinedOpen(d) ==
    IF Keystore(d) THEN <<Target(d.cert_path, {"cert", "chain", "key"}, KeyMode(d))>>
    ELSE (IF Combined(d)
          THEN <<Target(d.cert_path, {"cert", "chain", "key"}, CertMode(d))>>
          ELSE <<Target(d.cert_path, {"cert"}, CertMode(d)), Target(d.key_path, {"key"}, KeyMode(d))>>)
         \o Unless(d.chain_path = NoPath, <<Target(d.chain_path, {"chain"}, CertMode(d))>>)
         \o Unless(d.fullchain_path = NoPath,
                   <<Target(d.fullchain_path, {"cert", "chain"}, CertMode(d))>>)

Render(d) ==
    IF Keystore(d) THEN <<Target(d.cert_path, {"cert", "chain", "key"}, KeyMode(d))>>
    ELSE (IF Combined(d)
          THEN <<Target(d.cert_path, {"cert", "chain", "key"}, KeyMode(d))>>
          ELSE <<Target(d.cert_path, {"cert"}, CertMode(d)), Target(d.key_path, {"key"}, KeyMode(d))>>)
         \o Unless(d.chain_path = NoPath, <<Target(d.chain_path, {"chain"}, CertMode(d))>>)
         \o Unless(d.fullchain_path = NoPath,
                   <<Target(d.fullchain_path, {"cert", "chain"}, CertMode(d))>>)

(* What it does with each field it accepts.                                *)

Runs(command) == command = "absolute"

Effect(d) ==
    IF ToStore(d)
    THEN [files |-> <<>>, inside |-> <<d.certificate, d.store, d.verify>>,
          runs |-> <<Runs(d.bind), Runs(d.reload)>>]
    ELSE [files |-> Render(d), runs |-> <<Runs(d.check), Runs(d.reload)>>,
          inside |-> <<d.certificate, d.owner, d.group>>
                     \o Unless(~Keystore(d), <<d.keystore_password, d.keystore_password_file,
                                               d.keystore_alias>>)]
=============================================================================
