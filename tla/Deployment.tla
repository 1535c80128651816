----------------------------- MODULE Deployment -----------------------------
(***************************************************************************)
(* tdns config (cmd/config.go, config/tls.go), which makes up a deployment *)
(* with a certificate, a signing key and a token for the commands; the     *)
(* server that is started with it; and the commands of tdns adm that use   *)
(* the management API through apiclient/client.go.                         *)
(*                                                                         *)
(* tdns config may be interrupted, or fail, between any two of its writes, *)
(* and be run again.  The connection of a command breaks at any moment.    *)
(*                                                                         *)
(* Everything that one run of tdns config makes up has the number of that  *)
(* run.  It writes to the place where server and commands read.            *)
(***************************************************************************)
EXTENDS Naturals, Sequences

CONSTANTS
    Nothing,        \* no file, signing key or token
    Torn,           \* a file that was opened and not written
    EnvironmentKey, \* a key in TDNS_AUTH_ACTIVE_KEY
    ApiAddrs,       \* what --listenapi may be
    LocalAddrs,     \* those that a connection to localhost:8443 reaches
    HostLists,      \* what --hosts may be: sets of names
    MaxRuns,        \* bound: runs of tdns config
    MaxCommands     \* bound: commands

\* The flags of tdns config that server and commands have to agree on, and their
\* defaults.
Flags == [listenapi : ApiAddrs, hosts : HostLists]
DefaultFlags == [listenapi |-> "127.0.0.1:8443", hosts |-> {"127.0.0.1", "localhost"}]

ASSUME DeploymentAssumption ==
    /\ {MaxRuns, MaxCommands} \subseteq Nat
    /\ {Nothing, Torn, EnvironmentKey} \cap Nat = {}
    /\ DefaultFlags \in Flags
    /\ LocalAddrs \subseteq ApiAddrs

VARIABLES
    files,          \* the run of tdns config that a file is from
    writer,         \* tdns config: its run, and the files it has still to write
    flags,          \* the flags of each run
    environment,    \* the key in the environment of the server
    api,            \* the server
    command,        \* the command
    commands,       \* how many there have been
    complete        \* history: the last run of tdns config came to its end

deployVars == <<files, writer, flags, environment, api, command, commands, complete>>

Whole(content) == content \in 1..MaxRuns

-----------------------------------------------------------------------------
(* tdns config.                                                            *)

\* The files of Generate384Cert, of WriteSampleConfig and of createUnit.
Certificates == <<"cert", "key">>
SampleConfig == <<"yaml", "hosts">>
Unit == <<"unit">>

ConfigCommand ==
    /\ writer.todo = <<>>
    /\ writer.run < MaxRuns
    /\ \E unit \in {Unit, <<>>} :
         writer' = [run |-> writer.run + 1, todo |-> Certificates \o SampleConfig \o unit]
    /\ \E f \in Flags : flags' = [flags EXCEPT ![writer.run + 1] = f]
    /\ complete' = FALSE
    /\ api' = [api EXCEPT !.fresh = FALSE]
    /\ command' = [command EXCEPT !.fresh = FALSE]
    /\ UNCHANGED <<files, environment, commands>>

\* os.OpenFile with O_CREATE and O_TRUNC.
OpenFile ==
    /\ writer.todo # <<>>
    /\ files[Head(writer.todo)] # Torn
    /\ files' = [files EXCEPT ![Head(writer.todo)] = Torn]
    /\ UNCHANGED <<writer, flags, environment, api, command, commands, complete>>

\* Mutant: what exists is kept.
WriteFileOnce ==
    /\ writer.todo # <<>>
    /\ files[Head(writer.todo)] = Torn
    /\ files' = [files EXCEPT ![Head(writer.todo)] =
                    IF Head(writer.todo) = "key" /\ writer.run > 1 THEN @ ELSE writer.run]
    /\ writer' = [writer EXCEPT !.todo = Tail(@)]
    /\ complete' = (Tail(writer.todo) = <<>>)
    /\ UNCHANGED <<flags, environment, api, command, commands>>

\* Write and Close.
WriteFile ==
    /\ writer.todo # <<>>
    /\ files[Head(writer.todo)] = Torn
    /\ files' = [files EXCEPT ![Head(writer.todo)] = writer.run]
    /\ writer' = [writer EXCEPT !.todo = Tail(@)]
    /\ complete' = (Tail(writer.todo) = <<>>)
    /\ UNCHANGED <<flags, environment, api, command, commands>>

\* panic, logger.Fatalf, or a signal.
Interrupt ==
    /\ writer.todo # <<>>
    /\ writer' = [writer EXCEPT !.todo = <<>>]
    /\ UNCHANGED <<files, flags, environment, api, command, commands, complete>>

-----------------------------------------------------------------------------
(* The server.                                                             *)

Off == [at |-> "off", addr |-> Nothing, signer |-> Nothing, cert |-> Nothing, fresh |-> FALSE]

\* The configuration is read.  The environment's key is preferred to the one in
\* the file.  Without a file that says where the certificate is, there is only DNS;
\* with one that does not parse there is no server, which is no step.
StartServer ==
    /\ api.at = "off"
    /\ api' = IF Whole(files["yaml"])
              THEN [at |-> "cert", cert |-> Nothing, fresh |-> complete,
                    addr |-> flags[files["yaml"]].listenapi,
                    signer |-> IF environment = Nothing THEN files["yaml"] ELSE environment]
              ELSE [Off EXCEPT !.at = "dns"]
    /\ UNCHANGED <<files, writer, flags, environment, command, commands, complete>>

\* ListenAndServeTLS, in a goroutine of its own, reads one file
LoadCertificate ==
    /\ api.at = "cert"
    /\ api' = [api EXCEPT !.at = "key", !.cert = files["cert"]]
    /\ UNCHANGED <<files, writer, flags, environment, command, commands, complete>>

\* and the other, and gives up, with a line in the log, if they are no pair.
LoadKey ==
    /\ api.at = "key"
    /\ api' = [api EXCEPT !.at = IF Whole(api.cert) /\ files["key"] = api.cert THEN "up" ELSE "dns"]
    /\ UNCHANGED <<files, writer, flags, environment, command, commands, complete>>

\* The server ends in some way, and its connections break.
StopServer ==
    /\ api.at # "off"
    /\ api' = Off
    /\ command' = [command EXCEPT !.fresh = FALSE,
                                  !.at = IF @ \in {"sent", "answered"} THEN "broken" ELSE @]
    /\ UNCHANGED <<files, writer, flags, environment, commands, complete>>

-----------------------------------------------------------------------------
(* The commands.  Each is the sequence of its operations.                  *)

StartCommands ==
    {<<"start zen-mode">>, <<"start blacklist">>, <<"start stub-resolver">>, <<"start static-response">>}
StopCommands == {<<"stop stub-resolver">>, <<"stop static-response">>, <<"stop blacklist">>}
DNSLogCommands ==
    {<<"dnslog status">>, <<"dnslog start">>, <<"dnslog stop">>, <<"dnslog clear">>}
TopCommand == <<"top">>
AliasCommand == <<"alias">>

\* handleStubs and handleZenDomains, for the flags that were given; the second
\* one runs although the first one has failed.
ReplaceCommands ==
    {<<"replace stubs">>, <<"replace zen domains">>, <<"replace stubs", "replace zen domains">>}

Commands ==
    StartCommands \cup StopCommands \cup DNSLogCommands \cup {TopCommand, AliasCommand} \cup ReplaceCommands

NoCommand == [at |-> "none", todo |-> <<>>, token |-> Nothing, ca |-> Nothing,
              status |-> "", message |-> "", applied |-> FALSE, results |-> <<>>, fresh |-> FALSE]

\* initConfig: the token and the name of the CA file are read.
BeginCommand(operations) ==
    /\ command.at = "none"
    /\ commands < MaxCommands
    /\ commands' = commands + 1
    /\ command' = [NoCommand EXCEPT
                    !.at = "client", !.todo = operations,
                    !.token = IF Whole(files["yaml"]) THEN files["yaml"] ELSE Nothing,
                    !.fresh = api.fresh /\ api.at = "up" /\ environment = Nothing]
    /\ UNCHANGED <<files, writer, flags, environment, api, complete>>

\* An operation is over, and what is printed of it.  The next one has a client
\* of its own.
Report(what, why) ==
    command' = [command EXCEPT
        !.results = Append(@, [operation |-> Head(command.todo), report |-> what, why |-> why,
                               applied |-> command.applied]),
        !.todo = Tail(@), !.applied = FALSE, !.status = "", !.message = "",
        !.at = IF Tail(command.todo) = <<>> THEN "done" ELSE "client"]

\* NewFromConfig, NewHTTPClient: the CA file, which is the certificate.
NewHTTPClient ==
    /\ command.at = "client"
    /\ IF command.token # Nothing /\ Whole(files["cert"])
       THEN command' = [command EXCEPT !.ca = files["cert"], !.at = "send"]
       ELSE Report("error", "unreachable")
    /\ UNCHANGED <<files, writer, flags, environment, api, commands, complete>>

\* newConf: whatever the flags are, client.server is https://localhost:8443.
ClientHost == "localhost"

\* The request is sent, if the server listens where the command looks for it and
\* shows that certificate, with the name that the command uses.
Send ==
    /\ command.at = "send"
    /\ IF /\ api.at = "up" /\ api.addr \in LocalAddrs
          /\ api.cert = command.ca /\ ClientHost \in flags[api.cert].hosts
       THEN command' = [command EXCEPT !.at = "sent"]
       ELSE Report("error", "unreachable")
    /\ UNCHANGED <<files, writer, flags, environment, api, commands, complete>>

\* The handlers that report an error with status 200, in the message.
QuietRefusals == {"top", "alias"}

\* The server refuses the token, or runs the handler, which does what it is
\* asked to or fails; at worst when a part of it is done.  "500" stands for every
\* other status, as the one of dnsLogMiddleware when there is no log.
HandleRequest ==
    LET answer(status, message, applied) ==
          command' = [command EXCEPT !.at = "answered", !.status = status,
                                     !.message = message, !.applied = applied]
        quiet == Head(command.todo) \in QuietRefusals
    IN  /\ command.at = "sent"
        /\ \/ command.token # api.signer /\ answer("401", "error", FALSE)
           \/ command.token = api.signer /\ answer("200", "OK", TRUE)
           \/ command.token = api.signer /\ quiet /\ answer("200", "error", FALSE)
           \/ /\ command.token = api.signer
              /\ \E done \in BOOLEAN : (quiet => ~done) /\ answer("500", "error", done)
        /\ UNCHANGED <<files, writer, flags, environment, api, commands, complete>>

\* writeJSON: an answer that cannot be written ends the server (logger.Fatal).
WriteFails ==
    /\ command.at = "answered"
    /\ api' = Off
    /\ command' = [command EXCEPT !.fresh = FALSE, !.at = "broken"]
    /\ UNCHANGED <<files, writer, flags, environment, commands, complete>>

\* Mutant: the status is not looked at.
DecodeAny ==
    /\ command.at = "answered"
    /\ Report("ok", command.status)
    /\ UNCHANGED <<files, writer, flags, environment, api, commands, complete>>

\* getTop: there are rows, or "No dnslog records.", whatever the message is.  The
\* other commands print the response.
Printed ==
    IF command.message = "OK" \/ <<Head(command.todo)>> = TopCommand THEN "ok" ELSE "error"

\* decode: the answer is there, and its status decides.
Decode ==
    /\ command.at = "answered"
    /\ Report(IF command.status = "200" THEN Printed ELSE "error", command.status)
    /\ UNCHANGED <<files, writer, flags, environment, api, commands, complete>>

\* The connection breaks, or the answer cannot be read or parsed.
Break ==
    /\ command.at \in {"sent", "answered", "broken"}
    /\ Report("error", "broken")
    /\ UNCHANGED <<files, writer, flags, environment, api, commands, complete>>

EndCommand ==
    /\ command.at = "done"
    /\ command' = NoCommand
    /\ UNCHANGED <<files, writer, flags, environment, api, commands, complete>>

-----------------------------------------------------------------------------
DeployInit ==
    /\ files = [f \in {"cert", "key", "yaml", "hosts", "unit"} |-> Nothing]
    /\ writer = [run |-> 0, todo |-> <<>>]
    /\ flags = [run \in 1..MaxRuns |-> DefaultFlags]
    /\ environment \in {Nothing, EnvironmentKey}
    /\ api = Off
    /\ command = NoCommand
    /\ commands = 0
    /\ complete = FALSE

DeployNext ==
    \/ ConfigCommand \/ OpenFile \/ WriteFile \/ Interrupt
    \/ StartServer \/ LoadCertificate \/ LoadKey \/ StopServer
    \/ \E operations \in Commands : BeginCommand(operations)
    \/ NewHTTPClient \/ Send \/ HandleRequest \/ WriteFails \/ Decode \/ Break \/ EndCommand

DeploySpec == DeployInit /\ [][DeployNext]_deployVars

-----------------------------------------------------------------------------
(* Properties.                                                             *)

\* The server listens where the commands of the same deployment look for it, and
\* its certificate has the name that they use for it.
Suits(f) == f.listenapi \in LocalAddrs /\ ClientHost \in f.hosts

\* A run of tdns config that comes to its end leaves files that belong together,
\* whatever runs before it have left half done: a server that is started after
\* it, with nothing in its environment, gets its management API up, and the
\* commands are let in with the token that was made with it.  They reach it
\* exactly when the flags of that run suit the client.server that it always
\* writes: --listenapi at port 8443 of a local address, and --hosts with localhost.
FreshDeploymentWorks ==
    /\ api.fresh => api.at # "dns"
    /\ command.fresh => \A i \in DOMAIN command.results :
         /\ command.results[i].why # "401"
         /\ command.results[i].why = "unreachable" <=> ~Suits(flags[writer.run])

\* What is printed of an operation is true: a success has been applied, and of a
\* failure nothing has, unless the connection broke or a later step of the
\* handler failed.  This holds of each operation of a command that has several,
\* whatever became of the others; but not of the report of the log, which says
\* that there are no records when the question was refused.
ReportsTrue ==
    \A i \in DOMAIN command.results :
        LET r == command.results[i] IN
        /\ r.report = "ok" => r.applied \/ <<r.operation>> = TopCommand
        /\ r.report = "error" /\ r.applied => r.why \in {"broken", "500"}

=============================================================================
