-------------------------- MODULE MCSwupdateClient --------------------------
(* Instances of SwupdateClient for TLC: deployments of client and daemon.      *)
EXTENDS SwupdateInvariant

Plain == [v \in EnvVars |-> "unset"]
Set(v, dir) == [Plain EXCEPT ![v] = dir]
Service == Set("RUNTIME_DIRECTORY", "/run/swupdate")
Unset == [s \in Sockets |-> "unset"]

Deployment(env, option, daemon) == [client |-> env, option |-> option, daemon |-> daemon]

\* Nothing is set; the daemon is a service of the init system, the client a shell
\* command; both have both variables; the client has a TMPDIR of its own, with and
\* without the right option for the control socket.
Deployments ==
    {Deployment(Plain, Unset, Plain),
     Deployment(Plain, Unset, Service),
     Deployment([Service EXCEPT !["TMPDIR"] = "elsewhere"], Unset,
                [Service EXCEPT !["TMPDIR"] = "elsewhere"]),
     Deployment(Set("TMPDIR", "elsewhere"), Unset, Service),
     Deployment(Set("TMPDIR", "elsewhere"), [Unset EXCEPT !["ctrl"] = "/run/swupdate"], Service)}

OneDeployment == {Deployment(Plain, Unset, Service)}
=============================================================================
