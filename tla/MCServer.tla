------------------------------ MODULE MCServer ------------------------------
(* Server for TLC: eleven config files and three environments.                *)
EXTENDS Server

Tls == {<<TRUE, TRUE>>, <<TRUE, FALSE>>}
Urls == {<<None, None>>,
         <<None, Some(<<"hook", AUTHORIZE>>)>>,
         <<Some(Blank), Some(<<"hook">>)>>,
         <<Some(<<"cloud", SLASH>>), Some(<<"hook", AUTHORIZE>>)>>}

File(status, tls, url) ==
    [status |-> status,
     config |-> [tls_cert |-> tls[1], tls_key |-> tls[2], auth_webhook_url |-> url[2],
                 control_plane_url |-> url[1], gateway_key |-> None]]

MCFiles == {File("absent", <<FALSE, FALSE>>, <<None, None>>)}
           \cup {File(s, <<TRUE, TRUE>>, <<None, Some(<<"hook", AUTHORIZE>>)>>) :
                     s \in {"invalid", "hidden"}}
           \cup {File("ok", tls, url) : tls \in Tls, url \in Urls}

Env(url, key) == [control_plane_url |-> url, gateway_key |-> key]
MCEnvs == {Env(None, None), Env(Some(Blank), Some(Blank)), Env(Some(<<"env">>), Some(<<"secret">>))}
=============================================================================
