-------------------------- MODULE ExtDataControl ---------------------------
(***************************************************************************)
(* The generated bindings of ext_data_control_v1, whale-land/src/protocol/ *)
(* ext_data_control_v1.rs, which are those that one-true-pairing uses      *)
(* besides wl_display, wl_registry and wl_seat.                            *)
(***************************************************************************)
EXTENDS Wlproto, TLC

ext_data_control_manager_v1_v1_request_proxy ==
    << M(0, "create_data_source", << "new_id" >>),
       M(1, "get_data_device", << "new_id", "object" >>),
       M(2, "destroy", <<>>) >>

ext_data_control_manager_v1_v1_request_args ==
    << M(0, "create_data_source", << "new_id" >>),
       M(1, "get_data_device", << "new_id", "object" >>),
       M(2, "destroy", <<>>) >>

ext_data_control_device_v1_v1_event_handler ==
    << M(0, "data_offer", << "new_id" >>),
       M(1, "selection", << "object" >>),
       M(2, "finished", <<>>),
       M(3, "primary_selection", << "object" >>) >>

ext_data_control_device_v1_v1_request_proxy ==
    << M(0, "set_selection", << "object" >>),
       M(1, "destroy", <<>>),
       M(2, "set_primary_selection", << "object" >>) >>

ext_data_control_device_v1_v1_request_args ==
    << M(0, "set_selection", << "object" >>),
       M(1, "destroy", <<>>),
       M(2, "set_primary_selection", << "object" >>) >>

ext_data_control_device_v1_v1_event_args ==
    << M(0, "data_offer", << "new_id" >>),
       M(1, "selection", << "object" >>),
       M(2, "finished", <<>>),
       M(3, "primary_selection", << "object" >>) >>

ext_data_control_source_v1_v1_event_handler ==
    << M(0, "send", << "string", "fd" >>),
       M(1, "cancelled", <<>>) >>

ext_data_control_source_v1_v1_request_proxy ==
    << M(0, "offer", << "string" >>),
       M(1, "destroy", <<>>) >>

ext_data_control_source_v1_v1_request_args ==
    << M(0, "offer", << "string" >>),
       M(1, "destroy", <<>>) >>

ext_data_control_source_v1_v1_event_args ==
    << M(0, "send", << "string", "fd" >>),
       M(1, "cancelled", <<>>) >>

ext_data_control_offer_v1_v1_event_handler ==
    << M(0, "offer", << "string" >>) >>

ext_data_control_offer_v1_v1_request_proxy ==
    << M(0, "receive", << "string", "fd" >>),
       M(1, "destroy", <<>>) >>

ext_data_control_offer_v1_v1_request_args ==
    << M(0, "receive", << "string", "fd" >>),
       M(1, "destroy", <<>>) >>

ext_data_control_offer_v1_v1_event_args ==
    << M(0, "offer", << "string" >>) >>

(* The interfaces of the file.                                            *)
ExtDataControlInterfaces ==
    "ext_data_control_manager_v1_v1" :>
        Bindings(<<>>, ext_data_control_manager_v1_v1_request_proxy,
                 ext_data_control_manager_v1_v1_request_args, <<>>)
    @@ "ext_data_control_device_v1_v1" :>
        Bindings(ext_data_control_device_v1_v1_event_handler,
                 ext_data_control_device_v1_v1_request_proxy,
                 ext_data_control_device_v1_v1_request_args,
                 ext_data_control_device_v1_v1_event_args)
    @@ "ext_data_control_source_v1_v1" :>
        Bindings(ext_data_control_source_v1_v1_event_handler,
                 ext_data_control_source_v1_v1_request_proxy,
                 ext_data_control_source_v1_v1_request_args,
                 ext_data_control_source_v1_v1_event_args)
    @@ "ext_data_control_offer_v1_v1" :>
        Bindings(ext_data_control_offer_v1_v1_event_handler,
                 ext_data_control_offer_v1_v1_request_proxy,
                 ext_data_control_offer_v1_v1_request_args,
                 ext_data_control_offer_v1_v1_event_args)
=============================================================================
