---------------------------- MODULE WaylandCore ----------------------------
(***************************************************************************)
(* The generated bindings of the core protocol, whale-land/src/protocol/   *)
(* wayland.rs: for each interface the branches of its event handler, the   *)
(* functions of its request proxy, and its argument structures.            *)
(***************************************************************************)
EXTENDS Wlproto, TLC

wl_display_v1_event_handler ==
    << M(0, "error", << "object", "uint", "string" >>),
       M(1, "delete_id", << "uint" >>) >>

wl_display_v1_request_proxy ==
    << M(0, "sync", << "new_id" >>),
       M(1, "get_registry", << "new_id" >>) >>

wl_display_v1_request_args ==
    << M(0, "sync", << "new_id" >>),
       M(1, "get_registry", << "new_id" >>) >>

wl_display_v1_event_args ==
    << M(0, "error", << "object", "uint", "string" >>),
       M(1, "delete_id", << "uint" >>) >>

wl_registry_v1_event_handler ==
    << M(0, "global", << "uint", "string", "uint" >>),
       M(1, "global_remove", << "uint" >>) >>

wl_registry_v1_request_proxy ==
    << M(0, "bind", << "uint", "new_object" >>) >>

wl_registry_v1_request_args ==
    << M(0, "bind", << "uint", "new_object" >>) >>

wl_registry_v1_event_args ==
    << M(0, "global", << "uint", "string", "uint" >>),
       M(1, "global_remove", << "uint" >>) >>

wl_callback_v1_event_handler ==
    << M(0, "done", << "uint" >>) >>

wl_callback_v1_event_args ==
    << M(0, "done", << "uint" >>) >>

wl_compositor_v6_request_proxy ==
    << M(0, "create_surface", << "new_id" >>),
       M(1, "create_region", << "new_id" >>) >>

wl_compositor_v6_request_args ==
    << M(0, "create_surface", << "new_id" >>),
       M(1, "create_region", << "new_id" >>) >>

wl_shm_pool_v2_request_proxy ==
    << M(0, "create_buffer",
         << "new_id", "int", "int", "int", "int", "uint" >>),
       M(1, "destroy", <<>>),
       M(2, "resize", << "int" >>) >>

wl_shm_pool_v2_request_args ==
    << M(0, "create_buffer",
         << "new_id", "int", "int", "int", "int", "uint" >>),
       M(1, "destroy", <<>>),
       M(2, "resize", << "int" >>) >>

wl_shm_v2_event_handler ==
    << M(0, "format", << "uint" >>) >>

wl_shm_v2_request_proxy ==
    << M(0, "create_pool", << "new_id", "fd", "int" >>),
       M(1, "release", <<>>) >>

wl_shm_v2_request_args ==
    << M(0, "create_pool", << "new_id", "fd", "int" >>),
       M(1, "release", <<>>) >>

wl_shm_v2_event_args ==
    << M(0, "format", << "uint" >>) >>

wl_buffer_v1_event_handler ==
    << M(0, "release", <<>>) >>

wl_buffer_v1_request_proxy ==
    << M(0, "destroy", <<>>) >>

wl_buffer_v1_request_args ==
    << M(0, "destroy", <<>>) >>

wl_buffer_v1_event_args ==
    << M(0, "release", <<>>) >>

wl_data_offer_v3_event_handler ==
    << M(0, "offer", << "string" >>),
       M(1, "source_actions", << "uint" >>),
       M(2, "action", << "uint" >>) >>

wl_data_offer_v3_request_proxy ==
    << M(0, "accept", << "uint", "string" >>),
       M(1, "receive", << "string", "fd" >>),
       M(2, "destroy", <<>>),
       M(3, "finish", <<>>),
       M(4, "set_actions", << "uint", "uint" >>) >>

wl_data_offer_v3_request_args ==
    << M(0, "accept", << "uint", "string" >>),
       M(1, "receive", << "string", "fd" >>),
       M(2, "destroy", <<>>),
       M(3, "finish", <<>>),
       M(4, "set_actions", << "uint", "uint" >>) >>

wl_data_offer_v3_event_args ==
    << M(0, "offer", << "string" >>),
       M(1, "source_actions", << "uint" >>),
       M(2, "action", << "uint" >>) >>

wl_data_source_v3_event_handler ==
    << M(0, "target", << "string" >>),
       M(1, "send", << "string", "fd" >>),
       M(2, "cancelled", <<>>),
       M(3, "dnd_drop_performed", <<>>),
       M(4, "dnd_finished", <<>>),
       M(5, "action", << "uint" >>) >>

wl_data_source_v3_request_proxy ==
    << M(0, "offer", << "string" >>),
       M(1, "destroy", <<>>),
       M(2, "set_actions", << "uint" >>) >>

wl_data_source_v3_request_args ==
    << M(0, "offer", << "string" >>),
       M(1, "destroy", <<>>),
       M(2, "set_actions", << "uint" >>) >>

wl_data_source_v3_event_args ==
    << M(0, "target", << "string" >>),
       M(1, "send", << "string", "fd" >>),
       M(2, "cancelled", <<>>),
       M(3, "dnd_drop_performed", <<>>),
       M(4, "dnd_finished", <<>>),
       M(5, "action", << "uint" >>) >>

wl_data_device_v3_event_handler ==
    << M(0, "data_offer", << "new_id" >>),
       M(1, "enter", << "uint", "object", "fixed", "fixed", "object" >>),
       M(2, "leave", <<>>),
       M(3, "motion", << "uint", "fixed", "fixed" >>),
       M(4, "drop", <<>>),
       M(5, "selection", << "object" >>) >>

wl_data_device_v3_request_proxy ==
    << M(0, "start_drag", << "object", "object", "object", "uint" >>),
       M(1, "set_selection", << "object", "uint" >>),
       M(2, "release", <<>>) >>

wl_data_device_v3_request_args ==
    << M(0, "start_drag", << "object", "object", "object", "uint" >>),
       M(1, "set_selection", << "object", "uint" >>),
       M(2, "release", <<>>) >>

wl_data_device_v3_event_args ==
    << M(0, "data_offer", << "new_id" >>),
       M(1, "enter", << "uint", "object", "fixed", "fixed", "object" >>),
       M(2, "leave", <<>>),
       M(3, "motion", << "uint", "fixed", "fixed" >>),
       M(4, "drop", <<>>),
       M(5, "selection", << "object" >>) >>

wl_data_device_manager_v3_request_proxy ==
    << M(0, "create_data_source", << "new_id" >>),
       M(1, "get_data_device", << "new_id", "object" >>) >>

wl_data_device_manager_v3_request_args ==
    << M(0, "create_data_source", << "new_id" >>),
       M(1, "get_data_device", << "new_id", "object" >>) >>

wl_shell_v1_request_proxy ==
    << M(0, "get_shell_surface", << "new_id", "object" >>) >>

wl_shell_v1_request_args ==
    << M(0, "get_shell_surface", << "new_id", "object" >>) >>

wl_shell_surface_v1_event_handler ==
    << M(0, "ping", << "uint" >>),
       M(1, "configure", << "uint", "int", "int" >>),
       M(2, "popup_done", <<>>) >>

wl_shell_surface_v1_request_proxy ==
    << M(0, "pong", << "uint" >>),
       M(1, "move", << "object", "uint" >>),
       M(2, "resize", << "object", "uint", "uint" >>),
       M(3, "set_toplevel", <<>>),
       M(4, "set_transient", << "object", "int", "int", "uint" >>),
       M(5, "set_fullscreen", << "uint", "uint", "object" >>),
       M(6, "set_popup",
         << "object", "uint", "object", "int", "int", "uint" >>),
       M(7, "set_maximized", << "object" >>),
       M(8, "set_title", << "string" >>),
       M(9, "set_class", << "string" >>) >>

wl_shell_surface_v1_request_args ==
    << M(0, "pong", << "uint" >>),
       M(1, "move", << "object", "uint" >>),
       M(2, "resize", << "object", "uint", "uint" >>),
       M(3, "set_toplevel", <<>>),
       M(4, "set_transient", << "object", "int", "int", "uint" >>),
       M(5, "set_fullscreen", << "uint", "uint", "object" >>),
       M(6, "set_popup",
         << "object", "uint", "object", "int", "int", "uint" >>),
       M(7, "set_maximized", << "object" >>),
       M(8, "set_title", << "string" >>),
       M(9, "set_class", << "string" >>) >>

wl_shell_surface_v1_event_args ==
    << M(0, "ping", << "uint" >>),
       M(1, "configure", << "uint", "int", "int" >>),
       M(2, "popup_done", <<>>) >>

wl_surface_v6_event_handler ==
    << M(0, "enter", << "object" >>),
       M(1, "leave", << "object" >>),
       M(2, "preferred_buffer_scale", << "int" >>),
       M(3, "preferred_buffer_transform", << "uint" >>) >>

wl_surface_v6_request_proxy ==
    << M(0, "destroy", <<>>),
       M(1, "attach", << "object", "int", "int" >>),
       M(2, "damage", << "int", "int", "int", "int" >>),
       M(3, "frame", << "new_id" >>),
       M(4, "set_opaque_region", << "object" >>),
       M(5, "set_input_region", << "object" >>),
       M(6, "commit", <<>>),
       M(7, "set_buffer_transform", << "int" >>),
       M(8, "set_buffer_scale", << "int" >>),
       M(9, "damage_buffer", << "int", "int", "int", "int" >>),
       M(10, "offset", << "int", "int" >>) >>

wl_surface_v6_request_args ==
    << M(0, "destroy", <<>>),
       M(1, "attach", << "object", "int", "int" >>),
       M(2, "damage", << "int", "int", "int", "int" >>),
       M(3, "frame", << "new_id" >>),
       M(4, "set_opaque_region", << "object" >>),
       M(5, "set_input_region", << "object" >>),
       M(6, "commit", <<>>),
       M(7, "set_buffer_transform", << "int" >>),
       M(8, "set_buffer_scale", << "int" >>),
       M(9, "damage_buffer", << "int", "int", "int", "int" >>),
       M(10, "offset", << "int", "int" >>) >>

wl_surface_v6_event_args ==
    << M(0, "enter", << "object" >>),
       M(1, "leave", << "object" >>),
       M(2, "preferred_buffer_scale", << "int" >>),
       M(3, "preferred_buffer_transform", << "uint" >>) >>

wl_seat_v10_event_handler ==
    << M(0, "capabilities", << "uint" >>),
       M(1, "name", << "string" >>) >>

wl_seat_v10_request_proxy ==
    << M(0, "get_pointer", << "new_id" >>),
       M(1, "get_keyboard", << "new_id" >>),
       M(2, "get_touch", << "new_id" >>),
       M(3, "release", <<>>) >>

wl_seat_v10_request_args ==
    << M(0, "get_pointer", << "new_id" >>),
       M(1, "get_keyboard", << "new_id" >>),
       M(2, "get_touch", << "new_id" >>),
       M(3, "release", <<>>) >>

wl_seat_v10_event_args ==
    << M(0, "capabilities", << "uint" >>),
       M(1, "name", << "string" >>) >>

wl_pointer_v10_event_handler ==
    << M(0, "enter", << "uint", "object", "fixed", "fixed" >>),
       M(1, "leave", << "uint", "object" >>),
       M(2, "motion", << "uint", "fixed", "fixed" >>),
       M(3, "button", << "uint", "uint", "uint", "uint" >>),
       M(4, "axis", << "uint", "uint", "fixed" >>),
       M(5, "frame", <<>>),
       M(6, "axis_source", << "uint" >>),
       M(7, "axis_stop", << "uint", "uint" >>),
       M(8, "axis_discrete", << "uint", "int" >>),
       M(9, "axis_value120", << "uint", "int" >>),
       M(10, "axis_relative_direction", << "uint", "uint" >>) >>

wl_pointer_v10_request_proxy ==
    << M(0, "set_cursor", << "uint", "object", "int", "int" >>),
       M(1, "release", <<>>) >>

wl_pointer_v10_request_args ==
    << M(0, "set_cursor", << "uint", "object", "int", "int" >>),
       M(1, "release", <<>>) >>

wl_pointer_v10_event_args ==
    << M(0, "enter", << "uint", "object", "fixed", "fixed" >>),
       M(1, "leave", << "uint", "object" >>),
       M(2, "motion", << "uint", "fixed", "fixed" >>),
       M(3, "button", << "uint", "uint", "uint", "uint" >>),
       M(4, "axis", << "uint", "uint", "fixed" >>),
       M(5, "frame", <<>>),
       M(6, "axis_source", << "uint" >>),
       M(7, "axis_stop", << "uint", "uint" >>),
       M(8, "axis_discrete", << "uint", "int" >>),
       M(9, "axis_value120", << "uint", "int" >>),
       M(10, "axis_relative_direction", << "uint", "uint" >>) >>

wl_keyboard_v10_event_handler ==
    << M(0, "keymap", << "uint", "fd", "uint" >>),
       M(1, "enter", << "uint", "object", "array" >>),
       M(2, "leave", << "uint", "object" >>),
       M(3, "key", << "uint", "uint", "uint", "uint" >>),
       M(4, "modifiers", << "uint", "uint", "uint", "uint", "uint" >>),
       M(5, "repeat_info", << "int", "int" >>) >>

wl_keyboard_v10_request_proxy ==
    << M(0, "release", <<>>) >>

wl_keyboard_v10_request_args ==
    << M(0, "release", <<>>) >>

wl_keyboard_v10_event_args ==
    << M(0, "keymap", << "uint", "fd", "uint" >>),
       M(1, "enter", << "uint", "object", "array" >>),
       M(2, "leave", << "uint", "object" >>),
       M(3, "key", << "uint", "uint", "uint", "uint" >>),
       M(4, "modifiers", << "uint", "uint", "uint", "uint", "uint" >>),
       M(5, "repeat_info", << "int", "int" >>) >>

wl_touch_v10_event_handler ==
    << M(0, "down", << "uint", "uint", "object", "int", "fixed", "fixed" >>),
       M(1, "up", << "uint", "uint", "int" >>),
       M(2, "motion", << "uint", "int", "fixed", "fixed" >>),
       M(3, "frame", <<>>),
       M(4, "cancel", <<>>),
       M(5, "shape", << "int", "fixed", "fixed" >>),
       M(6, "orientation", << "int", "fixed" >>) >>

wl_touch_v10_request_proxy ==
    << M(0, "release", <<>>) >>

wl_touch_v10_request_args ==
    << M(0, "release", <<>>) >>

wl_touch_v10_event_args ==
    << M(0, "down", << "uint", "uint", "object", "int", "fixed", "fixed" >>),
       M(1, "up", << "uint", "uint", "int" >>),
       M(2, "motion", << "uint", "int", "fixed", "fixed" >>),
       M(3, "frame", <<>>),
       M(4, "cancel", <<>>),
       M(5, "shape", << "int", "fixed", "fixed" >>),
       M(6, "orientation", << "int", "fixed" >>) >>

wl_output_v4_event_handler ==
    << M(0, "geometry",
         << "int", "int", "int", "int", "int", "string", "string", "int" >>),
       M(1, "mode", << "uint", "int", "int", "int" >>),
       M(2, "done", <<>>),
       M(3, "scale", << "int" >>),
       M(4, "name", << "string" >>),
       M(5, "description", << "string" >>) >>

wl_output_v4_request_proxy ==
    << M(0, "release", <<>>) >>

wl_output_v4_request_args ==
    << M(0, "release", <<>>) >>

wl_output_v4_event_args ==
    << M(0, "geometry",
         << "int", "int", "int", "int", "int", "string", "string", "int" >>),
       M(1, "mode", << "uint", "int", "int", "int" >>),
       M(2, "done", <<>>),
       M(3, "scale", << "int" >>),
       M(4, "name", << "string" >>),
       M(5, "description", << "string" >>) >>

wl_region_v1_request_proxy ==
    << M(0, "destroy", <<>>),
       M(1, "add", << "int", "int", "int", "int" >>),
       M(2, "subtract", << "int", "int", "int", "int" >>) >>

wl_region_v1_request_args ==
    << M(0, "destroy", <<>>),
       M(1, "add", << "int", "int", "int", "int" >>),
       M(2, "subtract", << "int", "int", "int", "int" >>) >>

wl_subcompositor_v1_request_proxy ==
    << M(0, "destroy", <<>>),
       M(1, "get_subsurface", << "new_id", "object", "object" >>) >>

wl_subcompositor_v1_request_args ==
    << M(0, "destroy", <<>>),
       M(1, "get_subsurface", << "new_id", "object", "object" >>) >>

wl_subsurface_v1_request_proxy ==
    << M(0, "destroy", <<>>),
       M(1, "set_position", << "int", "int" >>),
       M(2, "place_above", << "object" >>),
       M(3, "place_below", << "object" >>),
       M(4, "set_sync", <<>>),
       M(5, "set_desync", <<>>) >>

wl_subsurface_v1_request_args ==
    << M(0, "destroy", <<>>),
       M(1, "set_position", << "int", "int" >>),
       M(2, "place_above", << "object" >>),
       M(3, "place_below", << "object" >>),
       M(4, "set_sync", <<>>),
       M(5, "set_desync", <<>>) >>

wl_fixes_v1_request_proxy ==
    << M(0, "destroy", <<>>),
       M(1, "destroy_registry", << "object" >>) >>

wl_fixes_v1_request_args ==
    << M(0, "destroy", <<>>),
       M(1, "destroy_registry", << "object" >>) >>

(* The interfaces of the file.                                            *)
WaylandCoreInterfaces ==
    "wl_display_v1" :>
        Bindings(wl_display_v1_event_handler,
                 wl_display_v1_request_proxy,
                 wl_display_v1_request_args,
                 wl_display_v1_event_args)
    @@ "wl_registry_v1" :>
        Bindings(wl_registry_v1_event_handler,
                 wl_registry_v1_request_proxy,
                 wl_registry_v1_request_args,
                 wl_registry_v1_event_args)
    @@ "wl_callback_v1" :>
        Bindings(wl_callback_v1_event_handler,
                 <<>>,
                 <<>>, wl_callback_v1_event_args)
    @@ "wl_compositor_v6" :>
        Bindings(<<>>, wl_compositor_v6_request_proxy,
                 wl_compositor_v6_request_args, <<>>)
    @@ "wl_shm_pool_v2" :>
        Bindings(<<>>, wl_shm_pool_v2_request_proxy,
                 wl_shm_pool_v2_request_args, <<>>)
    @@ "wl_shm_v2" :>
        Bindings(wl_shm_v2_event_handler,
                 wl_shm_v2_request_proxy,
                 wl_shm_v2_request_args,
                 wl_shm_v2_event_args)
    @@ "wl_buffer_v1" :>
        Bindings(wl_buffer_v1_event_handler,
                 wl_buffer_v1_request_proxy,
                 wl_buffer_v1_request_args,
                 wl_buffer_v1_event_args)
    @@ "wl_data_offer_v3" :>
        Bindings(wl_data_offer_v3_event_handler,
                 wl_data_offer_v3_request_proxy,
                 wl_data_offer_v3_request_args,
                 wl_data_offer_v3_event_args)
    @@ "wl_data_source_v3" :>
        Bindings(wl_data_source_v3_event_handler,
                 wl_data_source_v3_request_proxy,
                 wl_data_source_v3_request_args,
                 wl_data_source_v3_event_args)
    @@ "wl_data_device_v3" :>
        Bindings(wl_data_device_v3_event_handler,
                 wl_data_device_v3_request_proxy,
                 wl_data_device_v3_request_args,
                 wl_data_device_v3_event_args)
    @@ "wl_data_device_manager_v3" :>
        Bindings(<<>>, wl_data_device_manager_v3_request_proxy,
                 wl_data_device_manager_v3_request_args, <<>>)
    @@ "wl_shell_v1" :>
        Bindings(<<>>, wl_shell_v1_request_proxy,
                 wl_shell_v1_request_args, <<>>)
    @@ "wl_shell_surface_v1" :>
        Bindings(wl_shell_surface_v1_event_handler,
                 wl_shell_surface_v1_request_proxy,
                 wl_shell_surface_v1_request_args,
                 wl_shell_surface_v1_event_args)
    @@ "wl_surface_v6" :>
        Bindings(wl_surface_v6_event_handler,
                 wl_surface_v6_request_proxy,
                 wl_surface_v6_request_args,
                 wl_surface_v6_event_args)
    @@ "wl_seat_v10" :>
        Bindings(wl_seat_v10_event_handler,
                 wl_seat_v10_request_proxy,
                 wl_seat_v10_request_args,
                 wl_seat_v10_event_args)
    @@ "wl_pointer_v10" :>
        Bindings(wl_pointer_v10_event_handler,
                 wl_pointer_v10_request_proxy,
                 wl_pointer_v10_request_args,
                 wl_pointer_v10_event_args)
    @@ "wl_keyboard_v10" :>
        Bindings(wl_keyboard_v10_event_handler,
                 wl_keyboard_v10_request_proxy,
                 wl_keyboard_v10_request_args,
                 wl_keyboard_v10_event_args)
    @@ "wl_touch_v10" :>
        Bindings(wl_touch_v10_event_handler,
                 wl_touch_v10_request_proxy,
                 wl_touch_v10_request_args,
                 wl_touch_v10_event_args)
    @@ "wl_output_v4" :>
        Bindings(wl_output_v4_event_handler,
                 wl_output_v4_request_proxy,
                 wl_output_v4_request_args,
                 wl_output_v4_event_args)
    @@ "wl_region_v1" :>
        Bindings(<<>>, wl_region_v1_request_proxy,
                 wl_region_v1_request_args, <<>>)
    @@ "wl_subcompositor_v1" :>
        Bindings(<<>>, wl_subcompositor_v1_request_proxy,
                 wl_subcompositor_v1_request_args, <<>>)
    @@ "wl_subsurface_v1" :>
        Bindings(<<>>, wl_subsurface_v1_request_proxy,
                 wl_subsurface_v1_request_args, <<>>)
    @@ "wl_fixes_v1" :>
        Bindings(<<>>, wl_fixes_v1_request_proxy,
                 wl_fixes_v1_request_args, <<>>)
=============================================================================
