----------------------------- MODULE VvcHeaders -----------------------------
(***************************************************************************)
(* The parameter sets, picture headers and slice headers of a VVC stream   *)
(* (vvc/headers/mod.rs), with the configuration they come from (vvc/       *)
(* format.rs, the beginning of vvc/encode.rs) and the choice of units for  *)
(* a picture.  The second half is the syntax of the format (H.266 7.3.2.3, *)
(* 7.3.2.4, 7.3.2.8 and 7.3.7): which fields a decoder expects, given the  *)
(* values of those before and of the parameter sets a header refers to.    *)
(*                                                                         *)
(* A field is a record of its name, its code and its value.  How a code    *)
(* becomes bits, the alignment in front of slice data and the trailing     *)
(* bits are in VvcSliceSyntax.                                             *)
(***************************************************************************)
EXTENDS VvcPartition
LOCAL INSTANCE SequencesExt

CONSTANTS
    Codings,        \* the streams TLC looks at: size, format and options
    MaxPictures     \* bound on the pictures of a stream, for TLC

HeadersAssumption == MaxPictures \in Nat
ASSUME HeadersAssumption

VARIABLES
    coding,     \* the request: size, format and options
    sent,       \* the units of the stream, with the slices they are for
    pictures    \* frame_idx

headerVars == <<coding, sent, pictures>>

PocBits == 16           \* VVC_POC_LSB_BITS
InitQp == 32            \* VVC_PPS_INIT_QP
MaxTileColumns == 30    \* VVC_MAX_EXPLICIT_TILE_COLUMNS
MaxTiles == 990         \* VVC_MAX_TILES_PER_PICTURE
SingleSlicePps == 1     \* VVC_PREDICTIVE_SINGLE_SLICE_PPS_ID

-----------------------------------------------------------------------------
(* Fields *)

U(name, bits, value) == <<[name |-> name, code |-> <<"u", bits>>, value |-> value]>>
Mark(name, set) == U(name, 1, Flag(set))
Ue(name, value) == <<[name |-> name, code |-> <<"ue", 0>>, value |-> value]>>
Se(name, value) == <<[name |-> name, code |-> <<"se", 0>>, value |-> value]>>
Off(names) == [i \in DOMAIN names |-> [name |-> names[i], code |-> <<"u", 1>>, value |-> 0]]
When(condition, fields) == IF condition THEN fields ELSE <<>>
Times(n, field) == [i \in 1..n |-> field[1]]

\* The bits of a field, as in VvcCabac.
LogTwo[v \in Nat] == IF v <= 1 THEN 0 ELSE 1 + LogTwo[v \div 2]
FieldLength(f) ==
    LET code == CASE f.code[1] = "ue" -> f.value
                  [] f.code[1] = "se" -> IF f.value > 0 THEN 2 * f.value - 1 ELSE -2 * f.value
    IN  IF f.code[1] = "u" THEN f.code[2] ELSE 2 * LogTwo[code + 1] + 1
BitLength(fields) ==
    LET upTo[i \in 0..Len(fields)] == IF i = 0 THEN 0 ELSE upTo[i - 1] + FieldLength(fields[i])
    IN  upTo[Len(fields)]

\* byte_align_zero
ToByte(fields, name) == Off([i \in 1 .. (8 - (BitLength(fields) % 8)) % 8 |-> name])

-----------------------------------------------------------------------------
(* The configuration *)

Coded(size) == 8 * ((size + 7) \div 8)      \* coded_canvas_dimension
CtuCols(o) == (Coded(o.w) + CtuSize - 1) \div CtuSize
CtuRows(o) == (Coded(o.h) + CtuSize - 1) \div CtuSize
CtusOf(o) == CtuCols(o) * CtuRows(o)

\* vvc_one_slice_per_ctu_partitioning_supported
SlicesSupported(o) == CtuCols(o) <= MaxTileColumns /\ CtusOf(o) <= MaxTiles

\* scc_444_enabled
ScreenCoding(o) ==
    /\ ~o.predictive /\ o.lossless /\ o.speed
    /\ o.sampling = "444" /\ ~o.rgb /\ o.profile \in {33, 34}

\* VvcSyntaxToolFlags::residual, without_lossless_speed_unused_tools, with_scc_444_tools
ToolsOf(o) ==
    [mts |-> ~o.lossless, mrl |-> ~(o.lossless /\ o.speed), cclm |-> ~(o.lossless /\ o.speed),
     ibc |-> ScreenCoding(o), palette |-> ScreenCoding(o), dual |-> ~ScreenCoding(o)]

\* Whether picture_partitioning makes every CTU a slice, for the set with an id.
Partitioned(o, pps) == pps = 0 /\ o.predictive /\ SlicesSupported(o) /\ CtusOf(o) > 1

\* crop_right, crop_bottom
Crop(size, sub) == (Coded(size) - size) \div sub

-----------------------------------------------------------------------------
(* Sequence parameter set: vvc_sps_rbsp *)

ProfileFields(o) ==
    Mark("sps_ptl_dpb_hrd_params_present_flag", TRUE)
    \o U("general_profile_idc", 7, o.profile) \o Mark("general_tier_flag", FALSE)
    \o U("general_level_idc", 8, 0)
    \o Mark("ptl_frame_only_constraint_flag", TRUE) \o Off(<<"ptl_multilayer_enabled_flag", "gci_present_flag">>)
    \o Times(5, Mark("gci_alignment_zero_bit", FALSE)) \o U("ptl_num_sub_profiles", 8, 0)

SizeFields(o) ==
    Mark("sps_gdr_enabled_flag", FALSE)
    \o Mark("sps_ref_pic_resampling_enabled_flag", TRUE) \o Mark("sps_res_change_in_clvs_allowed_flag", FALSE)
    \o Ue("sps_pic_width_max_in_luma_samples", Coded(o.w)) \o Ue("sps_pic_height_max_in_luma_samples", Coded(o.h))
    \o Mark("sps_conformance_window_flag", TRUE)
    \o Ue("sps_conf_win_left_offset", 0) \o Ue("sps_conf_win_right_offset", Crop(o.w, SubWidth(o.sampling)))
    \o Ue("sps_conf_win_top_offset", 0) \o Ue("sps_conf_win_bottom_offset", Crop(o.h, SubHeight(o.sampling)))
    \o Mark("sps_subpic_info_present_flag", FALSE) \o Ue("sps_bitdepth_minus8", o.depth - 8)

OrderFields ==
    Mark("sps_entropy_coding_sync_enabled_flag", FALSE) \o Mark("sps_entry_point_offsets_present_flag", TRUE)
    \o U("sps_log2_max_pic_order_cnt_lsb_minus4", 4, PocBits - 4) \o Mark("sps_poc_msb_cycle_flag", FALSE)
    \o U("sps_num_extra_ph_bytes", 2, 0) \o U("sps_num_extra_sh_bytes", 2, 0)
    \o Ue("dpb_max_dec_pic_buffering_minus1", 0) \o Ue("dpb_max_num_reorder_pics", 0)
    \o Ue("dpb_max_latency_increase_plus1", 0)

TreeFields(o) ==
    Ue("sps_log2_min_luma_coding_block_size_minus2", 0)
    \o Mark("sps_partition_constraints_override_enabled_flag", TRUE)
    \o Ue("sps_log2_diff_min_qt_min_cb_intra_slice_luma", 1)
    \o Ue("sps_max_mtt_hierarchy_depth_intra_slice_luma", IntraLimits.depth)
    \o Ue("sps_log2_diff_max_bt_min_qt_intra_slice_luma", 2)
    \o Ue("sps_log2_diff_max_tt_min_qt_intra_slice_luma", 2)
    \o Mark("sps_qtbtt_dual_tree_intra_flag", ToolsOf(o).dual)
    \o When(ToolsOf(o).dual,
            Ue("sps_log2_diff_min_qt_min_cb_intra_slice_chroma", 1)
            \o Ue("sps_max_mtt_hierarchy_depth_intra_slice_chroma", 3)
            \o Ue("sps_log2_diff_max_bt_min_qt_intra_slice_chroma", 3)
            \o Ue("sps_log2_diff_max_tt_min_qt_intra_slice_chroma", 2))
    \o Ue("sps_log2_diff_min_qt_min_cb_inter_slice", 1)
    \o Ue("sps_max_mtt_hierarchy_depth_inter_slice", 3)
    \o Ue("sps_log2_diff_max_bt_min_qt_inter_slice", 3)
    \o Ue("sps_log2_diff_max_tt_min_qt_inter_slice", 3)

TransformFields(o) ==
    Mark("sps_max_luma_transform_size_64_flag", TRUE)
    \o Mark("sps_transform_skip_enabled_flag", TRUE)
    \o Ue("sps_log2_transform_skip_max_size_minus2", 1) \o Mark("sps_bdpcm_enabled_flag", TRUE)
    \o Mark("sps_mts_enabled_flag", ToolsOf(o).mts)
    \o When(ToolsOf(o).mts, Mark("sps_explicit_mts_intra_enabled_flag", TRUE)
                            \o Mark("sps_explicit_mts_inter_enabled_flag", FALSE))
    \o Off(<<"sps_lfnst_enabled_flag", "sps_joint_cbcr_enabled_flag">>)
    \o Mark("sps_same_qp_table_for_chroma_flag", TRUE) \o Se("sps_qp_table_starts_minus26", -9)
    \o Ue("sps_num_points_in_qp_table_minus1", 2)
    \o Ue("sps_delta_qp_in_val_minus1", 9) \o Ue("sps_delta_qp_diff_val", 5)
    \o Ue("sps_delta_qp_in_val_minus1", 4) \o Ue("sps_delta_qp_diff_val", 1)
    \o Ue("sps_delta_qp_in_val_minus1", 11) \o Ue("sps_delta_qp_diff_val", 12)

InterFields(o) ==
    Off(<<"sps_sao_enabled_flag", "sps_alf_enabled_flag", "sps_lmcs_enabled_flag", "sps_weighted_pred_flag",
          "sps_weighted_bipred_flag", "sps_long_term_ref_pics_flag", "sps_idr_rpl_present_flag">>)
    \o Mark("sps_rpl1_same_as_rpl0_flag", TRUE) \o Ue("sps_num_ref_pic_lists", 1)
    \o Ue("num_ref_entries", Flag(o.predictive))
    \o When(o.predictive, Ue("abs_delta_poc_st", 0) \o Mark("strp_entry_sign_flag", TRUE))
    \o Off(<<"sps_ref_wraparound_enabled_flag", "sps_temporal_mvp_enabled_flag", "sps_amvr_enabled_flag",
             "sps_bdof_enabled_flag", "sps_smvd_enabled_flag", "sps_dmvr_enabled_flag", "sps_mmvd_enabled_flag">>)
    \o Ue("sps_six_minus_max_num_merge_cand", IF o.predictive THEN 5 ELSE 0)
    \o Off(<<"sps_sbt_enabled_flag", "sps_affine_enabled_flag", "sps_bcw_enabled_flag", "sps_ciip_enabled_flag">>)
    \o When(~o.predictive, Mark("sps_gpm_enabled_flag", FALSE))
    \o Ue("sps_log2_parallel_merge_level_minus2", 0)

IntraFields(o) ==
    LET tools == ToolsOf(o)
    IN  Mark("sps_isp_enabled_flag", FALSE) \o Mark("sps_mrl_enabled_flag", tools.mrl)
        \o Mark("sps_mip_enabled_flag", FALSE) \o Mark("sps_cclm_enabled_flag", tools.cclm)
        \o When(o.sampling = "420", Mark("sps_chroma_horizontal_collocated_flag", TRUE)
                                    \o Mark("sps_chroma_vertical_collocated_flag", FALSE))
        \o Mark("sps_palette_enabled_flag", tools.palette)
        \o Ue("sps_internal_bit_depth_minus_input_bit_depth", 0)
        \o Mark("sps_ibc_enabled_flag", tools.ibc)
        \o When(tools.ibc, Ue("sps_six_minus_max_num_ibc_merge_cand", 5))

\* write_vvc_vui_parameters
VuiFields ==
    LET signal == Mark("vui_progressive_source_flag", TRUE) \o Mark("vui_interlaced_source_flag", FALSE)
                  \o Mark("vui_non_packed_constraint_flag", TRUE)
                  \o Mark("vui_non_projected_constraint_flag", TRUE)
                  \o Off(<<"vui_aspect_ratio_info_present_flag", "vui_overscan_info_present_flag">>)
                  \o Mark("vui_colour_description_present_flag", TRUE)
                  \o U("vui_colour_primaries", 8, 1) \o U("vui_transfer_characteristics", 8, 13)
                  \o U("vui_matrix_coeffs", 8, 2) \o Mark("vui_full_range_flag", TRUE)
                  \o Mark("vui_chroma_loc_info_present_flag", FALSE)
        ended == signal \o Mark("vui_payload_bit_equal_to_one", TRUE)
    IN  IF BitLength(signal) % 8 = 0 THEN signal
        ELSE ended \o ToByte(ended, "vui_payload_bit_equal_to_zero")

Sps(o) ==
    LET before == U("sps_seq_parameter_set_id", 4, 0) \o U("sps_video_parameter_set_id", 4, 0)
                  \o U("sps_max_sub_layers_minus1", 3, 0)
                  \o U("sps_chroma_format_idc", 2, CASE o.sampling = "420" -> 1 [] o.sampling = "422" -> 2
                                                     [] o.sampling = "444" -> 3)
                  \o U("sps_log2_ctu_size_minus5", 2, 1)
                  \o ProfileFields(o) \o SizeFields(o) \o OrderFields \o TreeFields(o) \o TransformFields(o)
                  \o InterFields(o) \o IntraFields(o)
                  \o Off(<<"sps_ladf_enabled_flag", "sps_explicit_scaling_list_enabled_flag",
                           "sps_dep_quant_enabled_flag", "sps_sign_data_hiding_enabled_flag",
                           "sps_virtual_boundaries_enabled_flag", "sps_timing_hrd_params_present_flag",
                           "sps_field_seq_flag">>)
                  \o Mark("sps_vui_parameters_present_flag", o.rgb)
        sized == before \o Ue("sps_vui_payload_size_minus1", (BitLength(VuiFields) \div 8) - 1)
    IN  (IF o.rgb THEN sized \o ToByte(sized, "sps_vui_alignment_zero_bit") \o VuiFields ELSE before)
        \o Mark("sps_extension_flag", FALSE)

-----------------------------------------------------------------------------
(* Picture parameter set: vvc_pps_rbsp_with_partitioning_and_config *)

\* Mutant: the heights are told for every slice above the last row.
MutTileIndexFields(i, cols, rows) ==
    When(i % cols # cols - 1, Ue("pps_slice_width_in_tiles_minus1", 0))
    \o When(i \div cols # rows - 1, Ue("pps_slice_height_in_tiles_minus1", 0))

TileIndexFields(i, cols, rows) ==
    When(i % cols # cols - 1, Ue("pps_slice_width_in_tiles_minus1", 0))
    \o When(i \div cols # rows - 1 /\ i % cols = 0, Ue("pps_slice_height_in_tiles_minus1", 0))

PartitionFields(o) ==
    LET cols == CtuCols(o)
        rows == CtuRows(o)
    IN  U("pps_log2_ctu_size_minus5", 2, 1)
        \o Ue("pps_num_exp_tile_columns_minus1", cols - 1) \o Ue("pps_num_exp_tile_rows_minus1", rows - 1)
        \o Times(cols, Ue("pps_tile_column_width_minus1", 0)) \o Times(rows, Ue("pps_tile_row_height_minus1", 0))
        \o Mark("pps_loop_filter_across_tiles_enabled_flag", FALSE)
        \o Mark("pps_rect_slice_flag", TRUE) \o Mark("pps_single_slice_per_subpic_flag", FALSE)
        \o Ue("pps_num_slices_in_pic_minus1", cols * rows - 1)
        \o When(cols * rows > 2, Mark("pps_tile_idx_delta_present_flag", FALSE))
        \o FlattenSeq([i \in 1 .. cols * rows - 1 |-> TileIndexFields(i - 1, cols, rows)])
        \o Mark("pps_loop_filter_across_slices_enabled_flag", FALSE)

Pps(o, id) ==
    LET references == IF o.predictive THEN 0 ELSE 3
    IN  U("pps_pic_parameter_set_id", 6, id) \o U("pps_seq_parameter_set_id", 4, 0)
        \o Mark("pps_mixed_nalu_types_in_pic_flag", FALSE)
        \o Ue("pps_pic_width_in_luma_samples", Coded(o.w)) \o Ue("pps_pic_height_in_luma_samples", Coded(o.h))
        \o Off(<<"pps_conformance_window_flag", "pps_scaling_window_explicit_signalling_flag",
                 "pps_output_flag_present_flag">>)
        \o Mark("pps_no_pic_partition_flag", ~Partitioned(o, id))
        \o Mark("pps_subpic_id_mapping_present_flag", FALSE)
        \o When(Partitioned(o, id), PartitionFields(o))
        \o Mark("pps_cabac_init_present_flag", FALSE)
        \o Times(2, Ue("pps_num_ref_idx_default_active_minus1", references))
        \o Off(<<"pps_rpl1_idx_present_flag", "pps_weighted_pred_flag", "pps_weighted_bipred_flag",
                 "pps_ref_wraparound_enabled_flag">>)
        \o Se("pps_init_qp_minus26", InitQp - 26) \o Mark("pps_cu_qp_delta_enabled_flag", FALSE)
        \o Mark("pps_chroma_tool_offsets_present_flag", TRUE)
        \o Se("pps_cb_qp_offset", 0) \o Se("pps_cr_qp_offset", 0)
        \o Mark("pps_joint_cbcr_qp_offset_present_flag", TRUE) \o Se("pps_joint_cbcr_qp_offset_value", -1)
        \o Off(<<"pps_slice_chroma_qp_offsets_present_flag", "pps_cu_chroma_qp_offset_list_enabled_flag">>)
        \o Mark("pps_deblocking_filter_control_present_flag", TRUE)
        \o Mark("pps_deblocking_filter_override_enabled_flag", FALSE)
        \o Mark("pps_deblocking_filter_disabled_flag", TRUE)
        \o When(Partitioned(o, id), Off(<<"pps_rpl_info_in_ph_flag", "pps_sao_info_in_ph_flag",
                                          "pps_alf_info_in_ph_flag", "pps_qp_delta_info_in_ph_flag">>))
        \o Off(<<"pps_picture_header_extension_present_flag", "pps_slice_header_extension_present_flag",
                 "pps_extension_flag">>)

-----------------------------------------------------------------------------
(* Picture and slice headers *)

Kind(o, index) == IF index = 0 THEN "idr" ELSE IF o.predictive THEN "trail" ELSE "cra"
IsIrap(kind) == kind \in {"idr", "cra"}
InterAllowed(o, kind) == o.predictive /\ ~IsIrap(kind)

\* write_vvc_picture_header
PictureHeader(o, kind, index, pps) ==
    Mark("ph_gdr_or_irap_pic_flag", IsIrap(kind)) \o Mark("ph_non_ref_pic_flag", FALSE)
    \o When(IsIrap(kind), Mark("ph_gdr_pic_flag", FALSE))
    \o Mark("ph_inter_slice_allowed_flag", InterAllowed(o, kind))
    \o When(InterAllowed(o, kind), Mark("ph_intra_slice_allowed_flag", TRUE))
    \o Ue("ph_pic_parameter_set_id", pps) \o U("ph_pic_order_cnt_lsb", PocBits, index % (2 ^ PocBits))
    \o Mark("ph_partition_constraints_override_flag", FALSE)
    \o When(InterAllowed(o, kind), Mark("ph_mvd_l1_zero_flag", TRUE))

SliceType(type) == Ue("sh_slice_type", IF type = "I" THEN 2 ELSE 1)

\* write_vvc_slice_header_ref_pic_lists to the end of the header
SliceState(o, kind) ==
    When(kind # "idr", Mark("rpl_sps_flag", TRUE)) \o Se("sh_qp_delta", o.qp - InitQp)
    \o Mark("sh_ts_residual_coding_disabled_flag", TRUE)

\* vvc_slice_address_bits
AddressBits(o) == IF CtusOf(o) = 1 THEN 0 ELSE 1 + LogTwo[CtusOf(o) - 1]

\* write_vvc_frame_slice_header
FrameSliceHeader(o, kind, index, pps, type) ==
    Mark("sh_picture_header_in_slice_header_flag", TRUE)
    \o PictureHeader(o, kind, index, pps)
    \o When(IsIrap(kind), Mark("sh_no_output_of_prior_pics_flag", FALSE))
    \o When(InterAllowed(o, kind), SliceType(type))
    \o SliceState(o, kind)

\* vvc_ctu_slice_payload_with_poc
CtuSliceHeader(o, kind, index, address, type) ==
    Mark("sh_picture_header_in_slice_header_flag", CtusOf(o) = 1)
    \o When(CtusOf(o) = 1, PictureHeader(o, kind, index, 0))
    \o When(CtusOf(o) > 1, U("sh_slice_address", AddressBits(o), address))
    \o When(InterAllowed(o, kind), SliceType(type))
    \o When(IsIrap(kind), Mark("sh_no_output_of_prior_pics_flag", FALSE))
    \o SliceState(o, kind)

Slice(o, index, fields, ctus, type) ==
    <<[type |-> Kind(o, index), picture |-> index, fields |-> fields, ctus |-> ctus, slice |-> type]>>
Unit(type, index, fields) ==
    <<[type |-> type, picture |-> index, fields |-> fields, ctus |-> {}, slice |-> "none"]>>

-----------------------------------------------------------------------------
(* The stream *)

HeadersInit == coding \in Codings /\ sent = <<>> /\ pictures = 0

\* The parameter sets in front of the first picture.
WriteParameterSets ==
    /\ sent = <<>>
    /\ sent' = Unit("sps", -1, Sps(coding))
               \o When(~coding.predictive \/ SlicesSupported(coding), Unit("pps", -1, Pps(coding, 0)))
               \o When(coding.predictive, Unit("pps", -1, Pps(coding, SingleSlicePps)))
    /\ UNCHANGED <<coding, pictures>>

\* vvc_frame_slice_unit, vvc_predictive_frame_slice_unit: P when a CTU is inter coded.
WriteFrameSlice(type) ==
    /\ sent # <<>> /\ pictures < MaxPictures
    /\ type = "P" => InterAllowed(coding, Kind(coding, pictures))
    /\ sent' = sent \o Slice(coding, pictures,
                             FrameSliceHeader(coding, Kind(coding, pictures), pictures,
                                              IF coding.predictive THEN SingleSlicePps ELSE 0, type),
                             0 .. CtusOf(coding) - 1, type)
    /\ pictures' = pictures + 1
    /\ UNCHANGED coding

\* vvc_predictive_ctu_slice_units_with_inter_skip_cache, for a predictive picture
\* in which some CTUs may be skipped and not all are.  The only CTU of a picture
\* is either skipped, and the picture one slice, or was no candidate.
WriteCtuSlices(skipped) ==
    /\ sent # <<>> /\ pictures < MaxPictures
    /\ coding.predictive /\ pictures > 0 /\ SlicesSupported(coding) /\ CtusOf(coding) > 1
    /\ skipped # 0 .. CtusOf(coding) - 1
    /\ LET slice(c) ==
               LET type == IF c \in skipped THEN "P" ELSE "I"
               IN  Slice(coding, pictures, CtuSliceHeader(coding, "trail", pictures, c, type), {c}, type)
       IN  sent' = sent \o Unit("ph", pictures, PictureHeader(coding, "trail", pictures, 0))
                   \o FlattenSeq([i \in 1 .. CtusOf(coding) |-> slice(i - 1)])
    /\ pictures' = pictures + 1
    /\ UNCHANGED coding

HeadersNext ==
    \/ WriteParameterSets
    \/ \E type \in {"I", "P"} : WriteFrameSlice(type)
    \/ \E skipped \in {{}, {c \in 0 .. CtusOf(coding) - 1 : c % 3 # 1}} : WriteCtuSlices(skipped)

-----------------------------------------------------------------------------
(* The syntax of the format.  v is the values of the fields a decoder has read *)
(* in the unit; a decoder of these streams knows the tools they never use, and *)
(* takes the fields of Unused for zero and the rest of their syntax for absent. *)

Codes(bits, names) == [i \in DOMAIN names |-> <<names[i], <<"u", bits>>>>]
Flags(names) == Codes(1, names)
Exp(names) == [i \in DOMAIN names |-> <<names[i], <<"ue", 0>>>>]
Signed(names) == [i \in DOMAIN names |-> <<names[i], <<"se", 0>>>>]
Loop(n, element) == FlattenSeq([i \in 1..n |-> element])
Is(v, name) == name \in DOMAIN v /\ v[name] = 1

Unused ==
    {"sps_max_sub_layers_minus1", "gci_present_flag", "ptl_num_sub_profiles", "sps_gdr_enabled_flag",
     "sps_subpic_info_present_flag", "sps_entropy_coding_sync_enabled_flag", "sps_poc_msb_cycle_flag",
     "sps_num_extra_ph_bytes", "sps_num_extra_sh_bytes", "sps_joint_cbcr_enabled_flag", "sps_sao_enabled_flag",
     "sps_alf_enabled_flag", "sps_lmcs_enabled_flag", "sps_weighted_pred_flag", "sps_weighted_bipred_flag",
     "sps_long_term_ref_pics_flag", "sps_idr_rpl_present_flag", "sps_temporal_mvp_enabled_flag",
     "sps_amvr_enabled_flag", "sps_bdof_enabled_flag", "sps_dmvr_enabled_flag", "sps_mmvd_enabled_flag",
     "sps_affine_enabled_flag", "sps_gpm_enabled_flag", "sps_ladf_enabled_flag", "sps_dep_quant_enabled_flag",
     "sps_explicit_scaling_list_enabled_flag", "sps_sign_data_hiding_enabled_flag",
     "sps_virtual_boundaries_enabled_flag", "sps_timing_hrd_params_present_flag", "sps_extension_flag",
     "vui_aspect_ratio_info_present_flag", "vui_overscan_info_present_flag", "vui_chroma_loc_info_present_flag",
     "pps_conformance_window_flag", "pps_scaling_window_explicit_signalling_flag", "pps_output_flag_present_flag",
     "pps_subpic_id_mapping_present_flag", "pps_cabac_init_present_flag", "pps_rpl1_idx_present_flag",
     "pps_weighted_pred_flag", "pps_weighted_bipred_flag", "pps_ref_wraparound_enabled_flag",
     "pps_cu_qp_delta_enabled_flag", "pps_cu_chroma_qp_offset_list_enabled_flag",
     "pps_deblocking_filter_override_enabled_flag", "pps_tile_idx_delta_present_flag",
     "pps_single_slice_per_subpic_flag", "pps_picture_header_extension_present_flag",
     "pps_slice_header_extension_present_flag", "pps_extension_flag", "ph_gdr_pic_flag",
     "ph_partition_constraints_override_flag"}

\* 7.3.2.3, with 7.3.3.1 and 7.3.4.2
FormatSps(v) ==
    Codes(4, <<"sps_seq_parameter_set_id", "sps_video_parameter_set_id">>)
    \o Codes(3, <<"sps_max_sub_layers_minus1">>) \o Codes(2, <<"sps_chroma_format_idc", "sps_log2_ctu_size_minus5">>)
    \o Flags(<<"sps_ptl_dpb_hrd_params_present_flag">>)
    \o When(Is(v, "sps_ptl_dpb_hrd_params_present_flag"),
            Codes(7, <<"general_profile_idc">>) \o Flags(<<"general_tier_flag">>) \o Codes(8, <<"general_level_idc">>)
            \o Flags(<<"ptl_frame_only_constraint_flag", "ptl_multilayer_enabled_flag", "gci_present_flag">>)
            \o Loop(5, Flags(<<"gci_alignment_zero_bit">>)) \o Codes(8, <<"ptl_num_sub_profiles">>))
    \o Flags(<<"sps_gdr_enabled_flag", "sps_ref_pic_resampling_enabled_flag">>)
    \o When(Is(v, "sps_ref_pic_resampling_enabled_flag"), Flags(<<"sps_res_change_in_clvs_allowed_flag">>))
    \o Exp(<<"sps_pic_width_max_in_luma_samples", "sps_pic_height_max_in_luma_samples">>)
    \o Flags(<<"sps_conformance_window_flag">>)
    \o When(Is(v, "sps_conformance_window_flag"),
            Exp(<<"sps_conf_win_left_offset", "sps_conf_win_right_offset", "sps_conf_win_top_offset",
                  "sps_conf_win_bottom_offset">>))
    \o Flags(<<"sps_subpic_info_present_flag">>) \o Exp(<<"sps_bitdepth_minus8">>)
    \o Flags(<<"sps_entropy_coding_sync_enabled_flag", "sps_entry_point_offsets_present_flag">>)
    \o Codes(4, <<"sps_log2_max_pic_order_cnt_lsb_minus4">>) \o Flags(<<"sps_poc_msb_cycle_flag">>)
    \o Codes(2, <<"sps_num_extra_ph_bytes", "sps_num_extra_sh_bytes">>)
    \o When(Is(v, "sps_ptl_dpb_hrd_params_present_flag"),
            Exp(<<"dpb_max_dec_pic_buffering_minus1", "dpb_max_num_reorder_pics", "dpb_max_latency_increase_plus1">>))
    \o Exp(<<"sps_log2_min_luma_coding_block_size_minus2">>)
    \o Flags(<<"sps_partition_constraints_override_enabled_flag">>)
    \o Exp(<<"sps_log2_diff_min_qt_min_cb_intra_slice_luma", "sps_max_mtt_hierarchy_depth_intra_slice_luma">>)
    \o When(v["sps_max_mtt_hierarchy_depth_intra_slice_luma"] # 0,
            Exp(<<"sps_log2_diff_max_bt_min_qt_intra_slice_luma", "sps_log2_diff_max_tt_min_qt_intra_slice_luma">>))
    \o When(v["sps_chroma_format_idc"] # 0, Flags(<<"sps_qtbtt_dual_tree_intra_flag">>))
    \o When(Is(v, "sps_qtbtt_dual_tree_intra_flag"),
            Exp(<<"sps_log2_diff_min_qt_min_cb_intra_slice_chroma", "sps_max_mtt_hierarchy_depth_intra_slice_chroma">>)
            \o When(v["sps_max_mtt_hierarchy_depth_intra_slice_chroma"] # 0,
                    Exp(<<"sps_log2_diff_max_bt_min_qt_intra_slice_chroma",
                          "sps_log2_diff_max_tt_min_qt_intra_slice_chroma">>)))
    \o Exp(<<"sps_log2_diff_min_qt_min_cb_inter_slice", "sps_max_mtt_hierarchy_depth_inter_slice">>)
    \o When(v["sps_max_mtt_hierarchy_depth_inter_slice"] # 0,
            Exp(<<"sps_log2_diff_max_bt_min_qt_inter_slice", "sps_log2_diff_max_tt_min_qt_inter_slice">>))
    \o When(v["sps_log2_ctu_size_minus5"] > 0, Flags(<<"sps_max_luma_transform_size_64_flag">>))
    \o Flags(<<"sps_transform_skip_enabled_flag">>)
    \o When(Is(v, "sps_transform_skip_enabled_flag"),
            Exp(<<"sps_log2_transform_skip_max_size_minus2">>) \o Flags(<<"sps_bdpcm_enabled_flag">>))
    \o Flags(<<"sps_mts_enabled_flag">>)
    \o When(Is(v, "sps_mts_enabled_flag"),
            Flags(<<"sps_explicit_mts_intra_enabled_flag", "sps_explicit_mts_inter_enabled_flag">>))
    \o Flags(<<"sps_lfnst_enabled_flag">>)
    \o When(v["sps_chroma_format_idc"] # 0,
            Flags(<<"sps_joint_cbcr_enabled_flag", "sps_same_qp_table_for_chroma_flag">>)
            \o Loop(IF Is(v, "sps_same_qp_table_for_chroma_flag") THEN 1 ELSE 2,
                    Signed(<<"sps_qp_table_starts_minus26">>) \o Exp(<<"sps_num_points_in_qp_table_minus1">>)
                    \o Loop(v["sps_num_points_in_qp_table_minus1"] + 1,
                            Exp(<<"sps_delta_qp_in_val_minus1", "sps_delta_qp_diff_val">>))))
    \o Flags(<<"sps_sao_enabled_flag", "sps_alf_enabled_flag", "sps_lmcs_enabled_flag", "sps_weighted_pred_flag",
               "sps_weighted_bipred_flag", "sps_long_term_ref_pics_flag", "sps_idr_rpl_present_flag",
               "sps_rpl1_same_as_rpl0_flag">>)
    \o Loop(IF Is(v, "sps_rpl1_same_as_rpl0_flag") THEN 1 ELSE 2,
            Exp(<<"sps_num_ref_pic_lists">>)
            \o Loop(v["sps_num_ref_pic_lists"],
                    Exp(<<"num_ref_entries">>)
                    \o Loop(v["num_ref_entries"], Exp(<<"abs_delta_poc_st">>) \o Flags(<<"strp_entry_sign_flag">>))))
    \o Flags(<<"sps_ref_wraparound_enabled_flag", "sps_temporal_mvp_enabled_flag", "sps_amvr_enabled_flag",
               "sps_bdof_enabled_flag", "sps_smvd_enabled_flag", "sps_dmvr_enabled_flag", "sps_mmvd_enabled_flag">>)
    \o Exp(<<"sps_six_minus_max_num_merge_cand">>)
    \o Flags(<<"sps_sbt_enabled_flag", "sps_affine_enabled_flag", "sps_bcw_enabled_flag", "sps_ciip_enabled_flag">>)
    \o When(6 - v["sps_six_minus_max_num_merge_cand"] >= 2, Flags(<<"sps_gpm_enabled_flag">>))
    \o Exp(<<"sps_log2_parallel_merge_level_minus2">>)
    \o Flags(<<"sps_isp_enabled_flag", "sps_mrl_enabled_flag", "sps_mip_enabled_flag">>)
    \o When(v["sps_chroma_format_idc"] # 0, Flags(<<"sps_cclm_enabled_flag">>))
    \o When(v["sps_chroma_format_idc"] = 1,
            Flags(<<"sps_chroma_horizontal_collocated_flag", "sps_chroma_vertical_collocated_flag">>))
    \o Flags(<<"sps_palette_enabled_flag">>)
    \o When(v["sps_chroma_format_idc"] = 3 /\ ~Is(v, "sps_max_luma_transform_size_64_flag"),
            Flags(<<"sps_act_enabled_flag">>))
    \o When(Is(v, "sps_transform_skip_enabled_flag") \/ Is(v, "sps_palette_enabled_flag"),
            Exp(<<"sps_internal_bit_depth_minus_input_bit_depth">>))
    \o Flags(<<"sps_ibc_enabled_flag">>)
    \o When(Is(v, "sps_ibc_enabled_flag"), Exp(<<"sps_six_minus_max_num_ibc_merge_cand">>))
    \o Flags(<<"sps_ladf_enabled_flag", "sps_explicit_scaling_list_enabled_flag", "sps_dep_quant_enabled_flag",
               "sps_sign_data_hiding_enabled_flag", "sps_virtual_boundaries_enabled_flag">>)
    \o When(Is(v, "sps_ptl_dpb_hrd_params_present_flag"), Flags(<<"sps_timing_hrd_params_present_flag">>))
    \o Flags(<<"sps_field_seq_flag", "sps_vui_parameters_present_flag">>)

\* 7.3.2.3, the end, and the signal of ITU-T H.274 in a payload of whole bytes
FormatVui(v, position) ==
    LET size == BitLength(Ue("", v["sps_vui_payload_size_minus1"]))
        signal == Flags(<<"vui_progressive_source_flag", "vui_interlaced_source_flag",
                          "vui_non_packed_constraint_flag", "vui_non_projected_constraint_flag",
                          "vui_aspect_ratio_info_present_flag", "vui_overscan_info_present_flag",
                          "vui_colour_description_present_flag">>)
                  \o When(Is(v, "vui_colour_description_present_flag"),
                          Codes(8, <<"vui_colour_primaries", "vui_transfer_characteristics", "vui_matrix_coeffs">>)
                          \o Flags(<<"vui_full_range_flag">>))
                  \o Flags(<<"vui_chroma_loc_info_present_flag">>)
        used == IF Is(v, "vui_colour_description_present_flag") THEN 33 ELSE 8
        room == 8 * (v["sps_vui_payload_size_minus1"] + 1)
    IN  Exp(<<"sps_vui_payload_size_minus1">>)
        \o Loop(CHOOSE n \in 0..7 : (position + size + n) % 8 = 0, Flags(<<"sps_vui_alignment_zero_bit">>))
        \o signal
        \o When(used < room, Flags(<<"vui_payload_bit_equal_to_one">>)
                             \o Loop(room - used - 1, Flags(<<"vui_payload_bit_equal_to_zero">>)))

\* 7.3.2.4; the widths and heights of the tiles are all told.
FormatPps(v) ==
    LET cols == v["pps_num_exp_tile_columns_minus1"] + 1
        rows == v["pps_num_exp_tile_rows_minus1"] + 1
        slice(i) == When(i % cols # cols - 1, Exp(<<"pps_slice_width_in_tiles_minus1">>))
                    \o When(i \div cols # rows - 1 /\ (Is(v, "pps_tile_idx_delta_present_flag") \/ i % cols = 0),
                            Exp(<<"pps_slice_height_in_tiles_minus1">>))
        partition == ~Is(v, "pps_no_pic_partition_flag")
    IN  Codes(6, <<"pps_pic_parameter_set_id">>) \o Codes(4, <<"pps_seq_parameter_set_id">>)
        \o Flags(<<"pps_mixed_nalu_types_in_pic_flag">>)
        \o Exp(<<"pps_pic_width_in_luma_samples", "pps_pic_height_in_luma_samples">>)
        \o Flags(<<"pps_conformance_window_flag", "pps_scaling_window_explicit_signalling_flag",
                   "pps_output_flag_present_flag", "pps_no_pic_partition_flag",
                   "pps_subpic_id_mapping_present_flag">>)
        \o When(partition,
                Codes(2, <<"pps_log2_ctu_size_minus5">>)
                \o Exp(<<"pps_num_exp_tile_columns_minus1", "pps_num_exp_tile_rows_minus1">>)
                \o Loop(cols, Exp(<<"pps_tile_column_width_minus1">>))
                \o Loop(rows, Exp(<<"pps_tile_row_height_minus1">>))
                \o When(cols * rows > 1, Flags(<<"pps_loop_filter_across_tiles_enabled_flag", "pps_rect_slice_flag">>))
                \o When(Is(v, "pps_rect_slice_flag"),
                        Flags(<<"pps_single_slice_per_subpic_flag">>) \o Exp(<<"pps_num_slices_in_pic_minus1">>)
                        \o When(v["pps_num_slices_in_pic_minus1"] > 1, Flags(<<"pps_tile_idx_delta_present_flag">>))
                        \o FlattenSeq([i \in 1 .. v["pps_num_slices_in_pic_minus1"] |-> slice(i - 1)]))
                \o When(~Is(v, "pps_rect_slice_flag") \/ v["pps_num_slices_in_pic_minus1"] > 0,
                        Flags(<<"pps_loop_filter_across_slices_enabled_flag">>)))
        \o Flags(<<"pps_cabac_init_present_flag">>) \o Loop(2, Exp(<<"pps_num_ref_idx_default_active_minus1">>))
        \o Flags(<<"pps_rpl1_idx_present_flag", "pps_weighted_pred_flag", "pps_weighted_bipred_flag",
                   "pps_ref_wraparound_enabled_flag">>)
        \o Signed(<<"pps_init_qp_minus26">>)
        \o Flags(<<"pps_cu_qp_delta_enabled_flag", "pps_chroma_tool_offsets_present_flag">>)
        \o When(Is(v, "pps_chroma_tool_offsets_present_flag"),
                Signed(<<"pps_cb_qp_offset", "pps_cr_qp_offset">>)
                \o Flags(<<"pps_joint_cbcr_qp_offset_present_flag">>)
                \o When(Is(v, "pps_joint_cbcr_qp_offset_present_flag"), Signed(<<"pps_joint_cbcr_qp_offset_value">>))
                \o Flags(<<"pps_slice_chroma_qp_offsets_present_flag", "pps_cu_chroma_qp_offset_list_enabled_flag">>))
        \o Flags(<<"pps_deblocking_filter_control_present_flag">>)
        \o When(Is(v, "pps_deblocking_filter_control_present_flag"),
                Flags(<<"pps_deblocking_filter_override_enabled_flag", "pps_deblocking_filter_disabled_flag">>)
                \o When(~Is(v, "pps_deblocking_filter_disabled_flag"),
                        Signed(<<"pps_luma_beta_offset_div2", "pps_luma_tc_offset_div2">>)))
        \o When(partition, Flags(<<"pps_rpl_info_in_ph_flag", "pps_sao_info_in_ph_flag", "pps_alf_info_in_ph_flag",
                                   "pps_qp_delta_info_in_ph_flag">>))
        \o Flags(<<"pps_picture_header_extension_present_flag", "pps_slice_header_extension_present_flag",
                   "pps_extension_flag">>)

\* ref_pic_lists() when there is one list in the parameter set
FormatLists(sps) == When(sps["sps_num_ref_pic_lists"] > 0, Flags(<<"rpl_sps_flag">>))

\* 7.3.2.8
FormatPictureHeader(v, sps, pps) ==
    Flags(<<"ph_gdr_or_irap_pic_flag", "ph_non_ref_pic_flag">>)
    \o When(Is(v, "ph_gdr_or_irap_pic_flag"), Flags(<<"ph_gdr_pic_flag">>))
    \o Flags(<<"ph_inter_slice_allowed_flag">>)
    \o When(Is(v, "ph_inter_slice_allowed_flag"), Flags(<<"ph_intra_slice_allowed_flag">>))
    \o Exp(<<"ph_pic_parameter_set_id">>)
    \o Codes(sps["sps_log2_max_pic_order_cnt_lsb_minus4"] + 4, <<"ph_pic_order_cnt_lsb">>)
    \o When(Is(pps, "pps_rpl_info_in_ph_flag"), FormatLists(sps))
    \o When(Is(sps, "sps_partition_constraints_override_enabled_flag"),
            Flags(<<"ph_partition_constraints_override_flag">>))
    \o When(Is(v, "ph_inter_slice_allowed_flag")
              /\ (~Is(pps, "pps_rpl_info_in_ph_flag") \/ sps["num_ref_entries"] > 0),
            Flags(<<"ph_mvd_l1_zero_flag">>))
    \o When(Is(pps, "pps_qp_delta_info_in_ph_flag"), Signed(<<"ph_qp_delta">>))

\* 7.3.7, with the picture header the slice belongs to; a slice has no entry
\* points, being in one tile.
FormatSliceHeader(v, type, ph, sps, pps) ==
    LET slices == IF Is(pps, "pps_no_pic_partition_flag") THEN 1 ELSE pps["pps_num_slices_in_pic_minus1"] + 1
        skipsTransform == Is(sps, "sps_transform_skip_enabled_flag")
    IN  Flags(<<"sh_picture_header_in_slice_header_flag">>)
        \o When(Is(v, "sh_picture_header_in_slice_header_flag"), FormatPictureHeader(v, sps, pps))
        \o When(slices > 1, Codes(CHOOSE n \in 1..10 : 2 ^ n >= slices /\ 2 ^ (n - 1) < slices, <<"sh_slice_address">>))
        \o When(Is(ph, "ph_inter_slice_allowed_flag"), Exp(<<"sh_slice_type">>))
        \o When(type \in {"idr", "cra"}, Flags(<<"sh_no_output_of_prior_pics_flag">>))
        \o When(~Is(pps, "pps_rpl_info_in_ph_flag") /\ type # "idr", FormatLists(sps))
        \o When(sps["num_ref_entries"] > 1 /\ v["sh_slice_type"] # 2, Flags(<<"sh_num_ref_idx_active_override_flag">>))
        \o When(~Is(pps, "pps_qp_delta_info_in_ph_flag"), Signed(<<"sh_qp_delta">>))
        \o When(Is(pps, "pps_slice_chroma_qp_offsets_present_flag"), Signed(<<"sh_cb_qp_offset", "sh_cr_qp_offset">>))
        \o When(skipsTransform, Flags(<<"sh_ts_residual_coding_disabled_flag">>))

-----------------------------------------------------------------------------
(* A decoder of the units *)

Values(fields) ==
    [name \in {fields[i].name : i \in DOMAIN fields} |->
        fields[CHOOSE i \in DOMAIN fields : fields[i].name = name
                 /\ \A j \in i + 1 .. Len(fields) : fields[j].name # name].value]
Shape(fields) == [i \in DOMAIN fields |-> <<fields[i].name, fields[i].code>>]
InRange(f) == f.code[1] = "u" => f.value \in 0 .. 2 ^ f.code[2] - 1

\* The values of the parameter set a header refers to, as sent before unit k.
SpsBefore(k) == {Values(sent[i].fields) : i \in {j \in 1 .. k - 1 : sent[j].type = "sps"}}
PpsBefore(k, id) ==
    {v \in {Values(sent[i].fields) : i \in {j \in 1 .. k - 1 : sent[j].type = "pps"}} :
        v["pps_pic_parameter_set_id"] = id}
IsSlice(u) == u.type \in {"idr", "cra", "trail"}

\* The picture header of unit k: its own, or the last one before it.
HeaderOf(k) ==
    LET own == Values(sent[k].fields)
        before == {j \in 1 .. k - 1 : sent[j].type = "ph" /\ sent[j].picture = sent[k].picture}
    IN  IF sent[k].type = "ph" \/ Is(own, "sh_picture_header_in_slice_header_flag") THEN {own}
        ELSE {Values(sent[j].fields) : j \in before}

UnitIsRead(k) ==
    LET u == sent[k]
        v == Values(u.fields)
        shape == Shape(u.fields)
        plain == FormatSps(v)
        vui == Is(v, "sps_vui_parameters_present_flag")
    IN  /\ \A i \in DOMAIN u.fields : InRange(u.fields[i])
        /\ \A name \in Unused : ~Is(v, name)
        /\ CASE u.type = "sps" ->
                    shape = plain \o When(vui, FormatVui(v, BitLength(SubSeq(u.fields, 1, Len(plain)))))
                            \o Flags(<<"sps_extension_flag">>)
             [] u.type = "pps" -> shape = FormatPps(v) /\ SpsBefore(k) # {}
             [] u.type = "ph" ->
                    \E sps \in SpsBefore(k), pps \in PpsBefore(k, v["ph_pic_parameter_set_id"]) :
                        shape = FormatPictureHeader(v, sps, pps)
             [] IsSlice(u) ->
                    \E ph \in HeaderOf(k), sps \in SpsBefore(k) :
                        \E pps \in PpsBefore(k, ph["ph_pic_parameter_set_id"]) :
                            shape = FormatSliceHeader(v, u.type, ph, sps, pps)

-----------------------------------------------------------------------------
(* Properties *)

\* The CTUs a decoder takes a slice to hold: all, or the one of its address.
SliceCtus(v, pps, sps) ==
    IF Is(pps, "pps_no_pic_partition_flag")
    THEN 0 .. ((sps["sps_pic_width_max_in_luma_samples"] + 63) \div 64)
               * ((sps["sps_pic_height_max_in_luma_samples"] + 63) \div 64) - 1
    ELSE {IF "sh_slice_address" \in DOMAIN v THEN v["sh_slice_address"] ELSE 0}

SliceMeans(k) ==
    LET u == sent[k]
        v == Values(u.fields)
    IN  \A ph \in HeaderOf(k), sps \in SpsBefore(k) :
            \A pps \in PpsBefore(k, ph["ph_pic_parameter_set_id"]) :
                /\ SliceCtus(v, pps, sps) = u.ctus
                /\ 26 + pps["pps_init_qp_minus26"] + v["sh_qp_delta"] = coding.qp
                /\ ph["ph_pic_order_cnt_lsb"] = u.picture % (2 ^ PocBits)
                /\ Is(ph, "ph_gdr_or_irap_pic_flag") <=> IsIrap(u.type)
                /\ (u.slice = "P") <=> ("sh_slice_type" \in DOMAIN v /\ v["sh_slice_type"] = 1)
                /\ u.slice = "P" => sps["num_ref_entries"] = 1

\* The limits of the splits, in samples, that the parameter set states.
Limits(v, kind) ==
    LET minimum == 2 ^ (2 + v["sps_log2_diff_min_qt_min_cb_" \o kind])
    IN  [depth |-> v["sps_max_mtt_hierarchy_depth_" \o kind], qt |-> minimum,
         bt |-> minimum * 2 ^ v["sps_log2_diff_max_bt_min_qt_" \o kind],
         tt |-> minimum * 2 ^ v["sps_log2_diff_max_tt_min_qt_" \o kind]]

SequenceMeans(v) ==
    LET subW == IF v["sps_chroma_format_idc"] = 3 THEN 1 ELSE 2
        subH == IF v["sps_chroma_format_idc"] = 1 THEN 2 ELSE 1
        tools == ToolsOf(coding)
    IN  /\ v["sps_pic_width_max_in_luma_samples"] - subW * v["sps_conf_win_right_offset"] = coding.w
        /\ v["sps_pic_height_max_in_luma_samples"] - subH * v["sps_conf_win_bottom_offset"] = coding.h
        /\ v["sps_bitdepth_minus8"] + 8 = coding.depth
        /\ 2 ^ (v["sps_log2_ctu_size_minus5"] + 5) = CtuSize
        /\ Limits(v, "intra_slice_luma") = Format("I", "luma")
        /\ Limits(v, "inter_slice") = Format("P", "single")
        /\ Is(v, "sps_qtbtt_dual_tree_intra_flag") => Limits(v, "intra_slice_chroma") = Format("I", "chroma")
        /\ [mts |-> Is(v, "sps_explicit_mts_intra_enabled_flag"), mrl |-> Is(v, "sps_mrl_enabled_flag"),
            cclm |-> Is(v, "sps_cclm_enabled_flag"), ibc |-> Is(v, "sps_ibc_enabled_flag"),
            palette |-> Is(v, "sps_palette_enabled_flag"), dual |-> Is(v, "sps_qtbtt_dual_tree_intra_flag")] = tools
        /\ tools.ibc => v["sps_six_minus_max_num_ibc_merge_cand"] = 5
        /\ coding.predictive => v["sps_six_minus_max_num_merge_cand"] = 5

\* Every picture has one picture header, in front of its slices, which hold each
\* CTU once and in order.
PictureIsWhole(p) ==
    LET units == SelectSeq(sent, LAMBDA u : u.picture = p)
        heads == {i \in DOMAIN units : units[i].type = "ph"
                    \/ Is(Values(units[i].fields), "sh_picture_header_in_slice_header_flag")}
        slices == SelectSeq(units, IsSlice)
    IN  /\ heads = {1}
        /\ UNION {slices[i].ctus : i \in DOMAIN slices} = 0 .. CtusOf(coding) - 1
        /\ \A i, j \in DOMAIN slices : i < j => \A c \in slices[i].ctus, d \in slices[j].ctus : c < d

\* A decoder finds in every unit the fields it expects, and only those, each with
\* the code and in the range the format gives it, when it goes by the values
\* before it and by the parameter sets, sent before, the unit refers to; and they
\* say what was coded: the size of the picture to show, the limits and tools of
\* the coding trees, and of every slice its CTUs, type, quantiser and order count.
HeadersAreRead ==
    /\ \A k \in DOMAIN sent :
        /\ UnitIsRead(k)
        /\ sent[k].type = "sps" => SequenceMeans(Values(sent[k].fields))
        /\ IsSlice(sent[k]) => SliceMeans(k)
    /\ \A p \in 0 .. pictures - 1 : PictureIsWhole(p)
=============================================================================
